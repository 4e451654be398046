----------------------------- MODULE Lifecycle -----------------------------
(***************************************************************************)
(* The life of a JSONRPCServer, from start() to the end of aclose(), and   *)
(* of the connections it carries: what listens, which tasks and threads    *)
(* run, who owns each descriptor, and what is still unsent when a          *)
(* connection goes.                                                        *)
(*                                                                         *)
(* Several tasks of the program may use one server: each may run           *)
(* serve_forever() (start(), wait, aclose()) or call aclose(), at any      *)
(* time, also while another is still in start().  Stream connections       *)
(* (AF_UNIX, TCP) are asyncio's, WebSocket connections the library's; a    *)
(* kTLS connection is a task of the server's own, which does the TLS       *)
(* hand-shake on a worker thread before it adopts the descriptor.  An      *)
(* await is the boundary between two steps.  Where the code awaits an      *)
(* empty list the model takes a step as well.                              *)
(*                                                                         *)
(* What is dispatched on a connection, and the notification drain, are in  *)
(* Server; negotiation and transfers are in Dispatch and Transfer.         *)
(***************************************************************************)
EXTENDS Naturals, FiniteSets

CONSTANTS
    Conns,          \* connections
    Tasks,          \* tasks of the program that use the server
    Transports,     \* transports configured
    Kind,           \* the transport of each connection
    Python,         \* 311, 312 or 313: asyncio.Server.close differs
    MaxAccepted,    \* bound: connections accepted in all
    MaxFrames       \* bound: frames in a connection's queue

Order == <<"unix", "tcp", "ktls", "ws">>            \* start() binds in this order
Streams == {"unix", "tcp"}

ASSUME LifecycleAssumption ==
    /\ Transports \subseteq {"unix", "tcp", "ktls", "ws"}
    /\ ~ ({"tcp", "ktls"} \subseteq Transports)
    /\ Kind \in [Conns -> Transports]
    /\ Python \in {311, 312, 313}
    /\ MaxAccepted \in Nat /\ MaxFrames \in Nat

VARIABLES
    started,        \* _started
    stop,           \* _stop
    serving,        \* _serving is set
    executor,       \* _executor is not None
    bound,          \* transports start() is done with
    listening,      \* transports with an open listening socket
    kept,           \* transports whose server or listener is in the server's lists
    accepting,      \* the kTLS accept task: none, waiting, ended
    stranded,       \* a start() raised and left a listener that no aclose() to come will close
    at,             \* where each task of the program is
    waits,          \* connections a task's gather() waits for
    task,           \* the task of a connection
    job,            \* its hand-shake on a worker thread
    fd,             \* its descriptor
    writer,         \* its writer task
    frames          \* frames in its queue

listenVars == <<bound, listening, kept, accepting, stranded>>
flagVars == <<started, stop, serving, executor>>
connVars == <<task, job, fd, writer, frames>>
vars == <<flagVars, listenVars, at, waits, connVars>>

(***************************************************************************)
(* fd: "open", "closing" (its transport is told to close and has bytes to  *)
(* write), "closed"; "dropped": a socket object nobody refers to any more, *)
(* which the interpreter closes; "lost": the bare number of a descriptor,  *)
(* which nobody can close.                                                 *)
(***************************************************************************)
LifecycleTypeOK ==
    /\ started \in BOOLEAN /\ stop \in BOOLEAN /\ serving \in BOOLEAN /\ executor \in BOOLEAN
    /\ bound \subseteq Transports /\ listening \subseteq Transports
    /\ kept \subseteq bound
    /\ accepting \in {"none", "waiting", "ended"}
    /\ stranded \in BOOLEAN
    /\ at \in [Tasks -> {"idle", "binding", "raised", "up", "waitServers", "waitWs", "gather",
                         "closed"}]
    /\ waits \in [Tasks -> SUBSET Conns]
    /\ task \in [Conns -> {"none", "accepted", "handshaking", "adopting", "serving", "flushing",
                           "ended"}]
    /\ job \in [Conns -> {"none", "queued", "running", "ok", "failed", "cancelled"}]
    /\ fd \in [Conns -> {"none", "open", "closing", "closed", "dropped", "lost"}]
    /\ writer \in [Conns -> {"none", "running", "stopped", "failed", "cancelled"}]
    /\ frames \in [Conns -> 0 .. MaxFrames]

Init ==
    /\ started = FALSE /\ stop = FALSE /\ serving = FALSE /\ executor = FALSE
    /\ bound = {} /\ listening = {} /\ kept = {} /\ accepting = "none" /\ stranded = FALSE
    /\ at = [t \in Tasks |-> "idle"]
    /\ waits = [t \in Tasks |-> {}]
    /\ task = [c \in Conns |-> "none"]
    /\ job = [c \in Conns |-> "none"]
    /\ fd = [c \in Conns |-> "none"]
    /\ writer = [c \in Conns |-> "none"]
    /\ frames = [c \in Conns |-> 0]

Goes(t, stage) == at' = [at EXCEPT ![t] = stage]

(***************************************************************************)
(* start().                                                                *)
(***************************************************************************)
\* serve_forever() calls start(), which returns at once if one was called before.
Enter(t) ==
    /\ at[t] \in {"idle", "raised"}
    /\ IF started
       THEN Goes(t, "up") /\ UNCHANGED flagVars
       ELSE /\ started' = TRUE /\ executor' = TRUE /\ serving' = FALSE
            /\ Goes(t, "binding")
            /\ UNCHANGED stop
    /\ UNCHANGED <<listenVars, waits, connVars>>

\* k is the transport start() is at.
Current(k) ==
    /\ k \in Transports \ bound
    /\ \A i, j \in DOMAIN Order :
          Order[i] \in Transports \ bound /\ Order[j] = k => j <= i

\* asyncio's servers and the WebSocket library's listen before the await returns them; the
\* kTLS listener and its accept task, whose loop tests _stop first, are made in one step.
Listen(t, k) ==
    /\ at[t] = "binding" /\ Current(k) /\ k \notin listening
    /\ listening' = listening \cup {k}
    /\ IF k = "ktls"
       THEN /\ kept' = kept \cup {k} /\ bound' = bound \cup {k}
            /\ accepting' = IF stop THEN "ended" ELSE "waiting"
       ELSE UNCHANGED <<kept, bound, accepting>>
    /\ UNCHANGED <<flagVars, stranded, at, waits, connVars>>

Keep(t, k) ==
    /\ at[t] = "binding" /\ Current(k) /\ k \in listening
    /\ kept' = kept \cup {k} /\ bound' = bound \cup {k}
    /\ UNCHANGED <<flagVars, listening, accepting, stranded, at, waits, connVars>>

\* A bind, chmod() or import error, or the task is cancelled.
BindFails(t) ==
    /\ at[t] = "binding" /\ bound # Transports
    /\ Goes(t, "raised")
    /\ stranded' = (stranded \/ stop \/ ~ (listening \subseteq kept))
    /\ UNCHANGED <<flagVars, bound, listening, kept, accepting, waits, connVars>>

Started(t) ==
    /\ at[t] = "binding" /\ bound = Transports
    /\ Goes(t, "up")
    /\ UNCHANGED <<flagVars, listenVars, waits, connVars>>

Bind(t) == (\E k \in Transports : Listen(t, k) \/ Keep(t, k)) \/ Started(t)

(***************************************************************************)
(* aclose().                                                               *)
(***************************************************************************)
CloseTransports(kinds) ==
    fd' = [c \in Conns |-> IF Kind[c] \in kinds /\ fd[c] = "open" THEN "closing" ELSE fd[c]]

\* Deliberately wrong: a kTLS task is tracked once its hand-shake is over.
GatheredOnceServing ==
    {c \in Conns : Kind[c] = "ktls" /\ task[c] \in {"adopting", "serving", "flushing"}}

Gathered == {c \in Conns : Kind[c] = "ktls" /\ task[c] \notin {"none", "ended"}}

\* A task calls aclose(): serve_forever() when the event is set or it is cancelled.  From 3.13
\* on asyncio's servers also close the transports of their clients.
Halt(t) ==
    /\ at[t] \in {"idle", "raised", "up"}
    /\ kept # {} \/ Gathered # {}
    /\ stop' = TRUE
    /\ serving' = started
    /\ listening' = listening \ (kept \cap Streams)
    /\ CloseTransports(IF Python = 313 THEN kept \cap Streams ELSE {})
    /\ Goes(t, "waitServers")
    /\ UNCHANGED <<started, executor, bound, kept, accepting, stranded, waits, task, job, writer,
                   frames>>

\* With nothing to close aclose() does not await: before start(), early in one, or once more.
HaltEmpty(t) ==
    /\ at[t] \in {"idle", "raised", "up"}
    /\ kept = {} /\ Gathered = {}
    /\ stop' = TRUE
    /\ serving' = started
    /\ executor' = FALSE
    /\ Goes(t, "closed")
    /\ UNCHANGED <<started, listenVars, waits, connVars>>

\* wait_closed(): 3.11 returns at once when the server is closed, later ones wait for the clients.
ServersClosed ==
    \A k \in kept \cap Streams :
        /\ k \notin listening
        /\ Python >= 312 => \A c \in Conns : Kind[c] = k => fd[c] \in {"none", "closed"}

StopWs(t) ==
    /\ at[t] = "waitServers" /\ ServersClosed
    /\ kept' = kept \ Streams
    /\ listening' = listening \ (kept \cap {"ws"})
    /\ CloseTransports(kept \cap {"ws"})
    /\ Goes(t, "waitWs")
    /\ UNCHANGED <<flagVars, bound, accepting, stranded, waits, task, job, writer, frames>>

\* The library waits for its connections' handlers.
WsClosed ==
    "ws" \in kept => /\ "ws" \notin listening
                     /\ \A c \in Conns : Kind[c] = "ws" => task[c] \in {"none", "ended"}

\* Deliberately wrong: serve() swallows the cancellation and reads on.
CancellationSwallowed(c) == IF task[c] \in {"serving", "flushing"} THEN task[c] ELSE "ended"

\* Task.cancel() on the task of a kTLS connection.
CancelledTask(c) ==
    CASE task[c] = "serving"                               -> "flushing"
      [] task[c] = "flushing" /\ writer[c] = "running"     -> "flushing"
      [] OTHER                                             -> "ended"

\* Its writer gets the cancellation if the task awaits it; one that has ended passes it on, and
\* _close() is cut off before it closes the channel.
CancelledWriter(c) ==
    IF task[c] = "flushing" /\ writer[c] = "running" THEN "cancelled" ELSE writer[c]

\* Deliberately wrong: an adoption that is cancelled does not close the plain socket.
AdoptedFdLeft(c) ==
    CASE task[c] = "accepted"                                            -> "dropped"
      [] task[c] = "handshaking" /\ job[c] = "ok"                        -> "lost"
      [] task[c] = "flushing" /\ writer[c] # "running" /\ fd[c] = "open" -> "dropped"
      [] OTHER                                                           -> fd[c]

CancelledFd(c) ==
    CASE task[c] = "accepted"                                            -> "dropped"
      [] task[c] = "handshaking" /\ job[c] = "ok"                        -> "lost"
      [] task[c] = "adopting"                                            -> "closed"
      [] task[c] = "flushing" /\ writer[c] # "running" /\ fd[c] = "open" -> "dropped"
      [] OTHER                                                           -> fd[c]

StopKtls(t) ==
    /\ at[t] = "waitWs" /\ WsClosed
    /\ kept' = kept \ {"ws", "ktls"}
    /\ listening' = listening \ (kept \cap {"ktls"})
    /\ accepting' = IF accepting = "waiting" THEN "ended" ELSE accepting
    /\ waits' = [waits EXCEPT ![t] = Gathered]
    /\ task' = [c \in Conns |-> IF c \in Gathered THEN CancelledTask(c) ELSE task[c]]
    /\ writer' = [c \in Conns |-> IF c \in Gathered THEN CancelledWriter(c) ELSE writer[c]]
    /\ fd' = [c \in Conns |-> IF c \in Gathered THEN CancelledFd(c) ELSE fd[c]]
    /\ Goes(t, "gather")
    /\ UNCHANGED <<flagVars, bound, stranded, job, frames>>

Return(t) ==
    /\ at[t] = "gather"
    /\ \A c \in waits[t] : task[c] = "ended"
    /\ executor' = FALSE
    /\ Goes(t, "closed")
    /\ UNCHANGED <<started, stop, serving, listenVars, waits, connVars>>

(***************************************************************************)
(* A connection's task.                                                    *)
(***************************************************************************)
Becomes(c, stage) == task' = [task EXCEPT ![c] = stage]
SetFd(c, state) == fd' = [fd EXCEPT ![c] = state]
Rest == <<flagVars, listenVars, at, waits>>

\* Connection.serve() starts its writer.
Serve(c) ==
    /\ Becomes(c, "serving")
    /\ writer' = [writer EXCEPT ![c] = "running"]

New(c) ==
    /\ task[c] = "none"
    /\ Cardinality({d \in Conns : task[d] # "none"}) < MaxAccepted

Accept(c) ==
    /\ New(c) /\ Kind[c] \in listening \ {"ktls"}
    /\ SetFd(c, "open") /\ Serve(c)
    /\ UNCHANGED <<Rest, job, frames>>

\* The accept loop tests _stop only after it has made the task.
AcceptKtls(c) ==
    /\ New(c) /\ Kind[c] = "ktls" /\ "ktls" \in listening /\ accepting = "waiting"
    /\ SetFd(c, "open") /\ Becomes(c, "accepted")
    /\ accepting' = IF stop THEN "ended" ELSE "waiting"
    /\ UNCHANGED <<flagVars, bound, listening, kept, stranded, at, waits, job, writer,
                   frames>>

\* run_in_executor(), or the assertion fails: an aclose() has come before this task ran.
Handshake(c) ==
    /\ task[c] = "accepted"
    /\ \/ executor /\ Becomes(c, "handshaking") /\ job' = [job EXCEPT ![c] = "queued"]
          /\ UNCHANGED fd
       \/ ~ executor /\ Becomes(c, "ended") /\ SetFd(c, "dropped") /\ UNCHANGED job
    /\ UNCHANGED <<Rest, writer, frames>>

JobStarts(c) ==
    /\ job[c] = "queued"
    /\ job' = [job EXCEPT ![c] = "running"]
    /\ UNCHANGED <<Rest, task, fd, writer, frames>>

\* The cancellation of a task reaches a job that has not started; the socket object goes with it.
JobCancelled(c) ==
    /\ job[c] = "queued" /\ task[c] = "ended"
    /\ job' = [job EXCEPT ![c] = "cancelled"]
    /\ SetFd(c, "dropped")
    /\ UNCHANGED <<Rest, task, writer, frames>>

\* handshake() closes the socket if it fails, or kTLS does not engage; else it detaches the
\* descriptor and returns its number, to nobody if the task is gone.
JobEnds(c) ==
    /\ job[c] = "running"
    /\ \/ job' = [job EXCEPT ![c] = "failed"] /\ SetFd(c, "closed")
       \/ /\ job' = [job EXCEPT ![c] = "ok"]
          /\ IF task[c] = "ended" THEN SetFd(c, "lost") ELSE UNCHANGED fd
    /\ UNCHANGED <<Rest, task, writer, frames>>

Adopt(c) ==
    /\ task[c] = "handshaking"
    /\ \/ job[c] = "ok" /\ Becomes(c, "adopting")
       \/ job[c] = "failed" /\ Becomes(c, "ended")
    /\ UNCHANGED <<Rest, job, fd, writer, frames>>

Adopted(c) ==
    /\ task[c] = "adopting"
    /\ \/ Serve(c) /\ UNCHANGED fd
       \/ Becomes(c, "ended") /\ SetFd(c, "closed") /\ UNCHANGED writer
    /\ UNCHANGED <<Rest, job, frames>>

\* A reply or a notification; enqueue_outbound() drops what comes after _close().
Send(c) ==
    /\ task[c] = "serving" /\ frames[c] < MaxFrames
    /\ frames' = [frames EXCEPT ![c] = @ + 1]
    /\ UNCHANGED <<Rest, task, job, fd, writer>>

\* read_message() returns None (EOF, also in the middle of a frame) or finds a frame too large,
\* which is answered; _close() then queues the sentinel and awaits the writer.
EndServe(c) ==
    /\ task[c] = "serving"
    /\ \/ UNCHANGED frames
       \/ /\ fd[c] = "open" /\ frames[c] < MaxFrames
          /\ frames' = [frames EXCEPT ![c] = @ + 1]
    /\ Becomes(c, "flushing")
    /\ UNCHANGED <<Rest, job, fd, writer>>

\* Deliberately wrong: the writer takes the sentinel for a frame.
SentinelSent(c) ==
    /\ writer[c] = "running" /\ fd[c] # "closed"
    /\ frames' = [frames EXCEPT ![c] = @ - 1]
    /\ UNCHANGED <<Rest, task, job, fd, writer>>

\* The writer waits for a peer that does not read; a lost connection ends it.
WriterSends(c) ==
    /\ writer[c] = "running" /\ frames[c] > 0 /\ fd[c] # "closed"
    /\ frames' = [frames EXCEPT ![c] = @ - 1]
    /\ UNCHANGED <<Rest, task, job, fd, writer>>

\* Deliberately wrong: the sentinel overtakes the frames queued before it.
SentinelFirst(c) ==
    /\ writer[c] = "running" /\ task[c] = "flushing"
    /\ writer' = [writer EXCEPT ![c] = "stopped"]
    /\ UNCHANGED <<Rest, task, job, fd, frames>>

WriterEnds(c) ==
    /\ writer[c] = "running"
    /\ \/ /\ frames[c] > 0 /\ fd[c] = "closed"
          /\ writer' = [writer EXCEPT ![c] = "failed"]
       \/ /\ task[c] = "flushing" /\ frames[c] = 0             \* the sentinel
          /\ writer' = [writer EXCEPT ![c] = "stopped"]
    /\ UNCHANGED <<Rest, task, job, fd, frames>>

\* _close() goes on behind the writer and closes the channel.
Finish(c) ==
    /\ task[c] = "flushing" /\ writer[c] # "running"
    /\ Becomes(c, "ended")
    /\ SetFd(c, IF fd[c] = "open" THEN "closing" ELSE fd[c])
    /\ UNCHANGED <<Rest, job, writer, frames>>

\* The connection is lost, or a closing transport has written what it had.
Detach(c) ==
    /\ \/ fd[c] = "open" /\ task[c] \in {"serving", "flushing"}
       \/ fd[c] = "closing"
    /\ SetFd(c, "closed")
    /\ UNCHANGED <<Rest, task, job, writer, frames>>

ConnStep(c) ==
    \/ Accept(c) \/ AcceptKtls(c) \/ Handshake(c) \/ JobStarts(c) \/ JobCancelled(c)
    \/ JobEnds(c) \/ Adopt(c) \/ Adopted(c) \/ Send(c) \/ EndServe(c) \/ WriterSends(c)
    \/ WriterEnds(c) \/ Finish(c) \/ Detach(c)

TaskStep(t) ==
    \/ Enter(t) \/ Bind(t) \/ BindFails(t) \/ Halt(t) \/ HaltEmpty(t)
    \/ StopWs(t) \/ StopKtls(t) \/ Return(t)

\* Every connection has been and gone, and nobody has anything left to do with the server.
Over ==
    /\ \A t \in Tasks : at[t] = "closed"
    /\ UNCHANGED vars

Next ==
    \/ \E t \in Tasks : TaskStep(t)
    \/ \E c \in Conns : ConnStep(c)
    \/ Over

Spec == Init /\ [][Next]_vars

(***************************************************************************)
(* Fairness.  The loop runs what is ready: start() and aclose() go on,     *)
(* serve_forever() wakes up, a connection whose transport is gone ends and *)
(* the writer gets its sentinel.  Peers read or leave: the writer goes on, *)
(* and a transport that is closing is written out or lost (the WebSocket   *)
(* library has a time-out).  Without that assumption aclose() waits for    *)
(* ever on a peer that reads nothing more.  A hand-shake owes nothing.     *)
(***************************************************************************)
Fairness ==
    /\ \A t \in Tasks : /\ WF_vars(Bind(t)) /\ WF_vars(StopWs(t)) /\ WF_vars(StopKtls(t))
                        /\ WF_vars(Return(t))
                        /\ WF_vars(at[t] = "up" /\ serving /\ (Halt(t) \/ HaltEmpty(t)))
    /\ \A c \in Conns : /\ WF_vars(fd[c] = "closed" /\ EndServe(c))
                        /\ WF_vars(WriterSends(c)) /\ WF_vars(WriterEnds(c)) /\ WF_vars(Finish(c))
                        /\ WF_vars(fd[c] = "closing" /\ Detach(c))

FairSpec == Spec /\ Fairness

(***************************************************************************)
(* Properties.                                                             *)
(***************************************************************************)
\* No task is in start() or serves, and an aclose() has returned.
Closed ==
    /\ \A t \in Tasks : at[t] \in {"idle", "raised", "closed"}
    /\ \E t \in Tasks : at[t] = "closed"
    /\ ~ stranded

\* Once aclose() has returned nothing listens, whatever start() it overlapped; no connection
\* the version of asyncio can reach is open (aclose() "close open connections"); and no task
\* of a kTLS or WebSocket connection is left behind, however far it was when aclose() took its
\* list of tasks, and whichever of several aclose() calls returned.
ClosedAfterAclose ==
    Closed => /\ listening = {}
              /\ \A c \in Conns :
                   IF Kind[c] \in Streams THEN Python >= 312 => fd[c] \in {"none", "closed"}
                                          ELSE task[c] \in {"none", "ended"}

\* A connection that is over holds no open descriptor: a hand-shake that fails, an adoption that
\* is cancelled and _close() each close what they own.  What is left is a hand-shake still on its
\* worker when its task was cancelled.  A descriptor that the worker had handed over by then is
\* "lost", and not covered: nobody closes it.
HandlesHaveOwners ==
    \A c \in Conns : task[c] = "ended" /\ fd[c] = "open" => job[c] \in {"queued", "running"}

\* _close() lets the writer send what was queued before it, also the answer to a frame that was
\* too large, unless the connection is lost or aclose() cancels it.
FlushedBeforeClose ==
    \A c \in Conns : task[c] = "ended" /\ frames[c] > 0 => writer[c] \in {"failed", "cancelled"}

\* aclose() returns and with it serve_forever(), though two tasks may call it at once, a start()
\* may overlap it and a hand-shake may never end.
ShutdownCompletes ==
    \A t \in Tasks :
        (at[t] \in {"waitServers", "waitWs", "gather"} \/ (at[t] = "up" /\ serving))
            ~> (at[t] = "closed" \/ stranded)

=============================================================================
