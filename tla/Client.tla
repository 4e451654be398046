------------------------------- MODULE Client -------------------------------
(***************************************************************************)
(* BaseClient: application threads make blocking calls; each call is a     *)
(* coroutine on the client's event loop, which also reads the connection;  *)
(* callbacks run on the backchannel thread.                                *)
(*                                                                         *)
(* A step is what one thread does between two points at which another can  *)
(* be seen.  The loop runs its callbacks in the order they were posted;    *)
(* how many callbacks a result or a cancellation takes is kept, because a  *)
(* time-out may fall between any two of them and close() stops the loop    *)
(* behind them.                                                            *)
(*                                                                         *)
(* The server is what the client may expect of it: it answers requests in  *)
(* any order, reports progress of a request before it answers, and sends a *)
(* published payload once for each subscription.  The connection may be    *)
(* lost at any time.  A client is met before connect(), which the          *)
(* application calls once and first, or when it is connected already.      *)
(* Raw-fd transfers are not in this module.                                *)
(***************************************************************************)
EXTENDS Naturals, FiniteSets, Sequences, SequencesExt

CONSTANTS
    Ops,            \* blocking calls made on the client
    Topics,         \* pub/sub topics
    None,           \* nothing there
    Usage,          \* programs: what the application makes each call for
    MaxPayloads     \* bound: payloads the server sends besides answers

\* `with' is the topic of a subscribe, the subscription an unsubscribe drops;
\* `timed': the call has a time-out; `callback': it was given a callback.
Use == [kind : {"connect", "call", "subscribe", "unsubscribe", "close"},
        with : Topics \cup Ops \cup {None}, timed : BOOLEAN, callback : BOOLEAN]

ASSUME ClientAssumption ==
    /\ Usage \subseteq [Ops -> Use]
    /\ None \notin Ops /\ None \notin Use /\ Topics \cap Ops = {}
    /\ MaxPayloads \in Nat

VARIABLES
    use,            \* what a call was made for
    at,             \* where the calling thread stands
    outcome,        \* how the call ended for the caller
    closed,         \* _closed
    cf,             \* the concurrent future the caller waits on
    task,           \* the coroutine on the loop, and the reply it got
    pending,        \* _pending
    progressCbs,    \* _progress_callbacks
    subCbs,         \* _sub_callbacks: subscriptions whose callback is in the list
    subIds,         \* _sub_ids
    ready,          \* callbacks posted to the loop
    loop,           \* the loop's thread
    reader,         \* _read_loop
    teardowns,      \* _teardown() coroutines that wait for the reader
    backchannel,    \* _backchannel_q: whose callback, None the fallback
    link,           \* the connection
    up, down,       \* requests and messages under way
    serverSubs,     \* subscriptions the server holds
    payloads        \* payloads sent so far

callerVars  == <<use, at, outcome, closed>>
tableVars   == <<pending, progressCbs, subCbs, subIds>>
readerVars  == <<reader, teardowns>>
loopVars    == <<ready, loop, readerVars>>
serverVars  == <<up, serverSubs, payloads>>
vars == <<callerVars, cf, task, tableVars, loopVars, backchannel, link, down, serverVars>>

\* The coroutine of connect() is "connecting" until it has a channel.
TaskStates == {"none", "connecting", "waiting", "result", "error", "cancelled",
               "returned", "raised"}

Stages == {"idle", "closing", "posting", "waiting", "expired", "cancelling",
           "timedOut", "tearing", "torn", "stopping", "ended"}

\* What waits on the loop: `reaped' and `torn' are the rest of _teardown().
Callback == [run : {"start", "cancel", "wake", "copy", "remove",
                    "teardown", "reaped", "torn", "stop"}, of : Ops]

Packet == [kind : {"result", "error", "progress", "event"}, of : Ops, n : Nat]

ClientTypeOK ==
    /\ use \in [Ops -> Use \cup {None}]
    /\ at \in [Ops -> Stages]
    /\ outcome \in [Ops -> {None, "RESULT", "ERROR", "TIMEOUT", "RAW_TIMEOUT", "CLOSED"}]
    /\ closed \in BOOLEAN
    /\ cf \in [Ops -> {"none", "pending", "result", "error", "cancelled"}]
    /\ task \in [Ops -> TaskStates]
    /\ pending \subseteq Ops /\ progressCbs \subseteq Ops
    /\ subCbs \subseteq Ops /\ subIds \subseteq subCbs
    /\ ready \in Seq(Callback)
    /\ loop \in {"new", "running", "stopping", "stopped", "closed"}
    /\ reader \in {"none", "reading", "ended"}
    /\ teardowns \subseteq Ops
    /\ backchannel \in Seq([to : Ops \cup {None}, n : Nat])
    /\ link \in {"none", "up", "lost", "closing", "closed"}
    /\ up \subseteq Ops /\ serverSubs \subseteq Ops
    /\ down \in Seq(Packet)
    /\ payloads \in 0..MaxPayloads
    /\ \A o \in pending : task[o] \in {"waiting", "result", "error", "cancelled"}

ClientInit ==
    /\ use = [o \in Ops |-> None]
    /\ at = [o \in Ops |-> "idle"]
    /\ outcome = [o \in Ops |-> None]
    /\ closed = FALSE
    /\ cf = [o \in Ops |-> "none"]
    /\ task = [o \in Ops |-> "none"]
    /\ pending = {} /\ progressCbs = {} /\ subCbs = {} /\ subIds = {}
    /\ \/ loop = "running" /\ reader = "reading" /\ link = "up"
       \/ loop = "new" /\ reader = "none" /\ link = "none"
    /\ ready = <<>> /\ teardowns = {} /\ backchannel = <<>> /\ up = {} /\ down = <<>>
    /\ serverSubs = {} /\ payloads = 0

Post(run, o) == ready' = Append(ready, [run |-> run, of |-> o])
GoTo(o, stage) == at' = [at EXCEPT ![o] = stage]

\* What the call may still be made for, in a program that the calls begun so far follow.
Wanted(o) == {f[o] : f \in {g \in Usage : \A p \in Ops : use[p] \in {None, g[p]}}}

LoopRuns == loop \in {"running", "stopping"}

Kind(o) == IF use[o] = None THEN "none" ELSE use[o].kind

-----------------------------------------------------------------------------
(* The calling thread.                                                     *)

\* The call ends for its caller.  unsubscribe() drops the local callback whatever
\* came of it; it raises when the loop is closed by then.
End(o, result) ==
    /\ GoTo(o, "ended")
    /\ \/ /\ Kind(o) = "unsubscribe" /\ loop # "closed"
          /\ Post("remove", o)
          /\ outcome' = [outcome EXCEPT ![o] = result]
       \/ /\ Kind(o) = "unsubscribe" /\ loop = "closed"
          /\ outcome' = [outcome EXCEPT ![o] = "ERROR"]
          /\ UNCHANGED ready
       \/ /\ Kind(o) # "unsubscribe"
          /\ outcome' = [outcome EXCEPT ![o] = result]
          /\ UNCHANGED ready
    /\ UNCHANGED <<use, closed>>

\* _closed is tested here; the coroutine is posted later.
Begin(o, u) ==
    /\ at[o] = "idle"
    /\ u.kind = "connect" <=> loop = "new"
    /\ u.kind = "connect" => \A p \in Ops : at[p] = "idle"
    /\ u.kind = "unsubscribe" =>
          u.with \in Ops /\ Kind(u.with) = "subscribe" /\ outcome[u.with] = "RESULT"
    /\ use' = [use EXCEPT ![o] = u]
    /\ \/ /\ closed
          /\ GoTo(o, "ended")
          /\ outcome' = [outcome EXCEPT ![o] = "CLOSED"]
          /\ UNCHANGED closed
       \/ /\ ~closed
          /\ GoTo(o, IF u.kind = "close" THEN "closing" ELSE "posting")
          /\ UNCHANGED <<outcome, closed>>
    /\ UNCHANGED <<cf, task, tableVars, loopVars, backchannel, link, down, serverVars>>

\* close() sets _closed, without a lock: another close() may have passed its test by then.
Shut(o) ==
    /\ at[o] = "closing"
    /\ closed' = TRUE
    /\ GoTo(o, "posting")
    /\ UNCHANGED <<use, outcome, cf, task, tableVars, loopVars, backchannel, link, down,
                   serverVars>>

\* connect() starts the loop's thread.
Connect(o) ==
    /\ at[o] = "posting" /\ Kind(o) = "connect"
    /\ loop' = "running"
    /\ Post("start", o)
    /\ cf' = [cf EXCEPT ![o] = "pending"]
    /\ GoTo(o, "waiting")
    /\ UNCHANGED <<use, outcome, closed, task, tableVars, readerVars, backchannel, link, down,
                   serverVars>>

\* run_coroutine_threadsafe(); the loop may be closed by now.  unsubscribe() is a
\* call() that tests _closed once more.
Submit(o) ==
    /\ at[o] = "posting" /\ Kind(o) # "connect"
    /\ \/ /\ loop # "closed"
          /\ Post("start", o)
          /\ cf' = [cf EXCEPT ![o] = "pending"]
          /\ GoTo(o, "waiting")
          /\ UNCHANGED <<use, outcome, closed>>
       \/ loop = "closed" /\ End(o, "ERROR") /\ UNCHANGED cf
       \/ Kind(o) = "unsubscribe" /\ closed /\ End(o, "CLOSED") /\ UNCHANGED cf
    /\ UNCHANGED <<task, tableVars, loop, readerVars, backchannel, link, down, serverVars>>

\* close() goes on to _teardown(), whatever came of its $/sessionClose; when another
\* close() has closed the loop by then, it comes to loop.stop() and raises there.
TearDown(o) ==
    \/ /\ loop # "closed"
       /\ GoTo(o, "tearing") /\ Post("teardown", o)
       /\ UNCHANGED <<use, outcome, closed>>
    \/ loop = "closed" /\ End(o, "ERROR")

\* cf.result() returns or raises what the coroutine did.
Return(o) ==
    /\ at[o] = "waiting" /\ cf[o] \in {"result", "error"}
    /\ \/ Kind(o) = "close" /\ TearDown(o)
       \/ /\ Kind(o) # "close"
          /\ End(o, IF cf[o] = "result" THEN "RESULT" ELSE "ERROR")
    /\ UNCHANGED <<cf, task, tableVars, loop, readerVars, backchannel, link, down, serverVars>>

\* cf.result(timeout) gives up: connect() raises and leaves its coroutine to go on.
Expire(o) ==
    /\ at[o] = "waiting" /\ cf[o] = "pending" /\ use[o].timed
    /\ \/ Kind(o) = "close" /\ TearDown(o)
       \/ Kind(o) = "connect" /\ End(o, "RAW_TIMEOUT")
       \/ /\ Kind(o) \notin {"close", "connect"}
          /\ GoTo(o, "expired")
          /\ UNCHANGED <<use, outcome, closed, ready>>
    /\ UNCHANGED <<cf, task, tableVars, loop, readerVars, backchannel, link,
                   down, serverVars>>

\* _settle(): a future done by now is taken for a TimeoutError of the coroutine's.
Settle(o) ==
    /\ at[o] = "expired"
    /\ \/ cf[o] # "pending" /\ End(o, "RAW_TIMEOUT")
       \/ /\ cf[o] = "pending"
          /\ GoTo(o, "cancelling")
          /\ UNCHANGED <<use, outcome, closed, ready>>
    /\ UNCHANGED <<cf, task, tableVars, loop, readerVars, backchannel, link, down, serverVars>>

\* Deliberately wrong: the time-out reported, the coroutine left alone.
NotCancelled(o) == UNCHANGED <<cf, ready>>

\* cf.cancel(): passed on to the coroutine once that exists; no effect on a future
\* that is done.
CancelFuture(o) ==
    /\ cf' = [cf EXCEPT ![o] = IF @ = "pending" THEN "cancelled" ELSE @]
    /\ IF cf[o] = "pending" /\ task[o] # "none" /\ loop # "closed"
       THEN Post("cancel", o) ELSE UNCHANGED ready

\* The caller sees ClientError("operation timed out").
GiveUp(o) ==
    /\ at[o] = "cancelling"
    /\ CancelFuture(o)
    /\ GoTo(o, "timedOut")
    /\ UNCHANGED <<use, outcome, closed, task, tableVars, loop, readerVars, backchannel, link, down,
                   serverVars>>

RaiseTimeout(o) ==
    /\ at[o] = "timedOut"
    /\ End(o, "TIMEOUT")
    /\ UNCHANGED <<cf, task, tableVars, loop, readerVars, backchannel, link, down, serverVars>>

-----------------------------------------------------------------------------
(* close(), after its $/sessionClose.                                      *)

\* The transport or the reader has kept _teardown() waiting for five seconds, or the loop
\* does not run: close() goes on without it.  (A loop that runs gets through the callbacks
\* it has ready well within that.)
Abandon(o) ==
    /\ at[o] = "tearing"
    /\ o \in teardowns \/ ~LoopRuns
    /\ GoTo(o, "torn")
    /\ UNCHANGED <<use, outcome, closed, cf, task, tableVars, loopVars, backchannel, link, down,
                   serverVars>>

\* loop.stop() is posted; on a loop that is closed that raises.
StopLoop(o) ==
    /\ at[o] = "torn"
    /\ \/ /\ loop # "closed"
          /\ GoTo(o, "stopping") /\ Post("stop", o)
          /\ UNCHANGED <<use, outcome, closed>>
       \/ loop = "closed" /\ End(o, "ERROR")
    /\ UNCHANGED <<cf, task, tableVars, loop, readerVars, backchannel, link, down, serverVars>>

\* join the loop's thread, close the loop.
CloseLoop(o) ==
    /\ at[o] = "stopping" /\ loop \in {"stopped", "closed"}
    /\ loop' = "closed"
    /\ End(o, "RESULT")
    /\ UNCHANGED <<cf, task, tableVars, readerVars, backchannel, link, down, serverVars>>

-----------------------------------------------------------------------------
(* Callbacks of the loop.                                                  *)

\* It is run's turn for o.  Once stop() has run, what is still in the loop's batch
\* runs and the rest never does.
Turn(run, o) == LoopRuns /\ ready # <<>> /\ Head(ready) = [run |-> run, of |-> o]
Then(runs, o) == ready' = Tail(ready) \o [i \in DOMAIN runs |-> [run |-> runs[i], of |-> o]]

\* _do_subscribe() lists the callback before anything is sent.
\* Deliberately wrong: RegisteredLater leaves it to the answer.
RegisteredLater(o) == subCbs
Registered(o) ==
    IF Kind(o) = "subscribe" /\ use[o].callback THEN subCbs \cup {o} ELSE subCbs

\* The coroutine runs to its first wait: it registers the callbacks and the future,
\* then sends.  A send on a connection that is lost or being closed may go unnoticed;
\* without a channel it raises.  A cancellation that came before the coroutine existed
\* reaches it next.
RunStart(o) ==
    /\ Turn("start", o) /\ Kind(o) # "connect"
    /\ \/ /\ link \in {"up", "lost", "closing"}
          /\ task' = [task EXCEPT ![o] = "waiting"]
          /\ pending' = pending \cup {o}
          /\ progressCbs' = IF Kind(o) = "call" /\ use[o].callback
                            THEN progressCbs \cup {o} ELSE progressCbs
          /\ subCbs' = Registered(o)
          /\ up' = IF link = "up" THEN up \cup {o} ELSE up
          /\ Then(IF cf[o] = "cancelled" THEN <<"cancel">> ELSE <<>>, o)
       \/ /\ link # "up"
          /\ task' = [task EXCEPT ![o] = "raised"]
          /\ Then(<<"copy">>, o)
          /\ UNCHANGED <<pending, progressCbs, subCbs, up>>
    /\ UNCHANGED <<callerVars, cf, subIds, loop, readerVars, backchannel, link, down, serverSubs,
                   payloads>>

\* _connect() opens the connection; in a worker thread for kTLS.
RunConnect(o) ==
    /\ Turn("start", o) /\ Kind(o) = "connect"
    /\ task' = [task EXCEPT ![o] = "connecting"]
    /\ Then(<<>>, o)
    /\ UNCHANGED <<callerVars, cf, tableVars, loop, readerVars, backchannel, link, down,
                   serverVars>>

\* There is a channel: the reader is started and $/negotiate sent.
Connected(o) ==
    /\ LoopRuns /\ task[o] = "connecting"
    /\ link' = "up" /\ reader' = "reading"
    /\ task' = [task EXCEPT ![o] = "waiting"]
    /\ pending' = pending \cup {o}
    /\ up' = up \cup {o}
    /\ UNCHANGED <<callerVars, cf, progressCbs, subCbs, subIds, ready, loop, teardowns,
                   backchannel, down,
                   serverSubs, payloads>>

\* The peer refuses, a hand-shake fails, or kTLS does not engage.
ConnectFails(o) ==
    /\ LoopRuns /\ task[o] = "connecting"
    /\ task' = [task EXCEPT ![o] = "raised"]
    /\ Post("copy", o)
    /\ UNCHANGED <<callerVars, cf, tableVars, loop, readerVars, backchannel, link, down,
                   serverVars>>

\* task.cancel(): the future waited for is cancelled, or, when it is done, its
\* result is not seen.
RunCancel(o) ==
    /\ Turn("cancel", o)
    /\ IF task[o] \in {"waiting", "result", "error"}
       THEN task' = [task EXCEPT ![o] = "cancelled"] ELSE UNCHANGED task
    /\ Then(IF task[o] = "waiting" THEN <<"wake">> ELSE <<>>, o)
    /\ UNCHANGED <<callerVars, cf, tableVars, loop, readerVars, backchannel, link, down,
                   serverVars>>

\* The coroutine ends: _invoke()'s finally, then the rest of _do_subscribe().
RunWake(o) ==
    /\ Turn("wake", o)
    /\ pending' = pending \ {o}
    /\ progressCbs' = progressCbs \ {o}
    /\ LET kept == Kind(o) = "subscribe" /\ task[o] = "result" /\ use[o].callback IN
       /\ subIds' = IF kept THEN subIds \cup {o} ELSE subIds
       /\ subCbs' = IF kept THEN subCbs \cup {o} ELSE subCbs \ {o}
    /\ task' = [task EXCEPT ![o] = IF @ = "result" THEN "returned" ELSE "raised"]
    /\ Then(<<"copy">>, o)
    /\ UNCHANGED <<callerVars, cf, loop, readerVars, backchannel, link, down, serverVars>>

\* _chain_future: the concurrent future gets the coroutine's outcome, unless it
\* was cancelled.
RunCopy(o) ==
    /\ Turn("copy", o)
    /\ cf' = [cf EXCEPT ![o] = IF @ = "cancelled" THEN @
                               ELSE IF task[o] = "returned" THEN "result" ELSE "error"]
    /\ Then(<<>>, o)
    /\ UNCHANGED <<callerVars, task, tableVars, loop, readerVars, backchannel, link, down,
                   serverVars>>

\* _remove_sub()
\* Deliberately wrong: StillListed drops the callback and keeps the id.
StillListed(s) == subIds
Unlisted(s) == subIds \ {s}

RunRemove(o) ==
    /\ Turn("remove", o)
    /\ subIds' = Unlisted(use[o].with)
    /\ subCbs' = IF use[o].with \in subIds THEN subCbs \ {use[o].with} ELSE subCbs
    /\ Then(<<>>, o)
    /\ UNCHANGED <<callerVars, cf, task, pending, progressCbs, loop, readerVars, backchannel, link,
                   down, serverVars>>

\* _teardown(): close the channel, then wait for the reader, where there is one yet.
RunTeardown(o) ==
    /\ Turn("teardown", o)
    /\ link' = CASE link = "up" -> "closing" [] link = "lost" -> "closed" [] OTHER -> link
    /\ up' = {} /\ serverSubs' = {}
    /\ down' \in {down, <<>>}
    /\ \/ reader = "reading" /\ Then(<<>>, o) /\ teardowns' = teardowns \cup {o}
       \/ reader # "reading" /\ Then(<<"reaped">>, o) /\ UNCHANGED teardowns
    /\ UNCHANGED <<callerVars, cf, task, tableVars, loop, reader, backchannel, payloads>>

\* The transport is closed: what was unsent is out and TLS, or the WebSocket, has ended.
\* That is up to the peer, and may take longer than close() waits.
LinkCloses ==
    /\ LoopRuns /\ link = "closing"
    /\ link' = "closed"
    /\ UNCHANGED <<callerVars, cf, task, tableVars, loopVars, backchannel, down, serverVars>>

RunReaped(o) ==
    /\ Turn("reaped", o)
    /\ Then(<<"torn">>, o)
    /\ UNCHANGED <<callerVars, cf, task, tableVars, loop, readerVars, backchannel, link, down,
                   serverVars>>

\* close() waits no more, where it still does.
RunTorn(o) ==
    /\ Turn("torn", o)
    /\ Then(<<>>, o)
    /\ IF at[o] = "tearing" THEN GoTo(o, "torn") ELSE UNCHANGED at
    /\ UNCHANGED <<use, outcome, closed, cf, task, tableVars, loop, readerVars, backchannel,
                   link, down, serverVars>>

\* loop.stop()
RunStop(o) ==
    /\ Turn("stop", o)
    /\ loop' = "stopping"
    /\ Then(<<>>, o)
    /\ UNCHANGED <<callerVars, cf, task, tableVars, readerVars, backchannel, link, down,
                   serverVars>>

Halt ==
    /\ loop = "stopping"
    /\ loop' = "stopped"
    /\ UNCHANGED <<callerVars, cf, task, tableVars, ready, readerVars, backchannel, link, down,
                   serverVars>>

Run(o) ==
    \/ RunStart(o) \/ RunConnect(o) \/ RunCancel(o) \/ RunWake(o) \/ RunCopy(o) \/ RunRemove(o)
    \/ RunTeardown(o) \/ RunReaped(o) \/ RunTorn(o) \/ RunStop(o)

-----------------------------------------------------------------------------
(* _read_loop().                                                           *)

\* The callbacks a notification goes to: the call's own for progress, all that are
\* listed under the topic for an event.
Listeners(p) ==
    IF p.kind = "progress" THEN progressCbs \cap {p.of}
    ELSE {s \in subCbs : use[s].with = use[p.of].with}

\* An answer settles the future it is waited for with; one that comes too late has
\* an unknown id and no method, and is dropped.
ReadAnswer(p) ==
    /\ p.kind \in {"result", "error"}
    /\ \/ /\ p.of \in pending /\ task[p.of] = "waiting"
          /\ task' = [task EXCEPT ![p.of] = p.kind]
          /\ Post("wake", p.of)
       \/ /\ ~(p.of \in pending /\ task[p.of] = "waiting")
          /\ UNCHANGED <<task, ready>>
    /\ UNCHANGED backchannel

\* A notification nobody listens to goes to the fallback sink.
ReadNotification(p) ==
    /\ p.kind \in {"progress", "event"}
    /\ LET to == IF Listeners(p) = {} THEN <<None>> ELSE SetToSeq(Listeners(p)) IN
       backchannel' = backchannel \o [i \in DOMAIN to |-> [to |-> to[i], n |-> p.n]]
    /\ UNCHANGED <<task, ready>>

Read ==
    /\ LoopRuns /\ reader = "reading" /\ down # <<>>
    /\ ReadAnswer(Head(down)) \/ ReadNotification(Head(down))
    /\ down' = Tail(down)
    /\ UNCHANGED <<callerVars, cf, tableVars, loop, readerVars, link, serverVars>>

\* _fail_pending(): every call still waiting gets an error; `after' follows.
\* Deliberately wrong: ForgetPending empties the table only.
ForgetPending(after) == pending' = {} /\ ready' = ready \o after /\ UNCHANGED task
Each(run, S) == [i \in 1..Cardinality(S) |-> [run |-> run, of |-> SetToSeq(S)[i]]]
FailPending(after) ==
    LET left == {o \in pending : task[o] = "waiting"} IN
    /\ pending' = {}
    /\ task' = [o \in Ops |-> IF o \in left THEN "error" ELSE task[o]]
    /\ ready' = ready \o Each("wake", left) \o after

\* The end of the stream, or the transport closed by a teardown; every teardown that
\* waits for the reader goes on.
ReadEnd ==
    /\ LoopRuns /\ reader = "reading"
    /\ (link = "lost" /\ down = <<>>) \/ link = "closed"
    /\ reader' = "ended"
    /\ FailPending(Each("reaped", teardowns))
    /\ teardowns' = {}
    /\ down' = <<>>
    /\ UNCHANGED <<callerVars, cf, progressCbs, subCbs, subIds, loop, backchannel, link,
                   serverVars>>

\* The backchannel thread runs a callback.
Deliver ==
    /\ backchannel # <<>>
    /\ backchannel' = Tail(backchannel)
    /\ UNCHANGED <<callerVars, cf, task, tableVars, loopVars, link, down, serverVars>>

-----------------------------------------------------------------------------
(* The server and the connection.                                          *)

Send(kind, o, n) == down' = Append(down, [kind |-> kind, of |-> o, n |-> n])

\* A subscription counts from before its answer is sent: events may overtake that.
Accept(o) ==
    /\ o \in up /\ Kind(o) = "subscribe" /\ o \notin serverSubs
    /\ serverSubs' = serverSubs \cup {o}
    /\ UNCHANGED <<callerVars, cf, task, tableVars, loopVars, backchannel, link, up, down,
                   payloads>>

Answer(o) ==
    /\ o \in up
    /\ up' = up \ {o}
    /\ \/ Send("error", o, 0) /\ o \notin serverSubs /\ UNCHANGED serverSubs
       \/ /\ Kind(o) = "subscribe" => o \in serverSubs
          /\ Send("result", o, 0)
          /\ serverSubs' = CASE Kind(o) = "unsubscribe" -> serverSubs \ {use[o].with}
                             [] Kind(o) = "close" -> {}
                             [] OTHER -> serverSubs
    /\ UNCHANGED <<callerVars, cf, task, tableVars, loopVars, backchannel, link, payloads>>

EmitProgress(o) ==
    /\ payloads < MaxPayloads
    /\ o \in up /\ Kind(o) = "call"
    /\ Send("progress", o, 0)
    /\ payloads' = payloads + 1
    /\ UNCHANGED <<callerVars, cf, task, tableVars, loopVars, backchannel, link, up, serverSubs>>

\* One message per subscription to the topic, all with the same payload.
Publish(t) ==
    /\ payloads < MaxPayloads
    /\ payloads' = payloads + 1
    /\ LET to == SetToSeq({s \in serverSubs : use[s].with = t}) IN
       /\ to # <<>>
       /\ down' = down \o [i \in DOMAIN to |-> [kind |-> "event", of |-> to[i], n |-> payloads']]
    /\ UNCHANGED <<callerVars, cf, task, tableVars, loopVars, backchannel, link, up, serverSubs>>

\* The connection is lost, with or without what was on its way to the client.
Drop ==
    /\ link = "up"
    /\ link' = "lost"
    /\ up' = {} /\ serverSubs' = {}
    /\ down' \in {down, <<>>}
    /\ UNCHANGED <<callerVars, cf, task, tableVars, loopVars, backchannel, payloads>>

-----------------------------------------------------------------------------
Caller(o) ==
    \/ Shut(o) \/ Connect(o) \/ Submit(o) \/ Return(o)
    \/ Expire(o) \/ Settle(o) \/ GiveUp(o) \/ RaiseTimeout(o)
    \/ Abandon(o) \/ StopLoop(o) \/ CloseLoop(o)

ClientNext ==
    \/ \E o \in Ops : \/ \E u \in Wanted(o) : Begin(o, u)
                     \/ Caller(o) \/ Run(o) \/ Connected(o) \/ ConnectFails(o)
                     \/ Accept(o) \/ Answer(o) \/ EmitProgress(o)
    \/ LinkCloses \/ Halt \/ Read \/ ReadEnd \/ Deliver
    \/ \E t \in Topics : Publish(t)
    \/ Drop

ClientSpec == ClientInit /\ [][ClientNext]_vars

\* The application's threads and the loop's are scheduled, time-outs pass, and the
\* server answers as long as the connection holds.
ClientFairness ==
    /\ \A o \in Ops : /\ WF_vars(Caller(o)) /\ WF_vars(Run(o))
                      /\ WF_vars(Answer(o)) /\ WF_vars(Accept(o))
    /\ WF_vars(Halt) /\ WF_vars(Read) /\ WF_vars(ReadEnd) /\ WF_vars(Deliver)

FairClientSpec == ClientSpec /\ ClientFairness

-----------------------------------------------------------------------------
(* Properties.                                                             *)

Unsubscribed(s) ==
    \E o \in Ops : Kind(o) = "unsubscribe" /\ use[o].with = s /\ at[o] = "ended"

\* _do_subscribe() lists the callback before it sends, so that an event cannot come
\* before its callback: while the client reads, every event on its way to it has its
\* callback listed, even one that overtakes the answer, unless the application has
\* unsubscribed or given up on the subscribe.
EventsHaveCallback ==
    reader = "reading" =>
        \A i \in DOMAIN down :
            LET s == down[i].of IN
            down[i].kind = "event" /\ use[s].callback /\ ~Unsubscribed(s)
                /\ task[s] \notin {"cancelled", "raised"}
            => s \in subCbs

\* No wake-up is lost: whatever order the threads come in, a caller that waits has a callback
\* on the loop, or waits for its connection, or for an answer that the server owes it, that
\* is on its way or that the end of the reader will stand for; only what is sent to
\* a connection that nobody reads any more waits for its time-out.
Coming(runs, o) == \E i \in DOMAIN ready : ready[i].run \in runs /\ ready[i].of = o
Answering(o) == \E i \in DOMAIN down : down[i].kind \in {"result", "error"} /\ down[i].of = o

NobodyForgotten ==
    \A o \in Ops : at[o] = "waiting" /\ cf[o] = "pending" =>
        \/ Coming({"start", "wake", "copy"}, o) \/ task[o] = "connecting"
        \/ /\ task[o] = "waiting" /\ o \in pending
           /\ reader # "reading" \/ link # "up" \/ o \in up \/ Answering(o)

\* What a call that is over has left in the client's tables, when it timed out or was
\* called off by a failing reader, has a callback on the loop that takes it away;
\* connect() and close() do not cancel what they give up.
LeftoversOnTheirWay ==
    LoopRuns =>
        \A o \in pending \cup progressCbs :
            at[o] = "ended" => Coming({"cancel", "wake"}, o) \/ Kind(o) \in {"connect", "close"}

\* _settle() cancels what timed out so that its per-request state is released: once
\* a call is over for its caller, its future and progress callback go for good, also
\* when the time-out falls before the coroutine has started.
EntriesReleased ==
    \A o \in Ops :
        at[o] = "ended" ~> [](LoopRuns => o \notin pending \cup progressCbs)

\* close() has stopped the loop before its teardown was over.
CutShort ==
    /\ ~LoopRuns
    /\ teardowns # {} \/ \E o \in Ops : Coming({"teardown", "reaped", "torn"}, o)

\* A call without a time-out does not hang: a request the server was sent while the reader
\* runs ends with an answer, a time-out, or the error _fail_pending() gives it, also when the
\* connection is lost or other threads close the client meanwhile; unless a close() whose
\* teardown took more than its five seconds has stopped the loop without it.
AnsweredOrFailed ==
    \A o \in Ops : (o \in pending /\ reader = "reading") ~> at[o] = "ended" \/ CutShort

=============================================================================
