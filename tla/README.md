# A verification of truenas_jsonrpc in TLA+

`truenas_jsonrpc` is a JSON-RPC 2.0 stack over stream sockets: a protocol object that
dispatches requests, a server that feeds it from connections, a client, and mixins for
authentication and auditing. These modules model what of it is concurrent, check the
models with TLC on small instances and prove the main safety properties of the dispatch
core, of the server around it, of authentication, of a transfer's wire, of the server's
life and of the client with TLAPS for every instance. `PROJECT.json` lists the parts, the runs,
the source lines each definition stands for, the hazards and the findings.

## 1. Inventory

Paths are under `python/`.

| component | state it keeps | operations |
|---|---|---|
| dispatch core, `truenas_pyjsonrpc/protocol.py` | `_inflight` (id to RequestState), `_subscriptions`, `_outbound` (a deque), all under one Condition; `SessionState.lifecycle` under no lock | `dispatch` (methods, subscribe, `$/cancelRequest`, `$/sessionSetup`, `$/sessionSetupContinue`, `$/sessionClose`, serverInfo), `_run_transfer`, `update_progress`, `send_notification`, `poll_notification`, `close_session`, `unsubscribe_all` |
| server, `truenas_pyjsonrpc_server/` `server.py`, `connection.py` | session registry, executor, listeners and connection tasks, `_started`, `_stop`, `_serving`, per connection: state, dispatch futures, outbound queue, transfer gate | start, serve_forever, accept, negotiate, read loop, dispatch on the executor, `_on_dispatch_done`, notification drain, audit drain, writer, `_run_transfer`, `_close`, `aclose` |
| raw-fd transfer, `transfer.py`, `connection.py`, `client.py` | `_await_frame`, `_writer_gate`, the transports' pauses, `_in_transfer`, `_transfer_ready` | negotiate, `$/transferReady` / `$/transferGo`, raw stream, completion |
| client, `truenas_pyjsonrpc_client/client.py` | `_pending`, `_progress_callbacks`, `_sub_callbacks`, `_sub_ids`, `_backchannel_q`, `_closed`, an event loop on its own thread | connect, call, call with progress, subscribe, unsubscribe, transfer, close; read loop, backchannel thread |
| authentication mixin, `mixins/auth/` | a phase object in the session's `server_state_internal`, and behind it an open PAM conversation | setup and continue of PAM, SCRAM and GSSAPI conversations |
| audit mixin, `mixins/audit/` | none (a syslog socket) | build a record, write it |
| transports, `framing.py`, `channel.py`, `ws_channel.py`, `_ktls.py`, `peercred.py` | the socket, a kTLS hand-shake on a worker | hand-shake, adopt the descriptor, read and write frames, close |
| declarations, `method.py`, `redaction.py`, `decorators.py`, `query.py` | immutable after registration; a cache of redaction plans | validate, compile a redaction plan, redact |
| generators, `codegen.py`, `openrpc_gen.py` | none | offline text generation |

How they interact. The event loop of the server reads frames and submits each to a
bounded thread pool, which calls `dispatch()`: many dispatches of one protocol object run
at the same time, also for one session. The reply travels back to the loop and into the
connection's queue. Handlers (and threads they leave behind) report progress, and anyone
may publish; both append to the protocol's outbound deque, from which one notification
thread pops entries and posts them to the loop. When a socket drops the loop calls
`close_session()` while dispatches of that session may still run. A handler that waits
for a cancellation blocks its worker on the event that a `$/cancelRequest` sets.

What is hard, and what makes each part correct:

- *dispatch core*: the lifecycle is tested and stored in separate unlocked steps; the
  target of a cancel is looked up, authorized and acted on in three steps; progress,
  completion and drain race for one deque; ids are the clients' choice and may repeat.
  Correct when nobody runs a guarded method without authentication, a cancel touches only
  what its sender may cancel, a finished request leaves nothing behind in the registry or
  the queue and takes nothing of others with it, and every decision is audited once.
- *server*: a reply needs two loop callbacks, a notification one; `_close()` cancels
  futures of dispatches in every stage; the pool is bounded. Correct when every request of
  an open connection is answered once, notifications arrive in order, at most one progress
  notification trails its reply, and closed sessions start no work.
- *transfer*: two event loops and two blocking callbacks take turns on one socket; replies
  and notifications are under way meanwhile, and the hand-shake may time out. Correct when
  no byte of the stream is read as a frame nor the reverse, and the connection is given
  back to whoever waits on it.
- *server's life*: `aclose()` waits in turn for asyncio's servers, the WebSocket library and
  tasks of its own; at each wait another `aclose()` or a `start()` may come in, and TLS
  hand-shakes sit on worker threads with descriptors nobody else knows. Correct when it
  returns, leaves no listener and no task, every descriptor is closed by somebody, and what
  was queued for a peer is sent before its connection is closed.
- *client*: a blocking call is two futures and four loop callbacks deep; time-outs race
  late answers, events race the answer to their subscribe, `close()` stops the loop that
  calls of other threads wait on. Correct when every caller ends, nothing of an ended call
  stays in a table, and no event passes its callback.
- *authentication*: everything is one field of the session, rewritten by each step. Correct
  when no mix of steps of two log-ins adds up to one, a rejected one leads nowhere, and the
  PAM conversation behind a proof is ended.
- *audit*: with a queued audit the record is built later, from live session objects, and
  redacted by plans compiled from recursive types. Correct when it names the user the call
  ran as, shows no secret, and hides nothing else.

## 2. Plan

1. `Dispatch`, with `ProgressChannel` as the abstract specification of the progress
   channel and `DispatchProofs`. **Done.**
2. `Server`, which composes `Dispatch` with connections, executor, drain and loop, with
   `ServerProofs` (and `QueueLemmas` about sequences). **Done.**
3. `Transfer`, with `Handover` as its abstract specification and `TransferProofs`:
   `Connection._run_transfer` with the writer's gate against `BaseClient.transfer`. **Done** for one transfer of callbacks that read their stream to
   its end. Left: callbacks that stop early, a second transfer on the connection, a time-out
   on the final result.
4. `Client` with `ClientProofs`: connecting, pending-reply table, time-outs, reader and
   callback threads. **Done** for an application that connects once and first.
5. `AuthStack`, with `Login` as its abstract specification and `AuthStackProofs`: the setup handlers that `Dispatch` leaves open, with
   whom an audit record names and the PAM conversations of `TrueNASAuth`. **Done.**
6. `Lifecycle` with `LifecycleProofs`: `start()`, `aclose()`, hand-shakes, descriptors and
   the closing of a connection. **Done.** Left: how the drain threads end.
7. `Redaction` with `RedactionProofs`: what an audit handler is shown. **Done.**

Abstract specifications: `ProgressChannel` (implemented by `Dispatch`, and through it by
`Server`), `Handover` (by `Transfer`), `Login` (by `AuthStack`). All three refinements are
checked and proved.

## 3. The modules

### Dispatch

One protocol object and the threads that call it. `msg[c]` is the message a thread
dispatches, `pc[c]` where that thread stands, `reply[c]` what `dispatch()` returned. A step
is what one thread does between two points at which another thread can be seen: a critical
section of `_cond`, or one read or write of a lifecycle. The order of the tests inside
`_dispatch_one`, every early return and every exception path is kept; whether a handler,
an authorization handler or a validation succeeds is a choice.

| module | code |
|---|---|
| `Begin` | parse, CLOSED short-circuit |
| `Gate`, `Authorize`, `Subscribe`, `NoHandler`, `Register`, `Complete`, `Finish` | `_dispatch_one` for a registered method and `_authorize_and_dispatch`; `Complete` is `_complete()` in the `finally` |
| `Negotiate`, `RunTransfer` | a transfer's directive and the protocol's `_run_transfer`; one that the server refuses stays at its directive |
| `CancelLookup`, `CancelAuthorize`, `CancelAct` | `_handle_cancel`, `_authorize_and_cancel` |
| `SetupGate`, `SetupReturn` | `_handle_session_setup` and `_dispatch_session_setup`: the gate on the lifecycle, then, after the handler, the store |
| `CloseGate`, `CloseMark`, `CloseSweep` | `_handle_session_close` |
| `ServerInfo` | `_handle_server_info` |
| `Progress`, `Publish`, `Poll` | `_update_progress`, `send_notification`, `poll_notification` |
| `SocketDrop`, `SocketSweep` | `close_session` |

Messages are reduced to what dispatch branches on: kind, session, id (None for a
notification), target, and the registration flags of the method. Parameters, results and
error texts are not there. The outbound deque is a set of entries with arrival stamps; a
published notification is one stamp for all its subscribers, because that append is one
critical section.

`Admins` stands for the authorization handler of the deployment: the handler the
documentation asks for lets a session cancel its own requests and an administrator any.

### ProgressChannel

What progress promises: requests wait, run and end; a running request queues progress, the
reader takes the oldest entry, and a request that ends takes its own unread entries with
it and no other's. There is no registry, no id and no counter in it. `Dispatch`
implements it (`ImplementsChannel`) as long as clients do not repeat ids; the refinement
mapping sends `pc` to a phase and the deque to the queue.

### Server

Extends `Dispatch` with connections. `Receive` is the read loop handing a frame to the
executor, `Start` and `Work` a worker taking the oldest dispatch and moving it on,
`CopyResult` and `OnDispatchDone` the two loop callbacks a result takes, `DrainPoll` and
`DrainRoute` the notification thread, `EnqueueOutbound` the callback it posts, `Write` the
writer. `Close`, `Unregister`, `CloseSession` and `StopWriter` are `_close()` in the order
of the code: futures cancelled, connection taken out of the registry, session closed, writer
stopped. The loop runs one callback at a time, so nothing else of the loop runs while a
`_close()` is under way (`LoopFree`), but workers and the notification thread do. A
cancelled asyncio future does not take its dispatch back at once: a callback does, later,
and a worker may be quicker (`CancelDispatch`).

### Transfer

One connection, one transfer in either direction, and ordinary calls. Each direction of the
connection is two sequences: what lies in the socket, and what the receiver's loop has
read into its stream buffer. A paused loop reads nothing; a callback reads the socket and
cannot reach the buffer, so a byte of the stream in a buffer is lost and a frame left in the
socket is taken for data.

| module | code |
|---|---|
| `CheckCall`, `SendCall` | `call()`: the test of `_in_transfer`, then the post |
| `BeginTransfer`, `StartCallback` | `transfer()` |
| `SendRequest`, `Prepare` | `_transfer_prep()` up to its wait and after it |
| `PrepareTimesOut` | `_settle()` gives up; the cleanup of `_transfer_prep()` if it still runs |
| `ClientFinish` | `_transfer_finish()` |
| `ClientRead`, `ServerRead` | `_on_message()`, `serve()` |
| `Negotiate`, `StartTransfer`, `GoReceived`, `CompleteTransfer` | `_begin_transfer()` and `_run_transfer()` between its waits |
| `WriterTake`, `WriterWake` | `_drain_outbound()`, before and after the gate |
| `ServerClose` | `_close()` |
| `ClientStream`, `ServerStream` | the two callbacks, as far as `FileTransfer.sendfile` and `recvfile` move their bytes |

`stage` tells `ready` (the future is set, the coroutine has not run yet) from `prepared` (it
has returned, the caller does not know yet) from `raw` (the callback runs): in each of these
gaps the loops may read on, and the caller may give up.

### Handover

What a transfer promises of the direction its stream takes: framing owns both ends of a wire,
lends them to two callbacks, the consumer's end first, and gets them back when every chunk has
been read. There is no hand-shake, no gate, no pause and no buffer in it. `Transfer` implements
it (`ImplementsHandover`). The mapping tells who holds an end from the stages of client and server;
a client that consumes has let go when its hand-shake coroutine has returned (`prepared`), one
that produces takes over when its callback runs. `Lose` is the end of the connection, and a
transfer that one side has given up while the other goes on (`Forsaken`): nothing is promised
of either.

### Client

Each of `Ops` is one blocking call of an application thread. `at[o]` is where that thread
stands, `cf[o]` the concurrent future it waits on, `task[o]` the coroutine with the asyncio
future it waits on, `ready` the event loop's queue.

| module | code |
|---|---|
| `Begin`, `Shut`, `Connect`, `Submit` | the test of `_closed` and, in `close()`, its set; then the loop thread's start or `run_coroutine_threadsafe` |
| `Return`, `Expire`, `Settle`, `GiveUp`, `RaiseTimeout` | `_settle()`, statement by statement |
| `RunConnect`, `Connected`, `ConnectFails` | `_connect()` up to a channel, with its reader and `$/negotiate`, or its failure |
| `RunStart`, `RunWake` | `_invoke()` and `_do_subscribe()` up to their wait and after it |
| `RunCancel`, `RunCopy` | what asyncio does for a cancelled or finished coroutine |
| `RunRemove` | `_remove_sub()` |
| `Read`, `ReadEnd` | `_read_loop()`: `_on_message()` and, at its end, `_fail_pending()` |
| `RunTeardown`, `LinkCloses`, `RunReaped`, `RunTorn`, `Abandon`, `StopLoop`, `RunStop`, `Halt`, `CloseLoop` | `close()` and `_teardown()` |
| `Deliver` | `_run_backchannel()` |
| `Accept`, `Answer`, `EmitProgress`, `Publish`, `Drop` | the server and the connection (external) |

The queue is kept because the number of callbacks between an answer and its caller
matters: `_teardown()` takes three turns of the loop, enough for the calls it fails to
reach their callers before `stop()`, when `close()` waits for it. It does so for five seconds:
the transport may take longer to close (`LinkCloses` owes nothing: buffers, TLS and WebSocket
need the peer), and then `close()` stops the loop all the same (`Abandon`), before
`_fail_pending()` has run. What is assumed is that a loop that runs gets through the callbacks it
has ready within five seconds. A cancellation takes two forms, as in asyncio: it
cancels the future waited for, or, when that is done, hides its result. The server here
is what `Server` shows of it, reduced to one reader: answers in any order, events of a
subscription also ahead of its answer. Any number of threads may call `close()`: `_closed` is
tested in one step and set in another, without a lock, so that two may both pass the test, both
tear down (`teardowns`), and one of them meet the loop the other has closed.

A client is met connected or before `connect()`. The application calls `connect()` once, before
anything else (the guard of `Begin`); its wait may end while the coroutine goes on, which nobody
cancels, and other threads may call or close from then on.

`AnsweredOrFailed` and `EntriesReleased` say what must happen in the end. `NobodyForgotten` and
`LeftoversOnTheirWay` say why it can: at every moment a caller that waits, and an entry that its
caller has left, has something under way that will get to it. On a loop that was stopped nothing
under way gets anywhere: `AnsweredOrFailed` names the case in which that is met (`CutShort`,
the teardown outlasted `close()`), and a call sent on a connection that is not up waits for its
time-out.

### AuthStack

One session and the handlers `AuthStack` installs. What they remember is one field,
`server_state_internal`, here `holder`: the connection's `Peer`, a pending exchange, or the
identity. `Gate` is the test of the lifecycle in `_handle_session_setup` and
`_handle_session_continue` (and that of a method call), `ReadHolder` the read of the field,
`OnSetup` and `OnContinue` the dispatch over mechanisms with the verifier's verdict and the
write, `Store` the lifecycle written after the handler, `Raise` a handler that raised.
`Audit` is the audit thread: it takes the oldest record and reads the session's field only
then. Verifiers are choices, limited to what they are for: a proof is accepted only for the
user the pending exchange is about. `proven` is history: the factors passed in this exchange.
`Named` are the users whose identity is a dict with their name in it, as that of `TrueNASAuth` always
is; of any other the record says UNKNOWN.
`conversations` are the PAM conversations `TrueNASAuth.scram_begin()` left open for the next
message; `scram_finish()` (`ScramFinish`) ends the one it is given on every path.

### Login

What the two fields of a session, the verifiers and the steps of dispatch amount to: somebody
begins a log-in, which is about one user to its end; factors add up for that log-in alone; once
they are enough the user is in, and calls run as him. `AuthStack` implements it
(`ImplementsLogin`) for clients that wait for answers. What a handler has decided counts from its
write of the session on, before `dispatch()` has stored the lifecycle, and a rejected exchange,
whose pending state stays in the session, counts for nothing.

### Lifecycle

One server and the tasks of the program that use it. `at[t]` is where a task stands in
`start()`, `serve_forever()` or `aclose()`; `listening` and `kept` tell an open listener from
one the server knows of, because asyncio's servers listen before the await hands them over.
Per connection: its task, the hand-shake on a worker (`job`), the descriptor, the writer and
how many frames its queue holds.

| module | code |
|---|---|
| `Enter`, `Bind` (`Listen`, `Keep`, `Started`), `BindFails` | `start()`, transport by transport |
| `Halt`, `HaltEmpty`, `StopWs`, `StopKtls`, `Return` | `aclose()` between its awaits |
| `Accept`, `AcceptKtls` | `_on_stream_connect`, `_on_ws_connect`, `_accept_ktls` |
| `Handshake`, `JobStarts`, `JobCancelled`, `JobEnds`, `Adopt`, `Adopted` | `_handle_ktls` and `_ktls.handshake` on its worker |
| `Send`, `EndServe`, `WriterSends`, `WriterEnds`, `Finish` | `serve()`, `_drain_outbound()`, `_close()` |
| `Detach` | the transport: lost, or closed after it has written what it had |

A descriptor is open, closing, closed, `dropped` (a socket object that nobody refers to any
more, which the interpreter closes) or `lost` (a bare number in a result nobody reads).
`Python` is the version, because `asyncio.Server.close()` and `wait_closed()` differ between
3.11, 3.12 and 3.13; the run takes 3.13, the proofs any.

### Redaction

`PlanFor` is one call of `_compile()`, given what its recursive calls return, and `Compile` the
function it solves, over a small algebra of types: plain, annotated, struct, list, dict, tuple,
union. `PlanOf` is `compile_plan()`. `Apply` is one call of `_apply()`: the calls it makes of
itself, each for a node of the value and a plan. `Audit` queues a value, `PollAudit` starts to
redact it, and each `Recursion` takes every call one level down until there is none left.

A value is a document, a function from paths of keys to nodes: atoms, lists, dicts and None, as
`msgspec.to_builtins()` gives them. Each node carries the types it was given on the way from the
declared one to the one with no choice left (its `chain`), which the code does not see and the
properties are about: a node is a secret when one of them is a SECRET annotation. `Conforms`
says which documents a class has, `RedactionAssumption` that types are well formed: their
annotations and members nest to a finite depth. Nothing is assumed of unions. A class may be
array-like (`ArrayLike`), whose values are lists.

Two kinds of types the code does not see through (`Visible`), and `SecretsMasked` excepts what lies
behind them: a union of a tagged struct with another struct that stands under an annotation or
in a union of its own, and an array-like struct (see the findings).

## 4. What the runs check

| run | question | instance |
|---|---|---|
| `cancel` | Whom can a cancel reach? | 3 calls of 2 sessions, all with the same id, one session an admin; any target, ids and subscriptions |
| `session` | Do lifecycle, gate and audit hold in every order? | 3 messages of every kind with and without id on one session, a socket drop, 1 progress message from a handler or a thread that outlives it |
| `server` | What does a client see, is a request ever lost, and does progress go exactly where it should? | 2 requests or subscribers on one connection and one worker, 3 stamps, threads that report progress after their handler, the connection closing at any point |
| `server_live` | Does everything arrive? | 2 calls with ids that may repeat, 2 workers, handlers that wait for a cancel, under fairness |
| `client` | Does an event find its callback, is every caller attended to and ended, and does it leave nothing? | a thread that connects, subscribes or calls, with a time-out or without; a second one that unsubscribes, calls without a time-out or closes; or two that close; a teardown that may take too long, 1 payload, loss of the connection at any point, under fairness |
| `auth` | Can steps of different log-ins add up to one, whom does the record name, and is a session a `Login`? | 4 messages of one client that waits for answers: all mechanisms, 2 users of whom one needs a second factor (both with SCRAM over PAM and one-time passwords, one each with a ticket and a certificate), Unix or client-certificate transport |
| `transfer` | Is the wire handed over as in `Handover`, whole and in order, and given back? | 1 transfer of 2 chunks in either direction, 2 calls, 1 notification, a time-out or a lost connection at any point, under fairness |
| `lifecycle` | Does a server shut down whole? | 2 tasks that start and close it, a Unix, a kTLS and a WebSocket listener with a connection each, 2 of them accepted, 1 frame per queue, under fairness |
| `redaction` | Is exactly the secret hidden? | 2 classes and an array-like third, 15 kinds of type for two fields and 3 for another, classes that refer to themselves and each other, values 3 structs deep |
| `subscription_leak` | Do subscriptions of a dropped connection go? | violated, see findings |
| `transfer_wedged` | Is a set-up that failed undone? | violated |
| `peer_lost` | Does a setup find the Peer? | violated |

What each property says and which code it is about stands above its definition.

*Bounds.* `Calls` bounds the messages of a behaviour: each is dispatched once. Three are
the fewest at which an id is reused between a cancel's lookup and its action (the
target, the request that takes over the id, the cancel), or a setup, a close and a use of the
session meet. In `server_live` there are two calls, the target and its cancel, since liveness with three is too
large: that a third request takes the id over meanwhile is not met there, and is what the
theorem `CancelsReach` covers. `MaxOutbound` bounds the stamps given: with three, one entry is in the drain's
hand and two are in the queue when a request completes, which separates "at most one
trails" from "at most two". One worker suffices where the question is the order of one
request's messages; two are used where workers wait for each other. The proofs have none
of these bounds: `NoRequestLost` in particular is proved for any number of connections, so that the
cancellations of one connection's close are among them, where the run has one. Calls that have ended stay ended, so every instance stops in the end:
deadlock checking is off for that reason.

In `Client` two calls are what its properties are about: one that waits, subscribes or
connects, and one that disturbs it. Calls and subscribes without a time-out meet a `close()`
whose own wait may end, those with one a `close()` whose `$/sessionClose` is answered or failed: the two
time-outs are not combined. One payload suffices since payloads do not interact.

In `Lifecycle` two tasks are the fewest for an `aclose()` that overlaps a `start()` or another
`aclose()`; connections meet only in the lists `aclose()` takes, so two at a time, one of each
family to choose from, let one be accepted while it waits for the other. One frame tells a
queue that was flushed from one that was not.

In `Redaction` two classes are the fewest for a mutual recursion; three levels reach through
a back reference into the class it refers to and once more into the other. Fifteen types have
each node of the type algebra under and over a struct, the two that the code does not see through
among them.

In `AuthStack` four messages are the longest log-in (setup, proof, one-time password) and
the call it is for, or two log-ins that are mixed. `Pipelined` is FALSE: a client that sends
its next log-in message before the last is answered can have its own identity overwritten
by a pending exchange, which the model shows with TRUE (see below).

In `Transfer` two chunks are enough for a stream byte that arrives behind another or before
the pause; two calls for one whose reply is in the writer's hand and one whose reply is
still queued when the gate closes. `Serial` is TRUE: no call is between its test of
`_in_transfer` and its post when a transfer begins.

*Symmetry* is used in safety runs over calls and ids only, never in runs of liveness.

*Fairness* (`ServerFairness`): the loop runs its callbacks, workers and the notification
thread are scheduled, `_close()` runs to its end, and handlers return; one that waits to be
cancelled returns only once its event is set. All of it is weak: no step is disabled by
another again and again. Clients owe nothing: nobody has to send, publish, emit
progress or disconnect. Weak fairness of `Write` says that a client reads what is sent to
it; a client that does not read blocks its own writer only. `ClientFairness` says the same
of the client's threads, that time-outs pass, and that the server answers while the
connection holds, which is `FramesAnswered`. `TransferFairness` says that loops, workers and
both callbacks go on; nobody has to begin anything, time out or hang up. It is weak
fairness of each action, since each stays enabled until it is taken or its transfer is over.
`Fairness` of `Lifecycle`: the loop runs what is ready, and peers read or leave, so that a
writer goes on and a closing transport gets rid of its bytes; `aclose()` waits for ever on a
kTLS peer that does neither. Hand-shakes owe nothing: one may never end, and `aclose()` returns
all the same. Nobody has to connect, call `start()` or ask for the end.

## 5. What is proved

*Dispatch core.* `DispatchProofs` has one proof per property, for any number of calls,
sessions, ids, topics, any set of messages and any choice of the flags. The assumption is
`DispatchAssumption`: the traffic is well typed and the name spaces are disjoint (None is
no id, and no client chooses the uuid4 that the server gives a subscription).

The invariants are proved through one inductive conjunction, `IInv`. `InflightOwnerRunning`
is inductive with the types alone. The others are not:

- `QueuedProgressIsLive`, that what is queued belongs to a running handler, needs to know that the
  counter which lets `_complete()` skip its scan is positive whenever something is queued, and that
  an entry carries its origin's id (`QueuedProgressCounted`).
- `HandlerNeedsAuthentication` needs that a lifecycle is ESTABLISHED only after some
  setup handler said so (`EstablishedBySetup`), although it may be CLOSED by the time the
  method runs.
- `CancelStaysInSession` needs that what a cancel decided in its authorization step is
  still true of the object in its hand when it acts (`CancelAuthorized`).
- `RunningIsRegistered`, that a running handler is found under its id, needs distinct ids
  (`IdsDistinct`).

Four theorems state facts that no run lists; what they mean for the queue is part of
`ImplementsChannel`, which runs check:
`RunningFound`, `NoStaleProgress`, `LateProgressNeverQueued` (progress after completion is dropped)
and `PurgeConfined` (a completion removes its own progress only).

`RunningFound`, `PurgeConfined` and `ChannelImplemented` assume that clients do not repeat
ids; `NoStaleProgress` and `LateProgressNeverQueued` that they do not, or that no thread
reports progress after its handler has ended. The other theorems need neither.

`CancelsReach` is the safety core of `AcceptedCancelEndsTarget`: whatever a cancel that was answered with
a result looked up has ended, or has a handler that may return, although looking up,
authorizing and signalling are three critical sections and somebody else may hold the id by then. Its invariant,
`ReachInv`, says that what a cancel finds had started and is never started anew
(`TargetsStarted`), and that by the time of the answer it is the found object that was signalled, not
whoever is registered under its id (`TargetsSignalled`). What fairness adds is that a handler that
may return does. The theorem needs no assumption on ids, and holds of `Server` too.

*Server.* `ServerProofs` shows first that `Server` drives the protocol object in no way that
`Dispatch` does not allow (`ServerImplementsDispatch`): a worker dispatches the frame that was
read for it and nothing else (`Framed`), so each step of `Server` is a step of `Dispatch` or a
stutter, and all its theorems hold of a server with any number of connections and workers;
`ServerImplementsChannel` spells that out for the refinement. `ServerTypeCorrect` includes that
no more dispatches are at work than there are workers, which needs that calls at work, and
calls read, are finitely many. `LateFramesRefused` rests on `GoneClosed`: without session setup a
connection that is gone has a closed session.

The second part of `ServerProofs` is about the line from the protocol's queue to a client: the entry in the
notification thread's hand, the callbacks on the loop, the connection's queue, the wire.
`NoticesInOrder` needs no assumption about clients or handlers. Its invariant, `LineInv`, says
that each part is in order and comes before the part behind it (`LineOrdered`, `DrainOrdered`),
and where entries and replies come from (`Sources`): a call that is done has one callback
under way or one reply on one connection. `OneTrails` adds `OneLate`: of the progress of one
call at most one entry is `Late`, that is, placed so that it will be read after the reply. An
entry becomes late in one way, by the end of its call while it is in the thread's hand: what is
on the loop by then stands before the call's own callback, and the purge empties the queue
(`QueuedProgressCounted`, hence the condition on repeated ids and threads left behind).

`RequestsKept` proves `NoRequestLost`, the safety core of `FramesAnswered`: what is left to fairness
is that executor, threads and loop go on. `Placed` follows a call over the line: not yet started it
is in the executor's queue; ended it has its callback on the loop or its reply on the connection,
or is a notification; and a cancelled future, or a callback that would take a dispatch back, is
found only where the connection is no longer open. `Silence` supplies what `_on_dispatch_done`
relies on when it sends nothing, that no outcome of a request is silence, and `Sources` that the
one callback of a call that is done runs once.

`NoticesKept` is the core of `NoticesDelivered`, as an action property: no step of anybody loses an
entry that the notification thread has taken, while the connection it is for is open. It rests
on where entries come from (`Sources`): their connection is that of a call that was read, so it
cannot change under way. Again what is left is that thread, loop and writer go on.

*Server's life.* `LifecycleProofs` proves each safety property of `Lifecycle` for any number of
connections and tasks, any choice of transports, any of the three Python versions and any
bound on frames, from `LifecycleAssumption` (kTLS takes the place of the TCP transport). Two
inductive invariants carry them. `HandlesOwned` and `Flushed` rest on `HandleInv`, about one
connection alone: which descriptors, jobs and writers go with each stage of its task.
`CloseCloses` (no listener, and no connection task that `aclose()` gathers) rests on `CloseInv`: whatever is still open after a stop has a
task that will get to it, one that is in `start()`, serves, or runs an `aclose()` not yet past
that transport; and a kTLS connection's task that is not over belongs to a listener still
kept, or is in the list some `aclose()` waits for. When no task of the program is left in any of
these stages, nothing can be open. It speaks of a server that nobody uses any more, and
excepts the listener a failed `start()` left in no list.

`ShutdownAttended` is the safety core of `ShutdownCompletes`: while an `aclose()` waits, for listeners,
for WebSocket connections or for the kTLS tasks it gathers, somebody can go on (`TaskGoesOn`, `ConnGoesOn`, whose
lines are the guards of fair actions). So calls to `start()` and `aclose()` and the connections never wait for
one another in a circle. `StopInv` adds to the two invariants that an `aclose()` that waits has woken `serve_forever()`
(`Woken`), that a transport which is closed before it is waited for has open connections only while its
listener is open (`OpenHeard`), and that each task an `aclose()` gathers was cancelled
(`GatheredEnd`). There are two exceptions: a `start()` that failed may leave something behind that nobody
closes, as in the property, and on Python 3.12 a client of asyncio's servers may stay for ever
(`ClientStays`; see the findings).

*Authentication.* `AuthStackProofs` proves every property of the `auth` run for any users,
any number of messages and any verdicts. `AuthTypeCorrect` needs nothing but `AuthAssumption`;
the others assume `~Pipelined`, a client that waits for answers. They rest on `AuthInv`:
one message is at work at a time (`OneAtWork`), so what a handler has read of the session is
what the session holds when it writes; the pending exchange it holds was begun by a setup
about its user (`HolderSound`); and an established session has an identity that no handler
rewrites (`EstablishedHeld`), which is why the audit thread may read it later (`Recorded`).
`RejectedExchangeDead` needs that the exchange that goes on is never one that was rejected,
and that a message yet to act is nobody's exchange (`RejectedOver`). `LoginImplemented` is the
refinement, one step of `Login` or a stutter for each action. The mapped phase moves at the write
of the session, so the proof needs that no other message is at work between a write and its store
(`OneAtWork`), and of the pending exchange whose it is and which factors it has (`Rightful`): a
SCRAM or GSSAPI exchange none yet, one that waits for a one-time password its first, of a user who
needs both.

*Transfer.* `TransferProofs` proves `StreamExclusive` for any number of calls, notifications
and chunks in both directions, from `TransferAssumption` and `Serial` (its type invariant
needs no `Serial`). The argument is one of silence: from the request on the client sends only
its part of the hand-shake, and from `$/transferReady` on the server's gate lets nothing pass.
`TransferInv` says for each stage of the client what the two buffers, the two directions of
the socket and the writer may hold (`Wire`): before the request calls only, then the request
as the last thing sent, then nothing; in the other direction replies and notices, then
`$/transferReady` as the last, then nothing but the stream, with frames only behind it. That
the request is the last thing sent needs `Silent`, that no call is past its test of
`_in_transfer`; types need that a client asks once (`AskedOnce`).

`HandoverImplemented` is the refinement, under `Serial` too. `StreamExclusive` is about where bytes
lie; this is also about who reads and writes them, and that none is missing when the ends are
given back. `HandInv` adds three facts to `TransferInv`: until the server takes the wire over
nothing of the stream has left, and there are only frames (`Whole`); from the hand-shake to the end
of its callback the server's gate is shut (`Streaming`); a client whose callback has returned leaves
no chunk unsent, none it has still to read, and nothing but frames behind the stream
(`Returned`). The last two are lost when the connection is. A transfer that is `Forsaken` maps to
`Lose`: it is the one case in which a frame may meet a callback (see the findings).

`PausesGivenBack`, `CallsSurvive` and `NobodyStuck` are the safety core of `CallsOutliveTransfer` and
`TransferEnds`. The first needs no `Serial`: gate and pauses are held only by somebody who gives
them back (`Lent`). The second follows a call through sockets, buffers, workers, queue and gate
(`OnTheWay`) and shows that no receiver takes it for something else: loops read frames only
(`LoopsReadFrames`), callbacks stream bytes only (`CallbacksReadStream`), and who awaits a frame is
given `$/transferGo` (`GoIsAwaited`). The third says that while a caller waits an action of one side
can be taken (`Attended`, whose lines are the guards of the fair actions). It needs that the final
result is on its way until it is read (`ResultKept`): the case with an argument in it is a reply,
or the result, behind the gate, where the gate's owner must be a callback that can go on.
`KeptInv` is `HandInv` with these. What is left to fairness is that those who can act do, and that they
do so finitely often before the answer is there, which the runs check.

`LossNoticed` is the core of `WorkerReleased`, and speaks of what the others leave out, a transfer that was
given up and a connection that is lost: `serve()` is never stuck before bytes of a stream (`Unread`: none
is in its buffer, and none is left in the socket when nobody's callback reads it), so from
wherever the server is it gets to the end of the connection (`EndAttended`).

*Client.* `ClientProofs` proves the four invariants of the `client` run for any number of calls,
threads and topics and any use the application makes of them, from `ClientAssumption`.
`ClientTypeCorrect` is more than types: a call in `_pending` has a coroutine that has not ended.
It rests on what waits on the loop (`QueueSound`): each callback finds its call where it was posted
for (`Fits`), and no coroutine is started or woken twice (`Apart`). Nothing rests on there being one
`close()`: each has a teardown of its own, which comes only from a call that has passed its test
(`CallsSound`).
`EventsCallback` adds `SubsSound` and `EventsSound`: the server knows of a subscription only what
a coroutine sent that had listed its callback.

`CallersAttended` and `LeftoversTaken` prove `NobodyForgotten` and `LeftoversOnTheirWay`, the safety
core of the run's liveness properties: what is left to fairness is that the loop serves its queue,
that time passes and that the server answers. Their invariant, `Attendance`, follows a call
through its coroutine (`Attended`): before it has started its start is on the loop; while it waits
it is in `_pending`, and either the server owes the answer, or the answer is on the wire, or the
link or the reader is gone and `_fail_pending()` sees to it (`Owed`); once its future is set the
wake-up is on the loop; once it has returned the callback is that copies its result; when its
caller has given it up the cancellation is, or the wake-up that comes instead. `ConnectSound` is
about `connect()`, whose coroutine waits for the network and has no entry anywhere: because it is
called once and before anything else, no coroutine waits in `_pending` when a channel comes up, so
that the new reader owes nobody what an earlier one has lost. A second `connect()` would break
that (see the findings), which is why the guard of `Begin` spells the order out.

*Redaction.* `RedactionProofs` proves `SecretsMasked` and `OnlySecretsMasked` for any classes, types
and values that satisfy `RedactionAssumption`. Both need induction over data, which the library's
induction theorems cannot give here; that a non-empty set of numbers has a smallest element can
be cited as a fact about sets, and is enough. `_compile()` recurses through types and through the
classes on its stack: `Before` orders its calls by the classes that are not yet on the stack and,
among equal ones, by how deep the type nests (`PositionInduction`). Along that order exactly one
function solves the recursion (`Unique`), so that `CompileEquation` holds, of which everything
else is proved.

That no secret is shown where the types on the way to it are ones the code sees through (`Seen`)
has two halves. A type whose secret lies below it has a plan, on whatever
stack it is compiled (`Always`; with a class on the stack it is the back reference), and so on
up to the class of the method: no plan is lost on the way up (`ChainAlways`, `BelowAlways`, `RootLed`).
And down from the root `_apply()` calls itself for each such node with the plan of its type
(`EveryLedReached`): through annotations and into the member of a union that the value is of
(`Narrowed`), which its tag lets through when there is one, because with a tagged struct in the union
`Visible` leaves no member whose tag is hidden; into the fields and items of a value
(`Descended`), where a back reference starts again with an empty stack. That nothing else
is masked is an invariant of the calls made, `RedactionInv`: each is for the plan of a type in the
node's chain (`Right`), or for that of a member of another form, which finds nothing to work on
(`Harmless`). It needs that a union with a secret member has no other but None (`Telling`): where a
form alone decides, the code masks first.

*Only model-checked.* Liveness and fairness are out of the prover's reach: `FramesAnswered`,
`NoticesDelivered`, `AcceptedCancelEndsTarget`, `EntriesReleased`, `AnsweredOrFailed`,
`CallsOutliveTransfer`, `TransferEnds`, `WorkerReleased`, `ShutdownCompletes`. Every safety
property, action property and refinement of a passing run is a theorem. For each of
these a theorem above has the part that is about states: that what is awaited is not
lost, or that while somebody waits somebody can act. That those who can act do, and that this comes
to an end, is what the runs check.

## 6. Findings

- `subscription_leak`: a subscribe that passed the gate before the drop registers after
  the sweep; `unsubscribe_all` is there so that subscriptions do not leak.
- `transfer_wedged`: when the wait in `_settle()` ends after `_transfer_prep()` has returned on
  the loop, there is nothing left to cancel; the transport it paused stays paused, although
  the cleanup is there so that a failed set-up cannot wedge the connection.
- `peer_lost`: a rejected SCRAM or GSSAPI exchange stays in `server_state_internal`; the next
  setup takes it for the peer, so peer credentials and client certificates no longer work
  on that connection and the origin is gone from the audit records.

Other behaviours are in the models without a run of their own:

- A setup handler that is running when the socket drops stores its result over CLOSED, so
  the session lives again although `types.py` says no further dispatch is accepted.
  `ClosedIsFinalWithoutSetup` states what does hold.
- The entry in the notification thread's hand escapes the purge and may follow the reply,
  which a comment on the purge rules out. `OneTrailingProgress` says it is never more
  than one.
- Progress is dropped by id, not by request: with a repeated id the progress of a finished
  request is queued under another (`ImplementsChannel` is checked and proved for distinct ids for
  that reason).
- Cancels wait for a worker like anything else; handlers that wait to be cancelled can hold
  every worker (`FramesAnswered` makes the exception).
- An answer that arrives between the end of a wait and the `done()` test in `_settle()` is
  thrown away, and the caller gets a bare TimeoutError.
- A secret behind an array-like struct, or in a union of a tagged struct with an annotated one, is
  shown to the audit handler: the plan lists the annotated member without a tag
  (`redaction.py:87`), so a value of it, which has one, is returned as it is (135-140), and what is no
  dict is passed over (112). The package's README says that "nested Structs [...] tagged unions"
  are handled. `SecretsMasked` states the exception; the instance has both types.
- A transfer that the server refuses, or whose hand-shake fails, leaves no audit record, nor does a
  control operation rejected before its gate, although `register_audit_handler()` speaks of every
  audited method call and every control operation.
- A `close()` whose teardown takes more than five seconds stops the loop without `_fail_pending()`:
  a call without a time-out that waits then waits for ever (`CutShort`).
- Two `close()` at once both pass the test of `_closed`; the later one may raise in
  `call_soon_threadsafe()`, on the loop the other has closed.
- A call made on a connection whose read loop has ended waits for its whole time-out, also
  when `close()` is called (`AnsweredOrFailed` speaks of requests sent while it runs).
- Two log-ins pipelined on one session may leave a pending exchange where the first has
  put its identity, with the session ESTABLISHED.
- A client that gives a hand-shake up and goes on has its next call read as `$/transferGo`
  or as data (`CallsOutliveTransfer` excepts a wire that is `Forsaken`). So has one that calls
  between another thread's test and post (`Serial`).
- A connection that closes between the creation of a transfer's task and its first step
  leaves the task waiting, with the writer's gate shut again.
- `connect()` gives up its wait without cancelling its coroutine, as `_settle()` does for every
  other call. The connection may come up later; a retry makes a second channel and a second
  read loop over the same tables; with a `with` statement nothing closes it, since `__exit__`
  does not run; and a `close()` that falls between may leave a connection that completes after
  its teardown.
- `close()` before `connect()` joins a thread that was never started and raises; `call()` before
  `connect()` waits for a loop that does not run.
- `call()` tests `_closed` and posts in two steps: a `close()` between them stops the loop under
  a coroutine that then never runs. A subscribe that times out when its coroutine has just
  returned keeps its callback listed, and nobody knows the subscription's id.
- An identity that is no dict gets audit records without a name: `scram_finish()` stores the bare
  user name when the stored credentials hold no identity, and `default_username()` answers
  UNKNOWN_USER for it (`Named` are the users whose identity it can read).
- A rejected continue puts the session back to NONE; the table of outcomes in
  `mixins/auth/README.md` speaks of an unchanged lifecycle. The tests agree with the code.
- A log-in that is given up after its challenge, or whose next message has the wrong type, or
  whose connection closes, leaves its PAM conversation open until the object is collected.
- A kTLS hand-shake that is running on its worker, or has just ended there, when `aclose()`
  cancels its task leaves the bare number of a descriptor in a result nobody reads (`lost`).
- A second `aclose()` may cancel a connection's task between the end of its writer and the
  next step of `_close()`, which then does not close its channel (`dropped`).
- On Python 3.11 `aclose()` leaves the Unix and TCP connections open, although its docstring says
  that it closes them; on 3.12 it waits for their clients to go.
- A `start()` that fails midway has set `_started`: the next one returns at once and serves
  without the remaining transports and without drain threads. A `chmod` that fails leaves a
  listener in no list, as does an `aclose()` during a `start()` that then fails (`stranded`).
- `aclose()` before `start()` sets no event, so a `serve_forever()` that follows runs on, with
  drain threads that end at once.
- Hand-shakes share the dispatch executor and have no time-out.

## 7. Not modelled

Registration of methods and handlers happens before traffic and is the constants.
Parsing, schema validation, query compilation and framing are conversions without state; that
they may fail is a choice where dispatch checks them. JSON-RPC batches are rejected by the
code. Verifiers (SCRAM and GSSAPI arithmetic, PAM's verdict, certificates) are choices.

- *Generators* (`codegen.py`, `openrpc_gen.py`) and `examples/`: offline text and demonstrations.
- *Audit*: the other fields of a record are conversions of the session; the syslog handler is
  I/O that swallows its errors. `aclose()` tells the drain threads to stop, and records still
  queued are lost; no document says otherwise.
- *Transfer*: callbacks that stop before their stream does, a second transfer on the connection,
  a time-out on the final result, descriptors passed over AF_UNIX (`SCM_RIGHTS`), which carry
  no stream.
- *Redaction*: dataclasses, TypedDicts, NamedTuples and secret dict keys are outside the type
  algebra; the code compiles no plan for them. A filterable method's result has no plan, since it
  declares no `returns`.
- *Server and Lifecycle* share no variables: `Server` closes connections one by one under the
  traffic of its clients, `Lifecycle` all of them from above, with their traffic reduced to the
  length of a queue.
