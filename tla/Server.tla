------------------------------- MODULE Server -------------------------------
(***************************************************************************)
(* JSONRPCServer and its Connections around one JSONRPCProtocol: an event  *)
(* loop (read loops, dispatch callbacks, writers and _close(), one         *)
(* callback at a time), an executor with MaxWorkers threads that run       *)
(* dispatch(), and the notification thread that moves entries from the     *)
(* protocol's outbound queue to the connection of their session.           *)
(*                                                                         *)
(* A connection has one session, so it goes by its session's name.  A      *)
(* dispatch that ends on a worker reaches the loop in two hops (asyncio's  *)
(* future copies the result in one callback and calls _on_dispatch_done in *)
(* another); a notification reaches it in one.  That is the order clients  *)
(* see.                                                                    *)
(***************************************************************************)
EXTENDS Dispatch, Sequences, SequencesExt

CONSTANT MaxWorkers     \* threads of the executor

ASSUME ServerAssumption ==
    /\ MaxWorkers \in Nat \ {0}
    /\ "transfer" \notin {m.kind : m \in Traffic}   \* raw-fd takeover: not in this module

VARIABLES
    conn,       \* Connection._state, and how far _close() has got
    frame,      \* the frame read off the wire for a call (None: not read yet)
    work,       \* the executor's FIFO of dispatches not started
    future,     \* the asyncio future of a dispatch ("none": no frame yet)
    ready,      \* callbacks queued on the event loop
    hand,       \* entry the notification thread popped and has not routed
    out,        \* Connection._outbound
    wire        \* history: what the writer sent on a connection

serverVars == <<conn, frame, work, future, ready, hand, out, wire>>
allVars == <<vars, serverVars>>

Callback ==
    [run : {"set", "done", "cancel"}, of : Calls] \cup [run : {"enqueue"}, of : Entry]

Packet ==
    [kind : {"reply"}, of : Calls] \cup [kind : {"note"}, of : Entry] \cup [kind : {"stop"}]

ServerTypeOK ==
    /\ conn \in [Sessions -> {"negotiating", "bound", "closing", "unregistered", "closed"}]
    /\ frame \in [Calls -> Message \cup {None}]
    /\ work \in Seq(Calls)
    /\ future \in [Calls -> {"none", "pending", "done", "cancelled"}]
    /\ ready \in Seq(Callback)
    /\ hand \in Entry \cup {None}
    /\ out \in [Sessions -> Seq(Packet)]
    /\ wire \in [Sessions -> Seq(Packet)]
    /\ Cardinality({c \in Calls : pc[c] \notin {"idle", "done"}}) <= MaxWorkers

ServerInit ==
    /\ Init
    /\ conn = [s \in Sessions |-> "negotiating"]
    /\ frame = [c \in Calls |-> None]
    /\ work = <<>>
    /\ future = [c \in Calls |-> "none"]
    /\ ready = <<>>
    /\ hand = None
    /\ out = [s \in Sessions |-> <<>>]
    /\ wire = [s \in Sessions |-> <<>>]

Later(callback) == ready' = Append(ready, callback)
Owner(c) == frame[c].session

\* _close() runs on the loop to its end: nothing else does meanwhile.
LoopFree == \A s \in Sessions : conn[s] \in {"negotiating", "bound", "closed"}

-----------------------------------------------------------------------------
(* The read loop.                                                          *)

\* $/negotiate: a session of the chosen protocol, filed in the session registry.
\* A refused one is answered and changes nothing.
HandleNegotiate(s) ==
    /\ LoopFree /\ conn[s] = "negotiating"
    /\ conn' = [conn EXCEPT ![s] = "bound"]
    /\ UNCHANGED <<vars, frame, work, future, ready, hand, out, wire>>

\* A frame of a bound connection is handed to the executor; the loop reads on.
Receive(c, m) ==
    /\ LoopFree /\ conn[m.session] = "bound"
    /\ frame[c] = None
    /\ (~ReuseIds /\ m.rid # None) =>
           \A d \in Calls : frame[d] # None => frame[d].rid # m.rid
    /\ frame' = [frame EXCEPT ![c] = m]
    /\ work' = Append(work, c)
    /\ future' = [future EXCEPT ![c] = "pending"]
    /\ UNCHANGED <<vars, conn, ready, hand, out, wire>>

-----------------------------------------------------------------------------
(* The executor.                                                           *)

Busy == {c \in Calls : pc[c] \notin {"idle", "done"}}

\* Deliberately wrong: one worker held back, one too many.
OneWorkerHeldBack == Cardinality(Busy) + 1 < MaxWorkers
OneWorkerTooMany == Cardinality(Busy) <= MaxWorkers

WorkerFree == Cardinality(Busy) < MaxWorkers

\* The result of a dispatch that has just ended is posted to the event loop.
PostResult(c) == IF pc'[c] = "done" THEN Later([run |-> "set", of |-> c]) ELSE UNCHANGED ready

\* A free worker takes the oldest dispatch.
Start(c) ==
    /\ work # <<>> /\ c = Head(work)
    /\ WorkerFree
    /\ work' = Tail(work)
    /\ Begin(c, frame[c])
    /\ PostResult(c)
    /\ UNCHANGED <<conn, frame, future, hand, out, wire>>

Work(c) ==
    /\ Thread(c)
    /\ PostResult(c)
    /\ UNCHANGED <<conn, frame, work, future, hand, out, wire>>

\* A handler emits progress, or anyone publishes.
Produce ==
    /\ \/ \E c \in Calls : Progress(c)
       \/ \E topic \in Topics : Publish(topic)
    /\ UNCHANGED serverVars

-----------------------------------------------------------------------------
(* The notification thread.                                                *)

\* poll_notification(): from here on the entry is out of _complete()'s reach.
DrainPoll(e) ==
    /\ hand = None
    /\ Poll(e)
    /\ hand' = e
    /\ UNCHANGED <<conn, frame, work, future, ready, out, wire>>

\* Deliberately wrong: the session is taken out of the registry when it is bound.
FiledUntilBound(s) == conn[s] = "negotiating"

\* The session registry still leads to the connection.
Filed(s) == conn[s] \in {"bound", "closing"}

\* Look the session's connection up and post the bytes to its loop, or drop them.
DrainRoute ==
    /\ hand # None
    /\ hand' = None
    /\ IF Filed(Session(hand.origin))
       THEN Later([run |-> "enqueue", of |-> hand])
       ELSE UNCHANGED ready
    /\ UNCHANGED <<vars, conn, frame, work, future, out, wire>>

-----------------------------------------------------------------------------
(* Callbacks of the event loop, oldest first.                              *)

Send(s, packet) == out' = [out EXCEPT ![s] = Append(@, packet)]

\* The executor's result is copied into the asyncio future, unless cancelled.
CopyResult ==
    LET c == Head(ready).of IN
    /\ Head(ready).run = "set"
    /\ \/ /\ future[c] = "pending"
          /\ future' = [future EXCEPT ![c] = "done"]
          /\ ready' = Append(Tail(ready), [run |-> "done", of |-> c])
       \/ /\ future[c] = "cancelled"
          /\ ready' = Tail(ready)
          /\ UNCHANGED future
    /\ UNCHANGED <<vars, conn, frame, work, hand, out, wire>>

\* _on_dispatch_done: queue the reply, if there is one, on the connection.
OnDispatchDone ==
    LET c == Head(ready).of IN
    /\ Head(ready).run = "done"
    /\ IF reply[c] = "SILENT" THEN UNCHANGED out
       ELSE Send(Owner(c), [kind |-> "reply", of |-> c])
    /\ ready' = Tail(ready)
    /\ UNCHANGED <<vars, conn, frame, work, future, hand, wire>>

\* A cancelled asyncio future takes its dispatch back from the executor, if no
\* worker has started it yet.
CancelDispatch ==
    LET c == Head(ready).of IN
    /\ Head(ready).run = "cancel"
    /\ \/ \E i \in 1..Len(work) : work[i] = c /\ work' = RemoveAt(work, i)
       \/ c \notin Range(work) /\ UNCHANGED work
    /\ ready' = Tail(ready)
    /\ UNCHANGED <<vars, conn, frame, future, hand, out, wire>>

\* enqueue_outbound: nothing is queued on a connection that is CLOSED by now.
EnqueueOutbound ==
    LET e == Head(ready).of IN
    /\ Head(ready).run = "enqueue"
    /\ IF conn[Session(e.origin)] = "bound"
       THEN Send(Session(e.origin), [kind |-> "note", of |-> e])
       ELSE UNCHANGED out
    /\ ready' = Tail(ready)
    /\ UNCHANGED <<vars, conn, frame, work, future, hand, wire>>

RunCallback ==
    /\ LoopFree /\ ready # <<>>
    /\ CopyResult \/ OnDispatchDone \/ CancelDispatch \/ EnqueueOutbound

\* _drain_outbound: the writer sends the oldest packet; "stop" ends it.
Write(s) ==
    /\ LoopFree
    /\ out[s] # <<>> /\ Head(out[s]).kind # "stop"
    /\ out' = [out EXCEPT ![s] = Tail(@)]
    /\ wire' = [wire EXCEPT ![s] = Append(@, Head(out[s]))]
    /\ UNCHANGED <<vars, conn, frame, work, future, ready, hand>>

-----------------------------------------------------------------------------
(* EOF, an oversized frame or a reset: serve() ends in _close().           *)

Cancellations(s) ==
    {[run |-> "cancel", of |-> c] : c \in {d \in Calls : future[d] = "pending" /\ Owner(d) = s}}

\* Cancelling a future posts a callback that takes the dispatch back; the futures
\* are cancelled in whatever order a set is iterated.
Close(s) ==
    /\ LoopFree /\ conn[s] = "bound"
    /\ conn' = [conn EXCEPT ![s] = "closing"]
    /\ future' = [c \in Calls |-> IF future[c] = "pending" /\ Owner(c) = s
                                  THEN "cancelled" ELSE future[c]]
    /\ \E callbacks \in SetToSeqs(Cancellations(s)) : ready' = ready \o callbacks
    /\ UNCHANGED <<vars, frame, work, hand, out, wire>>

Unregister(s) ==
    /\ conn[s] = "closing"
    /\ conn' = [conn EXCEPT ![s] = "unregistered"]
    /\ UNCHANGED <<vars, frame, work, future, ready, hand, out, wire>>

\* close_session(), in its two steps.
CloseSession(s) ==
    /\ conn[s] = "unregistered"
    /\ SocketDrop(s) \/ SocketSweep(s)
    /\ UNCHANGED serverVars

StopWriter(s) ==
    /\ conn[s] = "unregistered" /\ socket[s] = "dropped"
    /\ conn' = [conn EXCEPT ![s] = "closed"]
    /\ Send(s, [kind |-> "stop"])
    /\ UNCHANGED <<vars, frame, work, future, ready, hand, wire>>

CloseStep(s) == Unregister(s) \/ CloseSession(s) \/ StopWriter(s)

-----------------------------------------------------------------------------

ServerNext ==
    \/ \E s \in Sessions : HandleNegotiate(s) \/ Write(s) \/ Close(s) \/ CloseStep(s)
    \/ \E c \in Calls, m \in Traffic : Receive(c, m)
    \/ \E c \in Calls : Start(c) \/ Work(c)
    \/ \E e \in outbound : DrainPoll(e)
    \/ Produce
    \/ DrainRoute
    \/ RunCallback

ServerSpec == ServerInit /\ [][ServerNext]_allVars

\* The loop and the threads are scheduled, handlers return (a waiting one once it
\* is cancelled), clients read what is written to them.  Nobody has to send,
\* publish, emit progress or disconnect.
ServerFairness ==
    /\ \A c \in Calls : WF_allVars(Start(c)) /\ WF_allVars(Work(c))
    /\ \A s \in Sessions : WF_allVars(Write(s)) /\ WF_allVars(CloseStep(s))
    /\ WF_allVars(RunCallback)
    /\ WF_allVars(DrainRoute)
    /\ WF_allVars(\E e \in outbound : DrainPoll(e))

FairServerSpec == ServerSpec /\ ServerFairness

-----------------------------------------------------------------------------
(* Properties.                                                             *)

IsReply(p, c)    == p = [kind |-> "reply", of |-> c]
IsProgress(p, c) == p.kind = "note" /\ p.of.rid # None /\ p.of.origin = c
IsNotice(p)      == p.kind = "note"

\* Progress of c the client reads after the reply to c.
Trailing(c) ==
    UNION {{j \in DOMAIN wire[s] :
              IsProgress(wire[s][j], c) /\ \E i \in 1..(j - 1) : IsReply(wire[s][i], c)}
           : s \in Sessions}

\* However often a handler reports progress and however slow the drain is, at
\* most one notification trails its reply: the one the notification thread had in
\* hand when the handler ended, because the purge gets all the others.
OneTrailingProgress == \A c \in Calls : Cardinality(Trailing(c)) <= 1

\* A client reads notifications in the order they were queued, across the drain
\* thread, the loop and the writer; none twice, and no second reply.
DeliveredInOrder ==
    \A s \in Sessions : \A i, j \in DOMAIN wire[s] : i < j =>
        /\ wire[s][i] # wire[s][j]
        /\ IsNotice(wire[s][i]) /\ IsNotice(wire[s][j]) =>
               wire[s][i].of.stamp <= wire[s][j].of.stamp

\* A request of an open connection is somewhere at every moment: with the executor, with a
\* worker, on its way through the loop, or answered.  No error on the way loses it, nor do
\* the cancellations by which a close takes dispatches back, since they are its own.
NoRequestLost ==
    \A c \in Calls : frame[c] # None /\ frame[c].rid # None /\ conn[Owner(c)] = "bound" =>
        \/ c \in Range(work) \cup Busy
        \/ \E run \in {"set", "done"} : [run |-> run, of |-> c] \in Range(ready)
        \/ [kind |-> "reply", of |-> c] \in Range(out[Owner(c)]) \cup Range(wire[Owner(c)])

\* Once the session of a connection is closed no frame of it gets into dispatch:
\* not one still in the executor's queue, nor one whose cancellation comes too late.
\* (Without session setup; a setup handler that ends late reopens the session.)
NoWorkAfterClose ==
    [][ \A c \in Calls :
          pc[c] = "idle" /\ pc'[c] = "gate" /\ ~HasSetup => socket[Owner(c)] = "open" ]_allVars

Dropped(c) == frame[c] # None /\ conn[Owner(c)] # "bound"

Answered(c) ==
    frame[c] # None /\ \E i \in DOMAIN wire[Owner(c)] : IsReply(wire[Owner(c)][i], c)

Held(c) == pc[c] = "running" /\ ~MayReturn(c)

\* All workers run handlers that wait for a cancellation.
Starved == Cardinality({c \in Calls : Held(c)}) >= MaxWorkers

\* A request that was read is answered, unless its connection closes, its own
\* handler waits to be cancelled, or waiting handlers hold every worker.
FramesAnswered ==
    \A c \in Calls :
        (frame[c] # None /\ frame[c].rid # None) ~>
            (Answered(c) \/ Dropped(c) \/ Held(c) \/ Starved)

\* What is taken from the outbound queue for a connection that stays open reaches
\* the client.
NoticesDelivered ==
    \A s \in Sessions : \A n \in 1..MaxOutbound :
        (hand # None /\ hand.stamp = n /\ Session(hand.origin) = s) ~>
            (conn[s] # "bound" \/
             \E i \in DOMAIN wire[s] : IsNotice(wire[s][i]) /\ wire[s][i].of.stamp = n)

\* A cancel answered with a result ends the request it found: a handler that
\* waits for its event cannot miss it, however far the handler is when it is set.
AcceptedCancelEndsTarget ==
    \A c \in Calls :
        (msg[c] # None /\ msg[c].kind = "cancel" /\ reply[c] = "RESULT")
            ~> (found[c] # None /\ pc[found[c]] = "done")

=============================================================================
