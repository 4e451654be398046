------------------------------ MODULE Transfer ------------------------------
(***************************************************************************)
(* A raw-fd transfer takes over one connection: both sides agree on the    *)
(* moment from which bytes go between the file descriptors, past the JSON  *)
(* framing, and hand the connection back when the stream is over.          *)
(*                                                                         *)
(* A direction of the connection is what lies in the socket (`toServer',   *)
(* `toClient') and what the receiver's event loop has already read from it *)
(* into its stream buffer.  A loop that is paused reads nothing; a         *)
(* transfer callback reads and writes the socket and cannot reach the      *)
(* buffer.  The stream is self-delimiting (transfer.py): callbacks carry   *)
(* it to its end, unless the connection is lost.                           *)
(*                                                                         *)
(* Client side: BaseClient.transfer() with _transfer_prep() and            *)
(* _transfer_finish(), and the calls of other threads.  Server side:       *)
(* Connection.serve(), _run_transfer(), the writer behind its gate and     *)
(* _close().  What a client does with a lost connection is in Client.      *)
(***************************************************************************)
EXTENDS Naturals, Sequences, SequencesExt

CONSTANTS
    Calls,          \* ordinary requests on the same connection
    Directions,     \* directions a transfer may have
    Serial,         \* no call is between its test and its post when a transfer begins
    MaxChunks,      \* bound: length of the stream
    MaxNotices      \* bound: notifications the server queues

ASSUME TransferAssumption ==
    /\ Directions \subseteq {"UPLOAD", "DOWNLOAD"} /\ Directions # {}
    /\ Serial \in BOOLEAN
    /\ MaxChunks \in Nat \ {0} /\ MaxNotices \in Nat
    /\ Calls \cap {"request", "go", "ready", "final", "notice", "raw", "none", "waiting"} = {}

VARIABLES
    direction,      \* of the transfer
    open,           \* the connection
    stage,          \* transfer(), on the client
    call,           \* a call, on the client
    clientPaused,   \* the client's transport is paused
    clientBuffer,   \* its stream buffer
    toServer,       \* bytes in the socket
    toClient,
    serverBuffer,
    serverPaused,
    working,        \* calls on the server's workers
    takeover,       \* _run_transfer(), and the dispatch that leads to it
    awaitFrame,     \* _await_frame: none, waiting, or the frame it got
    gate,           \* _writer_gate
    outbound,       \* _outbound
    held,           \* what the writer holds before the gate
    serving,        \* _close() has not run
    left,           \* chunks the producer has yet to write
    notices         \* notifications queued so far

clientVars == <<stage, call, clientPaused, clientBuffer>>
serverVars == <<serverBuffer, serverPaused, working, takeover, awaitFrame, gate, outbound, held,
                serving, notices>>
vars == <<direction, open, clientVars, toServer, toClient, serverVars, left>>

Frames == {"request", "go", "ready", "final", "notice"} \cup Calls
Items  == Frames \cup {"raw"}
Stages == {"idle", "begun", "requested", "ready", "prepared", "raw", "finishing", "done", "failed"}

TransferTypeOK ==
    /\ direction \in Directions
    /\ stage \in Stages
    /\ call \in [Calls -> {"idle", "checked", "sent", "answered", "failed"}]
    /\ open \in BOOLEAN /\ clientPaused \in BOOLEAN /\ serverPaused \in BOOLEAN
    /\ gate \in BOOLEAN /\ serving \in BOOLEAN
    /\ clientBuffer \in Seq(Items) /\ toClient \in Seq(Items)
    /\ serverBuffer \in Seq(Items) /\ toServer \in Seq(Items)
    /\ outbound \in Seq(Frames)
    /\ working \subseteq Calls
    /\ takeover \in {"none", "dispatched", "directed", "handshake", "raw", "over", "broken"}
    /\ awaitFrame \in Frames \cup {"none", "waiting"}
    /\ held \in Frames \cup {"none"}
    /\ left \in 0..MaxChunks /\ notices \in 0..MaxNotices
    /\ awaitFrame # "none" => takeover = "handshake"
    /\ takeover = "raw" => serverPaused

TransferInit ==
    /\ direction \in Directions /\ open = TRUE
    /\ stage = "idle" /\ call = [c \in Calls |-> "idle"]
    /\ clientPaused = FALSE /\ clientBuffer = <<>>
    /\ toServer = <<>> /\ toClient = <<>>
    /\ serverBuffer = <<>> /\ serverPaused = FALSE /\ working = {}
    /\ takeover = "none" /\ awaitFrame = "none" /\ gate = TRUE
    /\ outbound = <<>> /\ held = "none" /\ serving = TRUE
    /\ left = MaxChunks /\ notices = 0

-----------------------------------------------------------------------------
(* The client.                                                             *)

UnderWay == stage \notin {"idle", "done", "failed"}

\* call() tests _in_transfer, then posts to the loop.
CheckCall(c) ==
    /\ call[c] = "idle" /\ ~UnderWay
    /\ call' = [call EXCEPT ![c] = "checked"]
    /\ UNCHANGED <<direction, open, stage, clientPaused, clientBuffer, toServer, toClient, serverVars, left>>

SendCall(c) ==
    /\ call[c] = "checked" /\ open
    /\ call' = [call EXCEPT ![c] = "sent"]
    /\ toServer' = Append(toServer, c)
    /\ UNCHANGED <<direction, open, stage, clientPaused, clientBuffer, toClient, serverVars, left>>

\* transfer() sets _in_transfer.
BeginTransfer ==
    /\ stage = "idle"
    /\ Serial => \A c \in Calls : call[c] # "checked"
    /\ stage' = "begun"
    /\ UNCHANGED <<direction, open, call, clientPaused, clientBuffer, toServer, toClient, serverVars, left>>

SendRequest ==
    /\ stage = "begun" /\ open
    /\ stage' = "requested"
    /\ toServer' = Append(toServer, "request")
    /\ UNCHANGED <<direction, open, call, clientPaused, clientBuffer, toClient, serverVars, left>>

\* The loop reads the socket, unless it is paused.
ClientReceive ==
    /\ ~clientPaused /\ toClient # <<>>
    /\ clientBuffer' = Append(clientBuffer, Head(toClient))
    /\ toClient' = Tail(toClient)
    /\ UNCHANGED <<direction, open, stage, call, clientPaused, toServer, serverVars, left>>

\* _on_message(): an answer before $/transferReady is a refusal, one after the stream
\* the result.  Nobody waits for what comes after a time-out.
ClientRead ==
    /\ clientBuffer # <<>> /\ Head(clientBuffer) \in Frames
    /\ LET frame == Head(clientBuffer) IN
       /\ \/ frame = "ready" /\ stage = "requested" /\ stage' = "ready"
          \/ frame = "final" /\ stage = "requested" /\ stage' = "failed"
          \/ frame = "final" /\ stage = "finishing" /\ stage' = "done"
          \/ /\ frame = "ready" => stage # "requested"
             /\ frame = "final" => stage \notin {"requested", "finishing"}
             /\ UNCHANGED stage
       /\ call' = [c \in Calls |-> IF c = frame THEN "answered" ELSE call[c]]
    /\ clientBuffer' = Tail(clientBuffer)
    /\ UNCHANGED <<direction, open, clientPaused, toServer, toClient, serverVars, left>>

\* _transfer_prep() after $/transferReady: pause, and say so if the server waits for it.
\* Deliberately wrong: StillReading starts the stream with the transport reading.
StillReading == UNCHANGED clientPaused
PauseClient == clientPaused' = TRUE

Prepare ==
    /\ stage = "ready"
    /\ PauseClient
    /\ stage' = "prepared"
    /\ toServer' = IF direction = "DOWNLOAD" THEN Append(toServer, "go") ELSE toServer
    /\ UNCHANGED <<direction, open, call, clientBuffer, toClient, serverVars, left>>

\* The calling thread has the fd and runs the callback.
StartCallback ==
    /\ stage = "prepared"
    /\ stage' = "raw"
    /\ UNCHANGED <<direction, open, call, clientPaused, clientBuffer, toServer, toClient, serverVars, left>>

\* _settle() gives the hand-shake up: _transfer_prep() is cancelled and its cleanup
\* resumes the transport, unless it has returned already.
PrepareTimesOut ==
    /\ stage \in {"begun", "requested", "ready", "prepared"}
    /\ stage' = "failed"
    /\ clientPaused' = (clientPaused /\ stage = "prepared")
    /\ UNCHANGED <<direction, open, call, clientBuffer, toServer, toClient, serverVars, left>>

\* Nothing of the stream is left to write or, in the buffer, to read: recvfile() counts.
Streamed(buffer) == left = 0 /\ ~Contains(buffer, "raw")

\* The callback carries the stream to its end: sendfile() and recvfile() loop until their
\* count is reached.  It reads whatever the socket holds.
ClientStream ==
    /\ stage = "raw" /\ open
    /\ \/ /\ direction = "UPLOAD" /\ left > 0
          /\ toServer' = Append(toServer, "raw") /\ left' = left - 1
          /\ UNCHANGED toClient
       \/ /\ direction = "DOWNLOAD" /\ toClient # <<>> /\ ~Streamed(clientBuffer \o toClient)
          /\ toClient' = Tail(toClient)
          /\ UNCHANGED <<toServer, left>>
    /\ UNCHANGED <<direction, open, clientVars, serverVars>>

\* _transfer_finish() resumes the transport and waits for the result, without a time-out
\* unless the application asks for one (left out).
\* Deliberately wrong: StillPaused leaves it paused.
StillPaused == UNCHANGED clientPaused
ResumeClient == clientPaused' = FALSE

ClientFinish ==
    /\ stage = "raw"
    /\ direction = "DOWNLOAD" => Streamed(clientBuffer \o toClient)
    /\ direction = "UPLOAD" => left = 0
    /\ ResumeClient
    /\ stage' = "finishing"
    /\ UNCHANGED <<direction, open, call, clientBuffer, toServer, toClient, serverVars, left>>

-----------------------------------------------------------------------------
(* The connection.                                                         *)

\* It is lost, or transfer() tears it down because the callback raised.
Lose ==
    /\ open
    /\ open' = FALSE
    /\ UNCHANGED <<direction, clientVars, toServer, toClient, serverVars, left>>

\* Reading, or the callback, fails: what waited is failed.
ClientLoses ==
    /\ ~open
    /\ UnderWay \/ \E c \in Calls : call[c] \in {"checked", "sent"}
    /\ stage' = IF UnderWay THEN "failed" ELSE stage
    /\ call' = [c \in Calls |-> IF call[c] \in {"checked", "sent"} THEN "failed" ELSE call[c]]
    /\ UNCHANGED <<direction, open, clientPaused, clientBuffer, toServer, toClient, serverVars, left>>

-----------------------------------------------------------------------------
(* The server.                                                             *)

ServerReceive ==
    /\ ~serverPaused /\ serving /\ toServer # <<>>
    /\ serverBuffer' = Append(serverBuffer, Head(toServer))
    /\ toServer' = Tail(toServer)
    /\ UNCHANGED <<direction, open, clientVars, toClient, serverPaused, working, takeover, awaitFrame,
                   gate, outbound, held, serving, notices, left>>

\* serve(): whoever awaits a frame gets it; any other is dispatched.  A $/transferGo that
\* nobody awaits is a notification of no method.
ServerRead ==
    /\ serving /\ serverBuffer # <<>> /\ Head(serverBuffer) \in Frames
    /\ LET frame == Head(serverBuffer) IN
       IF awaitFrame = "waiting"
         THEN awaitFrame' = frame /\ UNCHANGED <<working, takeover>>
         ELSE /\ working' = working \cup ({frame} \cap Calls)
              /\ takeover' = IF frame = "request" THEN "dispatched" ELSE takeover
              /\ UNCHANGED awaitFrame
    /\ serverBuffer' = Tail(serverBuffer)
    /\ UNCHANGED <<direction, open, clientVars, toServer, toClient, serverPaused, gate, outbound, held,
                   serving, notices, left>>

Reply(c) ==
    /\ c \in working
    /\ working' = working \ {c}
    /\ outbound' = IF serving THEN Append(outbound, c) ELSE outbound
    /\ UNCHANGED <<direction, open, clientVars, toServer, toClient, serverBuffer, serverPaused, takeover,
                   awaitFrame, gate, held, serving, notices, left>>

\* enqueue_outbound()
Notify ==
    /\ serving /\ notices < MaxNotices
    /\ notices' = notices + 1
    /\ outbound' = Append(outbound, "notice")
    /\ UNCHANGED <<direction, open, clientVars, toServer, toClient, serverBuffer, serverPaused, working,
                   takeover, awaitFrame, gate, held, serving, left>>

\* _begin_transfer() refuses, or _run_transfer() does; or there is a directive.
Negotiate ==
    /\ takeover = "dispatched"
    /\ \/ takeover' = "directed" /\ UNCHANGED outbound
       \/ takeover' = "over" /\ outbound' = Append(outbound, "final")
    /\ UNCHANGED <<direction, open, clientVars, toServer, toClient, serverBuffer, serverPaused, working,
                   awaitFrame, gate, held, serving, notices, left>>

\* Deliberately wrong: ServerStillReading takes the wire over with the transport reading,
\* ServerStillPaused never reads again.
ServerStillReading == UNCHANGED serverPaused
PauseServer == serverPaused' = TRUE
ServerStillPaused == UNCHANGED serverPaused
ResumeServer == serverPaused' = FALSE

\* _run_transfer() up to its first wait: an upload is consumed here, so reading stops
\* before the client is told; a download waits until the client has stopped reading.
StartTransfer ==
    /\ takeover = "directed"
    /\ gate' = FALSE
    /\ toClient' = Append(toClient, "ready")
    /\ IF direction = "UPLOAD"
         THEN PauseServer /\ takeover' = "raw" /\ UNCHANGED awaitFrame
         ELSE awaitFrame' = "waiting" /\ takeover' = "handshake" /\ UNCHANGED serverPaused
    /\ UNCHANGED <<direction, open, clientVars, toServer, serverBuffer, working, outbound, held, serving,
                   notices, left>>

\* The awaited frame is there.  If it is not $/transferGo the transfer ends without a word.
GoReceived ==
    /\ takeover = "handshake" /\ awaitFrame \in Frames
    /\ awaitFrame' = "none"
    /\ IF awaitFrame = "go"
         THEN takeover' = "raw" /\ PauseServer /\ UNCHANGED gate
         ELSE takeover' = "broken" /\ ResumeServer /\ gate' = TRUE
    /\ UNCHANGED <<direction, open, clientVars, toServer, toClient, serverBuffer, working, outbound, held,
                   serving, notices, left>>

ServerStream ==
    /\ takeover = "raw"
    /\ \/ /\ direction = "DOWNLOAD" /\ left > 0
          /\ toClient' = Append(toClient, "raw") /\ left' = left - 1
          /\ UNCHANGED toServer
       \/ /\ direction = "UPLOAD" /\ toServer # <<>> /\ ~Streamed(serverBuffer \o toServer)
          /\ toServer' = Tail(toServer)
          /\ UNCHANGED <<toClient, left>>
    /\ UNCHANGED <<direction, open, clientVars, serverVars>>

\* Deliberately wrong: GateStaysShut forgets the writer.
GateStaysShut == UNCHANGED gate
ReopenGate == gate' = TRUE

\* The callback returns, at the end of the stream or because the connection is gone.
CompleteTransfer ==
    /\ takeover = "raw"
    /\ IF direction = "UPLOAD"
         THEN Streamed(serverBuffer \o toServer) \/ (~open /\ toServer = <<>>)
         ELSE left = 0 \/ ~open
    /\ takeover' = "over"
    /\ ResumeServer
    /\ ReopenGate
    /\ outbound' = Append(outbound, "final")
    /\ UNCHANGED <<direction, open, clientVars, toServer, toClient, serverBuffer, working, awaitFrame, held,
                   serving, notices, left>>

\* _drain_outbound(): one frame at a time, past the gate.
WriterTake ==
    /\ held = "none" /\ outbound # <<>>
    /\ outbound' = Tail(outbound)
    /\ IF gate
         THEN toClient' = Append(toClient, Head(outbound)) /\ UNCHANGED held
         ELSE held' = Head(outbound) /\ UNCHANGED toClient
    /\ UNCHANGED <<direction, open, clientVars, toServer, serverBuffer, serverPaused, working, takeover,
                   awaitFrame, gate, serving, notices, left>>

WriterWake ==
    /\ held # "none" /\ gate
    /\ toClient' = Append(toClient, held)
    /\ held' = "none"
    /\ UNCHANGED <<direction, open, clientVars, toServer, serverBuffer, serverPaused, working, takeover,
                   awaitFrame, gate, outbound, serving, notices, left>>

\* serve() reads the end and calls _close(): the gate opens, a hand-shake under way is
\* cancelled, dispatches are detached.
ServerClose ==
    /\ serving /\ ~open /\ ~serverPaused /\ serverBuffer = <<>>
    /\ serving' = FALSE
    /\ gate' = TRUE
    /\ awaitFrame' = IF awaitFrame = "waiting" THEN "none" ELSE awaitFrame
    /\ takeover' = IF takeover = "dispatched" \/ awaitFrame = "waiting" THEN "broken" ELSE takeover
    /\ UNCHANGED <<direction, open, clientVars, toServer, toClient, serverBuffer, serverPaused, working,
                   outbound, held, notices, left>>

-----------------------------------------------------------------------------

ClientStep ==
    \/ \E c \in Calls : CheckCall(c) \/ SendCall(c)
    \/ BeginTransfer \/ SendRequest \/ ClientReceive \/ ClientRead \/ Prepare \/ StartCallback
    \/ PrepareTimesOut \/ ClientStream \/ ClientFinish \/ ClientLoses

ServerStep ==
    \/ \E c \in Calls : Reply(c)
    \/ ServerReceive \/ ServerRead \/ Notify \/ Negotiate \/ StartTransfer \/ GoReceived
    \/ ServerStream \/ CompleteTransfer \/ WriterTake \/ WriterWake \/ ServerClose

TransferNext == ClientStep \/ ServerStep \/ Lose

TransferSpec == TransferInit /\ [][TransferNext]_vars

\* Loops, workers and callbacks go on; nobody has to begin a call, time out or hang up.
TransferFairness ==
    /\ \A c \in Calls : WF_vars(SendCall(c)) /\ WF_vars(Reply(c))
    /\ WF_vars(SendRequest) /\ WF_vars(ClientReceive) /\ WF_vars(ClientRead) /\ WF_vars(Prepare)
    /\ WF_vars(StartCallback) /\ WF_vars(ClientStream) /\ WF_vars(ClientFinish) /\ WF_vars(ClientLoses)
    /\ WF_vars(ServerReceive) /\ WF_vars(ServerRead) /\ WF_vars(Negotiate) /\ WF_vars(StartTransfer)
    /\ WF_vars(GoReceived) /\ WF_vars(ServerStream) /\ WF_vars(CompleteTransfer)
    /\ WF_vars(WriterTake) /\ WF_vars(WriterWake) /\ WF_vars(ServerClose)

FairTransferSpec == TransferSpec /\ TransferFairness

-----------------------------------------------------------------------------
(* Properties.                                                             *)

\* The hand-shake hands the wire over whole (connection.py: "no stream byte is buffered
\* by asyncio where the fd-owning callback can't reach it"): while the client's callback
\* runs, no byte of the stream is in a stream buffer, and no frame lies before one in the
\* socket, whatever replies and notifications are under way.
\* On a lost connection nothing is promised.
StreamExclusive ==
    stage = "raw" /\ open =>
        /\ ~Contains(clientBuffer \o serverBuffer, "raw")
        /\ \A socket \in {toServer, toClient} :
              \A i, j \in DOMAIN socket : i < j /\ socket[j] = "raw" => socket[i] = "raw"

\* A transfer whose callbacks carry the stream to its end returns to its caller: pause,
\* gate and the order of final result and held notifications leave nobody waiting.
TransferEnds == stage = "begun" ~> ~UnderWay

\* What _transfer_prep()'s cleanup promises of a set-up "failed/cancelled/timed out before
\* the fd reached the caller": it cannot wedge the connection.  The client reads on.
FailedSetupResumes == stage = "failed" /\ open => ~clientPaused

\* A client that dies during the stream does not keep the server's worker: the callback
\* ends, and serve() gets to see the end of the connection.
WorkerReleased == takeover = "raw" /\ ~open ~> ~serving

\* Nothing is promised of a lost connection, nor once the server takes the wire over for a
\* client that has given its transfer up.
Forsaken ==
    ~open \/ (stage = "failed" /\ (takeover \in {"handshake", "raw", "broken"} \/ left # MaxChunks))

\* The writer's gate and the pauses are given back: a call whose request was sent is answered,
\* however its reply and the transfer cross, also when the transfer is refused or given up before
\* the server takes the wire over; unless the wire is Forsaken, or the client given up after its
\* hand-shake and left paused (FailedSetupResumes).
CallsOutliveTransfer ==
    \A c \in Calls :
        call[c] = "sent" ~>
            (call[c] = "answered" \/ Forsaken \/ (stage = "failed" /\ clientPaused))

HeldBy(callback) == IF Forsaken THEN "nobody" ELSE IF callback THEN "callback" ELSE "framing"

\* A client that consumes has let go when it is prepared.
Producer == HeldBy(IF direction = "UPLOAD" THEN stage = "raw" ELSE takeover = "raw")
Consumer == HeldBy(IF direction = "UPLOAD" THEN takeover = "raw" ELSE stage \in {"prepared", "raw"})

Handed == INSTANCE Handover WITH
    producer <- Producer,
    consumer <- Consumer,
    wire     <- IF Forsaken THEN <<>> ELSE IF direction = "UPLOAD" THEN toServer ELSE toClient,
    left     <- IF Forsaken THEN 0 ELSE left

\* The hand-shake with its pauses, the gate and the two loops amount to a wire whose ends
\* change hands in order (Handover): no chunk is read while framing has the consumer's end
\* and no frame while the callback has it, that end is let go before the producer's
\* callback writes, and framing has both back only when every chunk is read.
ImplementsHandover == Handed!Spec

=============================================================================
