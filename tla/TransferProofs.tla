--------------------------- MODULE TransferProofs ---------------------------
(***************************************************************************)
(* What Transfer promises of the hand-shake, proved for any number of      *)
(* calls, notifications and chunks, in both directions.                    *)
(*                                                                         *)
(* The argument is one of silence: from the request on the client sends    *)
(* nothing but its part of the hand-shake, and from $/transferReady on the *)
(* server's gate lets nothing pass, so when a side begins to stream        *)
(* nothing is left before its bytes, and its peer's loop has stopped       *)
(* reading.                                                                *)
(***************************************************************************)
EXTENDS Transfer, TLAPS

Replies == Calls \cup {"notice"}

Only(s, X) == \A i \in 1 .. Len(s) : s[i] \in X

\* x is the last of what lies in a buffer and in the socket behind it.
LastOf(buffer, socket, x, X) ==
    \/ /\ socket # <<>> /\ socket[Len(socket)] = x
       /\ \A i \in 1 .. Len(socket) - 1 : socket[i] \in X
       /\ Only(buffer, X)
    \/ /\ socket = <<>> /\ buffer # <<>> /\ buffer[Len(buffer)] = x
       /\ \A i \in 1 .. Len(buffer) - 1 : buffer[i] \in X

\* A client asks once.
NoRequest(s) == Only(s, Items \ {"request"})
Once(s) == \A i, j \in 1 .. Len(s) : s[i] = "request" /\ s[j] = "request" => i = j

AskedOnce ==
    /\ stage \in {"idle", "begun"} => takeover = "none"
    /\ stage \in {"idle", "begun"} \/ takeover # "none"
          => NoRequest(serverBuffer) /\ NoRequest(toServer)
    /\ Once(serverBuffer) /\ Once(toServer)
    /\ NoRequest(serverBuffer) \/ NoRequest(toServer)

TransferTypeInv == TransferTypeOK /\ AskedOnce

-----------------------------------------------------------------------------
(* What the two sides and the wire between them hold, stage by stage.      *)

NothingToServer == serverBuffer = <<>> /\ toServer = <<>>
NothingToClient == clientBuffer = <<>> /\ toClient = <<>>

\* Nobody has answered, or begun to stream.
Unanswered ==
    /\ gate /\ left = MaxChunks
    /\ Only(clientBuffer, Replies) /\ Only(toClient, Replies) /\ Only(outbound, Replies)
    /\ held \in Replies \cup {"none"}

Before ==
    /\ takeover = "none" /\ Unanswered
    /\ Only(serverBuffer, Calls) /\ Only(toServer, Calls)

Asked ==
    /\ takeover = "none" /\ Unanswered
    /\ LastOf(serverBuffer, toServer, "request", Calls)

Deciding == takeover \in {"dispatched", "directed"} /\ Unanswered /\ NothingToServer

Refused ==
    /\ takeover = "over" /\ NothingToServer
    /\ Only(clientBuffer, Replies \cup {"final"}) /\ Only(toClient, Replies \cup {"final"})
    /\ Only(outbound, Replies \cup {"final"}) /\ held \in Replies \cup {"final", "none"}

\* The server has shut its gate and waits for the client, or for its bytes.
Granted ==
    /\ ~gate /\ left = MaxChunks /\ NothingToServer
    /\ IF direction = "UPLOAD" THEN takeover = "raw"
       ELSE takeover = "handshake" /\ awaitFrame = "waiting"

Answered == Granted /\ LastOf(clientBuffer, toClient, "ready", Replies)

Uploading ==
    /\ serverBuffer = <<>> /\ Only(toServer, {"raw"})
    /\ takeover \in {"raw", "over"}
    /\ takeover = "over" => left = 0 /\ toServer = <<>>
    /\ Only(clientBuffer, Frames) /\ Only(toClient, Frames)

\* A frame is behind the stream, never before.
RawFirst(socket) ==
    \A i, j \in 1 .. Len(socket) : i < j /\ socket[j] = "raw" => socket[i] = "raw"

Downloading ==
    /\ clientPaused /\ clientBuffer = <<>>
    /\ takeover # "over" => ~gate
    /\ takeover = "over" => left = 0
    /\ \/ /\ takeover = "handshake" /\ awaitFrame = "waiting" /\ toClient = <<>>
          /\ LastOf(serverBuffer, toServer, "go", {})
       \/ /\ takeover = "handshake" /\ awaitFrame = "go" /\ toClient = <<>> /\ NothingToServer
       \/ takeover = "raw" /\ Only(toClient, {"raw"}) /\ NothingToServer
       \/ takeover = "over" /\ RawFirst(toClient) /\ NothingToServer

Wire ==
    /\ stage \in {"idle", "begun"} => Before
    /\ stage = "requested" => Asked \/ Deciding \/ Refused \/ Answered
    /\ stage = "ready" => Granted /\ NothingToClient
    /\ stage = "prepared" /\ direction = "UPLOAD" => Granted /\ NothingToClient
    /\ stage = "raw" /\ direction = "UPLOAD" => Uploading
    /\ stage \in {"prepared", "raw"} /\ direction = "DOWNLOAD" => Downloading

Silent == UnderWay => \A c \in Calls : call[c] # "checked"

TransferInv == TransferTypeInv /\ Silent /\ (open => Wire)

-----------------------------------------------------------------------------
(* What lies in a buffer and in the socket behind it.                      *)

LEMMA AppendFacts ==
    ASSUME NEW S, NEW s \in Seq(S), NEW x \in S
    PROVE  /\ Append(s, x) \in Seq(S) /\ Append(s, x) # <<>>
           /\ Len(s) \in Nat /\ Len(Append(s, x)) = Len(s) + 1
           /\ Append(s, x)[Len(s) + 1] = x
           /\ \A i \in 1 .. Len(s) : Append(s, x)[i] = s[i]
  OBVIOUS

LEMMA TailFacts ==
    ASSUME NEW S, NEW s \in Seq(S), s # <<>>
    PROVE  /\ Head(s) = s[1] /\ Head(s) \in S /\ Tail(s) \in Seq(S)
           /\ Len(s) \in Nat \ {0} /\ Len(Tail(s)) = Len(s) - 1
           /\ \A i \in 1 .. Len(s) - 1 : Tail(s)[i] = s[i + 1]
           /\ (Tail(s) = <<>>) = (Len(s) = 1)
  <1>1. Len(s) \in Nat /\ Len(s) # 0 /\ s \in [1 .. Len(s) -> S]
    OBVIOUS
  <1>2. Head(s) = s[1] /\ Head(s) \in S
    BY <1>1
  <1>3. Tail(s) \in Seq(S) /\ Len(Tail(s)) = Len(s) - 1
    OBVIOUS
  <1>4. \A i \in 1 .. Len(s) - 1 : Tail(s)[i] = s[i + 1]
    OBVIOUS
  <1>5. (Tail(s) = <<>>) = (Len(s) = 1)
    BY <1>1, <1>3
  <1>6. QED
    BY <1>1, <1>2, <1>3, <1>4, <1>5

LEMMA OnlyAppend ==
    ASSUME NEW S, NEW s \in Seq(S), NEW X, NEW x \in S, x \in X, Only(s, X)
    PROVE  Only(Append(s, x), X)
  <1>1. /\ Len(s) \in Nat /\ Len(Append(s, x)) = Len(s) + 1
        /\ Append(s, x)[Len(s) + 1] = x
        /\ \A i \in 1 .. Len(s) : Append(s, x)[i] = s[i]
    BY AppendFacts
  <1>2. QED
    BY <1>1 DEF Only

LEMMA OnlyTail ==
    ASSUME NEW S, NEW s \in Seq(S), s # <<>>, NEW X, Only(s, X)
    PROVE  Head(s) \in X /\ Only(Tail(s), X)
  BY TailFacts DEF Only

LEMMA LastSend ==
    ASSUME NEW S, NEW buffer \in Seq(S), NEW socket \in Seq(S), NEW x \in S, NEW X,
           Only(buffer, X), Only(socket, X)
    PROVE  LastOf(buffer, Append(socket, x), x, X)
  <1>1. /\ Len(socket) \in Nat /\ Len(Append(socket, x)) = Len(socket) + 1
        /\ Append(socket, x)[Len(socket) + 1] = x /\ Append(socket, x) # <<>>
        /\ \A i \in 1 .. Len(socket) : Append(socket, x)[i] = socket[i]
    BY AppendFacts
  <1>2. QED
    BY <1>1 DEF Only, LastOf

LEMMA LastReceive ==
    ASSUME NEW S, NEW buffer \in Seq(S), NEW socket \in Seq(S), NEW x, NEW X,
           LastOf(buffer, socket, x, X), socket # <<>>
    PROVE  LastOf(Append(buffer, Head(socket)), Tail(socket), x, X)
  <1>1. /\ socket[Len(socket)] = x /\ Only(buffer, X)
        /\ \A i \in 1 .. Len(socket) - 1 : socket[i] \in X
    BY DEF LastOf
  <1>2. /\ Head(socket) = socket[1] /\ Head(socket) \in S /\ Tail(socket) \in Seq(S)
        /\ Len(socket) \in Nat \ {0} /\ Len(Tail(socket)) = Len(socket) - 1
        /\ \A i \in 1 .. Len(socket) - 1 : Tail(socket)[i] = socket[i + 1]
        /\ (Tail(socket) = <<>>) = (Len(socket) = 1)
    BY TailFacts
  <1>3. /\ Append(buffer, Head(socket)) # <<>> /\ Len(buffer) \in Nat
        /\ Len(Append(buffer, Head(socket))) = Len(buffer) + 1
        /\ Append(buffer, Head(socket))[Len(buffer) + 1] = Head(socket)
        /\ \A i \in 1 .. Len(buffer) : Append(buffer, Head(socket))[i] = buffer[i]
    BY <1>2, AppendFacts
  <1>4. CASE Len(socket) = 1
    BY <1>1, <1>2, <1>3, <1>4 DEF LastOf, Only
  <1>5. CASE Len(socket) > 1
    <2>1. /\ Tail(socket) # <<>> /\ Tail(socket)[Len(Tail(socket))] = x
          /\ \A i \in 1 .. Len(Tail(socket)) - 1 : Tail(socket)[i] \in X
      BY <1>1, <1>2, <1>5
    <2>2. Head(socket) \in X
      BY <1>1, <1>2, <1>5
    <2>3. Only(Append(buffer, Head(socket)), X)
      BY <1>1, <1>2, <2>2, OnlyAppend
    <2>4. QED
      BY <2>1, <2>3 DEF LastOf
  <1>6. QED
    BY <1>2, <1>4, <1>5

LEMMA LastRead ==
    ASSUME NEW S, NEW buffer \in Seq(S), NEW socket \in Seq(S), NEW x, NEW X,
           LastOf(buffer, socket, x, X), buffer # <<>>
    PROVE  \/ Head(buffer) = x /\ Tail(buffer) = <<>> /\ socket = <<>>
           \/ Head(buffer) \in X /\ LastOf(Tail(buffer), socket, x, X)
  <1>1. /\ Head(buffer) = buffer[1] /\ Len(buffer) \in Nat \ {0}
        /\ Len(Tail(buffer)) = Len(buffer) - 1
        /\ \A i \in 1 .. Len(buffer) - 1 : Tail(buffer)[i] = buffer[i + 1]
        /\ (Tail(buffer) = <<>>) = (Len(buffer) = 1)
    BY TailFacts
  <1>2. CASE socket # <<>>
    BY <1>2, OnlyTail DEF LastOf
  <1>3. CASE socket = <<>> /\ Len(buffer) = 1
    BY <1>1, <1>3 DEF LastOf
  <1>4. CASE socket = <<>> /\ Len(buffer) > 1
    BY <1>1, <1>4 DEF LastOf
  <1>5. QED
    BY <1>1, <1>2, <1>3, <1>4

-----------------------------------------------------------------------------
(* Type correctness.                                                       *)

LEMMA OnceAppend ==
    ASSUME NEW s \in Seq(Items), Once(s), NEW x \in Items, NoRequest(s) \/ x # "request"
    PROVE  Once(Append(s, x)) /\ (NoRequest(s) /\ x # "request" => NoRequest(Append(s, x)))
  <1>1. /\ Len(s) \in Nat /\ Len(Append(s, x)) = Len(s) + 1
        /\ Append(s, x)[Len(s) + 1] = x
        /\ \A i \in 1 .. Len(s) : Append(s, x)[i] = s[i]
    BY AppendFacts
  <1>2. QED
    BY <1>1 DEF Once, NoRequest, Only

LEMMA OnceTail ==
    ASSUME NEW s \in Seq(Items), Once(s), s # <<>>
    PROVE  /\ Once(Tail(s))
           /\ Head(s) = "request" => NoRequest(Tail(s))
           /\ NoRequest(s) => NoRequest(Tail(s)) /\ Head(s) # "request"
  <1>1. /\ Head(s) = s[1] /\ Len(s) \in Nat \ {0} /\ Len(Tail(s)) = Len(s) - 1
        /\ \A i \in 1 .. Len(s) - 1 : Tail(s)[i] = s[i + 1]
        /\ \A i \in 1 .. Len(s) : s[i] \in Items
    BY TailFacts
  <1>2. QED
    BY <1>1 DEF Once, NoRequest, Only

LEMMA ClientFrame ==
    ASSUME UNCHANGED clientVars
    PROVE  /\ stage' = stage /\ call' = call
           /\ clientPaused' = clientPaused /\ clientBuffer' = clientBuffer
  BY DEF clientVars

LEMMA ServerFrame ==
    ASSUME UNCHANGED serverVars
    PROVE  /\ serverBuffer' = serverBuffer /\ serverPaused' = serverPaused
           /\ working' = working /\ takeover' = takeover /\ awaitFrame' = awaitFrame
           /\ gate' = gate /\ outbound' = outbound /\ held' = held /\ serving' = serving
           /\ notices' = notices
  BY DEF serverVars

LEMMA TransferTypeInit == TransferInit => TransferTypeInv
  <1>1. ASSUME TransferInit PROVE TransferTypeOK
    <2>1. left \in 0 .. MaxChunks /\ notices \in 0 .. MaxNotices /\ direction \in Directions
      BY <1>1, TransferAssumption DEF TransferInit
    <2>2. call \in [Calls -> {"idle", "checked", "sent", "answered", "failed"}]
      BY <1>1 DEF TransferInit
    <2>3. \A S : <<>> \in Seq(S)
      OBVIOUS
    <2>4. /\ clientBuffer \in Seq(Items) /\ toClient \in Seq(Items)
          /\ serverBuffer \in Seq(Items) /\ toServer \in Seq(Items)
          /\ outbound \in Seq(Frames)
      BY <1>1, <2>3 DEF TransferInit
    <2>5. QED
      BY <1>1, <2>1, <2>2, <2>4 DEF TransferInit, TransferTypeOK, Stages
  <1>2. ASSUME TransferInit PROVE AskedOnce
    BY <1>2 DEF TransferInit, AskedOnce, NoRequest, Once, Only
  <1>3. QED
    BY <1>1, <1>2 DEF TransferTypeInv

LEMMA SeqTypes ==
    ASSUME NEW S
    PROVE  /\ \A s \in Seq(S), x \in S : Append(s, x) \in Seq(S)
           /\ \A s \in Seq(S) : s # <<>> => Head(s) \in S /\ Tail(s) \in Seq(S)
  BY AppendFacts, TailFacts

LEMMA Names ==
    /\ Frames \subseteq Items /\ Calls \subseteq Frames
    /\ {"request", "go", "ready", "final", "notice"} \subseteq Frames
    /\ "raw" \notin Frames /\ "none" \notin Frames /\ "waiting" \notin Frames
    /\ \A x \in {"request", "go", "ready", "final", "notice", "raw"} : x \notin Calls
  BY TransferAssumption DEF Frames, Items

LEMMA RawItem == "raw" \in Items
  BY DEF Items

LEMMA TypeClient ==
    ASSUME TransferTypeInv, ClientStep \/ Lose
    PROVE  TransferTypeOK'
  <1> USE ClientFrame, ServerFrame DEF TransferTypeInv, TransferTypeOK
  <1>1. ASSUME NEW c \in Calls, CheckCall(c) \/ SendCall(c) PROVE TransferTypeOK'
    <2>1. call' \in [Calls -> {"idle", "checked", "sent", "answered", "failed"}]
      BY <1>1 DEF CheckCall, SendCall
    <2>2. c \in Items
      BY Names
    <2>3. CASE CheckCall(c)
      BY <2>1, <2>3 DEF CheckCall
    <2>4. CASE SendCall(c)
      BY <2>1, <2>2, <2>4 DEF SendCall
    <2>5. QED
      BY <1>1, <2>3, <2>4
  <1>2. CASE BeginTransfer \/ StartCallback
    BY <1>2 DEF BeginTransfer, StartCallback, Stages
  <1>3. CASE ClientReceive
    <2>1. clientBuffer' \in Seq(Items) /\ toClient' \in Seq(Items)
      BY <1>3, SeqTypes DEF ClientReceive
    <2>2. QED
      BY <1>3, <2>1 DEF ClientReceive
  <1>4. CASE ClientRead
    <2>1. stage' \in Stages
      BY <1>4 DEF ClientRead, Stages
    <2>2. call' \in [Calls -> {"idle", "checked", "sent", "answered", "failed"}]
      BY <1>4 DEF ClientRead
    <2>3. QED
      BY <1>4, <2>1, <2>2 DEF ClientRead
  <1>5. CASE Prepare
    BY <1>5, Names DEF Prepare, PauseClient, Stages
  <1>6. CASE PrepareTimesOut
    BY <1>6 DEF PrepareTimesOut, Stages
  <1>7. CASE ClientStream
    <2>1. left' \in 0 .. MaxChunks
      BY <1>7, TransferAssumption DEF ClientStream
    <2>2. CASE toServer' = Append(toServer, "raw") /\ UNCHANGED toClient
      BY <1>7, <2>1, <2>2, RawItem DEF ClientStream
    <2>3. CASE toClient # <<>> /\ toClient' = Tail(toClient) /\ UNCHANGED toServer
      BY <1>7, <2>1, <2>3, SeqTypes DEF ClientStream
    <2>4. QED
      BY <1>7, <2>2, <2>3 DEF ClientStream
  <1>8. CASE ClientFinish
    BY <1>8 DEF ClientFinish, ResumeClient, Stages
  <1>9. CASE ClientLoses \/ Lose
    <2>1. stage' \in Stages /\ open' \in BOOLEAN
      BY <1>9 DEF ClientLoses, Lose, Stages
    <2>2. call' \in [Calls -> {"idle", "checked", "sent", "answered", "failed"}]
      BY <1>9 DEF ClientLoses, Lose
    <2>3. QED
      BY <1>9, <2>1, <2>2 DEF ClientLoses, Lose
  <1>10. CASE SendRequest
    BY <1>10, Names DEF SendRequest, Stages, Items
  <1>11. QED
    BY <1>1, <1>2, <1>3, <1>4, <1>5, <1>6, <1>7, <1>8, <1>9, <1>10 DEF ClientStep

LEMMA TypeServer ==
    ASSUME TransferTypeInv, ServerStep
    PROVE  TransferTypeOK'
  <1> USE ClientFrame, ServerFrame DEF TransferTypeInv, TransferTypeOK
  <1>1. ASSUME NEW c \in Calls, Reply(c) PROVE TransferTypeOK'
    BY <1>1, Names, SeqTypes DEF Reply
  <1>2. CASE ServerReceive
    <2>1. serverBuffer' \in Seq(Items) /\ toServer' \in Seq(Items)
      BY <1>2, SeqTypes DEF ServerReceive
    <2>2. QED
      BY <1>2, <2>1 DEF ServerReceive
  <1>3. CASE ServerRead
    <2>1. Head(serverBuffer) \in Frames /\ serverBuffer # <<>> /\ Tail(serverBuffer) \in Seq(Items)
      BY <1>3 DEF ServerRead
    <2>2. CASE awaitFrame = "waiting"
      BY <1>3, <2>1, <2>2 DEF ServerRead
    <2>3. CASE awaitFrame # "waiting"
      <3>1. takeover' # takeover => takeover' = "dispatched" /\ awaitFrame = "none"
        BY <1>3, <2>1, <2>3, OnceTail DEF ServerRead, AskedOnce
      <3>2. QED
        BY <1>3, <2>1, <2>3, <3>1 DEF ServerRead
    <2>4. QED
      BY <2>2, <2>3
  <1>4. CASE Notify
    BY <1>4, Names, TransferAssumption DEF Notify
  <1>11. CASE Negotiate
    <2>1. CASE UNCHANGED outbound
      BY <1>11, <2>1 DEF Negotiate
    <2>2. CASE outbound' = Append(outbound, "final")
      BY <1>11, <2>2, Names DEF Negotiate
    <2>3. QED
      BY <1>11, <2>1, <2>2 DEF Negotiate
  <1>5. CASE StartTransfer
    <2>1. toClient' \in Seq(Items)
      BY <1>5, Names, SeqTypes DEF StartTransfer
    <2>2. QED
      BY <1>5, <2>1 DEF StartTransfer, PauseServer
  <1>6. CASE GoReceived
    BY <1>6, Names DEF GoReceived, PauseServer, ResumeServer
  <1>7. CASE ServerStream
    <2>1. left' \in 0 .. MaxChunks
      BY <1>7, TransferAssumption DEF ServerStream
    <2>2. CASE toClient' = Append(toClient, "raw") /\ UNCHANGED toServer
      BY <1>7, <2>1, <2>2, RawItem DEF ServerStream
    <2>3. CASE toServer # <<>> /\ toServer' = Tail(toServer) /\ UNCHANGED toClient
      BY <1>7, <2>1, <2>3, SeqTypes DEF ServerStream
    <2>4. QED
      BY <1>7, <2>2, <2>3 DEF ServerStream
  <1>8. CASE CompleteTransfer
    <2>1. outbound' \in Seq(Frames)
      BY <1>8, Names, SeqTypes DEF CompleteTransfer
    <2>2. QED
      BY <1>8, <2>1 DEF CompleteTransfer, ResumeServer, ReopenGate
  <1>9. CASE WriterTake \/ WriterWake
    <2>1. outbound' \in Seq(Frames)
      BY <1>9, SeqTypes DEF WriterTake, WriterWake
    <2>2. CASE WriterTake
      <3>1. Head(outbound) \in Frames /\ Head(outbound) \in Items
        BY <2>2, SeqTypes, Names DEF WriterTake
      <3>2. CASE gate
        <4>1. toClient' = Append(toClient, Head(outbound)) /\ held' = held
          BY <2>2, <3>2 DEF WriterTake
        <4>2. toClient' \in Seq(Items)
          BY <3>1, <4>1, SeqTypes
        <4>3. QED
          BY <2>1, <2>2, <4>1, <4>2 DEF WriterTake
      <3>3. CASE ~gate
        BY <2>1, <2>2, <3>1, <3>3 DEF WriterTake
      <3>4. QED
        BY <3>2, <3>3
    <2>3. CASE WriterWake
      <3>1. held \in Items
        BY <2>3, Names DEF WriterWake
      <3>2. toClient' \in Seq(Items)
        BY <2>3, <3>1 DEF WriterWake
      <3>3. QED
        BY <2>1, <2>3, <3>2 DEF WriterWake
    <2>4. QED
      BY <1>9, <2>2, <2>3
  <1>10. CASE ServerClose
    BY <1>10 DEF ServerClose
  <1>12. QED
    BY <1>1, <1>2, <1>3, <1>4, <1>5, <1>6, <1>7, <1>8, <1>9, <1>10, <1>11 DEF ServerStep

LEMMA OnceStep ==
    ASSUME TransferTypeInv, TransferNext
    PROVE  AskedOnce'
  <1> USE ClientFrame, ServerFrame DEF TransferTypeInv, TransferTypeOK
  <1>1. ASSUME UNCHANGED <<serverBuffer, toServer>>, takeover = "none" => takeover' = "none",
               stage' \in {"idle", "begun"} => stage \in {"idle", "begun"}
        PROVE  AskedOnce'
    BY <1>1 DEF AskedOnce
  <1>2. ASSUME NEW x \in Items \ {"request"}, toServer' = Append(toServer, x),
               UNCHANGED <<serverBuffer, takeover>>,
               stage' \in {"idle", "begun"} => stage \in {"idle", "begun"}
        PROVE  AskedOnce'
    BY <1>2, OnceAppend DEF AskedOnce
  <1>3. ASSUME toServer # <<>>, toServer' = Tail(toServer),
               UNCHANGED <<serverBuffer, takeover, stage>>
        PROVE  AskedOnce'
    BY <1>3, OnceTail DEF AskedOnce
  <1>4. ASSUME NEW c \in Calls, SendCall(c) PROVE AskedOnce'
    BY <1>2, <1>4, Names DEF SendCall
  <1>5. CASE SendRequest
    BY <1>5, OnceAppend, Names DEF SendRequest, AskedOnce
  <1>6. CASE Prepare
    BY <1>1, <1>2, <1>6, Names DEF Prepare
  <1>7. CASE ClientStream
    <2>1. "raw" \in Items \ {"request"}
      BY DEF Items
    <2>2. QED
      BY <1>1, <1>2, <1>7, <2>1 DEF ClientStream
  <1>8. CASE ClientRead
    <2>1. stage' \in {"idle", "begun"} => stage \in {"idle", "begun"}
      BY <1>8 DEF ClientRead
    <2>2. QED
      BY <1>1, <1>8, <2>1 DEF ClientRead
  <1>9. CASE ServerReceive
    <2>1. /\ toServer # <<>> /\ serverBuffer' = Append(serverBuffer, Head(toServer))
          /\ toServer' = Tail(toServer) /\ UNCHANGED <<takeover, stage>>
      BY <1>9 DEF ServerReceive
    <2>2. Head(toServer) \in Items
      BY <2>1
    <2>3. /\ Once(Tail(toServer))
          /\ Head(toServer) = "request" => NoRequest(Tail(toServer)) /\ ~NoRequest(toServer)
          /\ NoRequest(toServer) => NoRequest(Tail(toServer)) /\ Head(toServer) # "request"
      BY <2>1, OnceTail DEF AskedOnce
    <2>4. /\ Once(Append(serverBuffer, Head(toServer)))
          /\ NoRequest(serverBuffer) /\ Head(toServer) # "request"
                => NoRequest(Append(serverBuffer, Head(toServer)))
      BY <2>2, <2>3, OnceAppend DEF AskedOnce
    <2>5. QED
      BY <2>1, <2>3, <2>4 DEF AskedOnce
  <1>10. CASE ServerRead
    <2>1. /\ serverBuffer # <<>> /\ serverBuffer' = Tail(serverBuffer)
          /\ UNCHANGED <<toServer, stage>>
          /\ takeover' # takeover => takeover' = "dispatched" /\ Head(serverBuffer) = "request"
      BY <1>10 DEF ServerRead
    <2>2. QED
      BY <2>1, OnceTail DEF AskedOnce
  <1>11. CASE ServerStream
    BY <1>1, <1>3, <1>11 DEF ServerStream
  <1>12. CASE \/ \E c \in Calls : CheckCall(c) \/ Reply(c)
              \/ BeginTransfer \/ ClientReceive \/ StartCallback \/ PrepareTimesOut
              \/ ClientFinish \/ ClientLoses \/ Lose \/ Notify \/ WriterTake \/ WriterWake
    BY <1>1, <1>12
    DEF CheckCall, Reply, BeginTransfer, ClientReceive, StartCallback, PrepareTimesOut,
        ClientFinish, ClientLoses, UnderWay, Lose, Notify, WriterTake, WriterWake
  <1>13. CASE Negotiate \/ StartTransfer \/ GoReceived \/ CompleteTransfer \/ ServerClose
    BY <1>1, <1>13 DEF Negotiate, StartTransfer, GoReceived, CompleteTransfer, ServerClose
  <1>14. QED
    BY <1>4, <1>5, <1>6, <1>7, <1>8, <1>9, <1>10, <1>11, <1>12, <1>13
    DEF TransferNext, ClientStep, ServerStep

LEMMA TransferTypeStep ==
    ASSUME TransferTypeInv, [TransferNext]_vars
    PROVE  TransferTypeInv'
  <1>1. CASE TransferNext
    BY <1>1, TypeClient, TypeServer, OnceStep DEF TransferNext, TransferTypeInv
  <1>2. CASE UNCHANGED vars
    BY <1>2 DEF vars, clientVars, serverVars, TransferTypeInv, TransferTypeOK, AskedOnce
  <1>3. QED
    BY <1>1, <1>2

\* Both sides keep their types, also after a time-out or a loss: one transfer is asked for
\* once, only a hand-shake awaits a frame, and the server streams with its loop paused.
THEOREM TransferTypeCorrect == TransferSpec => []TransferTypeOK
  <1>1. TransferTypeInv => TransferTypeOK
    BY DEF TransferTypeInv
  <1>2. QED
    BY <1>1, TransferTypeInit, TransferTypeStep, PTL DEF TransferSpec

-----------------------------------------------------------------------------
(* The wire, action by action.                                             *)

LEMMA SilentStep ==
    ASSUME Serial, TransferTypeInv, Silent, TransferNext
    PROVE  Silent'
  <1> USE ClientFrame DEF TransferTypeInv, TransferTypeOK, Silent, UnderWay
  <1>1. ASSUME NEW c \in Calls, CheckCall(c) \/ SendCall(c) PROVE Silent'
    BY <1>1 DEF CheckCall, SendCall
  <1>2. CASE ClientRead
    <2>1. stage' # stage => UnderWay
      BY <1>2 DEF ClientRead
    <2>2. \A c \in Calls : call'[c] = "checked" => call[c] = "checked"
      BY <1>2 DEF ClientRead
    <2>3. stage \in {"done", "failed", "idle"} => stage' = stage
      BY <2>1
    <2>4. QED
      BY <2>2, <2>3
  <1>3. CASE BeginTransfer
    BY <1>3 DEF BeginTransfer
  <1>4. CASE SendRequest \/ ClientReceive \/ Prepare \/ StartCallback \/ PrepareTimesOut
             \/ ClientStream \/ ClientFinish
    BY <1>4
    DEF SendRequest, ClientReceive, Prepare, StartCallback, PrepareTimesOut, ClientStream,
        ClientFinish
  <1>5. CASE ClientLoses \/ Lose
    BY <1>5 DEF ClientLoses, Lose
  <1>6. ASSUME ServerStep PROVE UNCHANGED clientVars
    BY <1>6
    DEF ServerStep, Reply, ServerReceive, ServerRead, Notify, Negotiate, StartTransfer,
        GoReceived, ServerStream, CompleteTransfer, WriterTake, WriterWake, ServerClose
  <1>7. QED
    BY <1>1, <1>2, <1>3, <1>4, <1>5, <1>6 DEF TransferNext, ClientStep

\* A client that makes calls, asks, or gets its fd.
LEMMA WireAsk ==
    ASSUME TransferTypeInv, Silent, Wire,
           \/ \E c \in Calls : CheckCall(c) \/ SendCall(c)
           \/ BeginTransfer \/ SendRequest \/ Prepare \/ StartCallback
    PROVE  Wire'
  <1> USE ServerFrame DEF TransferTypeInv, TransferTypeOK, Unanswered, NothingToServer
  <1>1. ASSUME NEW c \in Calls, CheckCall(c) PROVE Wire'
    BY <1>1
    DEF CheckCall, Wire, Before, Asked, Deciding, Refused, Answered, Granted, NothingToClient,
        Uploading, Downloading
  <1>2. ASSUME NEW c \in Calls, SendCall(c) PROVE Wire'
    <2>1. stage \in {"idle", "done", "failed"}
      BY <1>2 DEF SendCall, Silent, UnderWay
    <2>2. Only(toServer, Calls) => Only(Append(toServer, c), Calls)
      BY Names, OnlyAppend
    <2>3. QED
      BY <1>2, <2>1, <2>2 DEF SendCall, Wire, Before
  <1>3. CASE BeginTransfer
    BY <1>3 DEF BeginTransfer, Wire, Before
  <1>4. CASE SendRequest
    <2>1. Before => LastOf(serverBuffer, Append(toServer, "request"), "request", Calls)
      BY Names, LastSend DEF Before
    <2>2. QED
      BY <1>4, <2>1 DEF SendRequest, Wire, Before, Asked
  <1>5. CASE Prepare
    <2>1. toServer = <<>> => Append(toServer, "go") = <<"go">>
      OBVIOUS
    <2>2. LastOf(<<>>, <<"go">>, "go", {})
      BY DEF LastOf, Only
    <2>3. /\ stage = "ready" /\ stage' = "prepared" /\ clientPaused'
          /\ UNCHANGED <<direction, clientBuffer, toClient, serverVars, left>>
          /\ direction = "UPLOAD" => toServer' = toServer
          /\ direction = "DOWNLOAD" => toServer' = Append(toServer, "go")
      BY <1>5 DEF Prepare, PauseClient
    <2>4. Granted /\ NothingToClient
      BY <2>3 DEF Wire
    <2>5. CASE direction = "UPLOAD"
      BY <2>3, <2>4, <2>5 DEF Wire, Granted, NothingToClient
    <2>6. CASE direction = "DOWNLOAD"
      <3>1. Downloading'
        BY <2>1, <2>2, <2>3, <2>4, <2>6 DEF Granted, NothingToClient, Downloading
      <3>2. QED
        BY <2>3, <2>6, <3>1 DEF Wire
    <2>7. QED
      BY <2>5, <2>6, TransferAssumption
  <1>6. CASE StartCallback
    <2>1. Only(<<>>, {"raw"}) /\ Only(<<>>, Frames)
      BY DEF Only
    <2>2. QED
      BY <1>6, <2>1 DEF StartCallback, Wire, Granted, NothingToClient, Uploading, Downloading
  <1>7. QED
    BY <1>1, <1>2, <1>3, <1>4, <1>5, <1>6

LEMMA WireClientReceive ==
    ASSUME TransferTypeInv, Wire, ClientReceive
    PROVE  Wire'
  <1> USE ServerFrame DEF TransferTypeInv, TransferTypeOK, NothingToServer
  <1>1. /\ ~clientPaused /\ toClient # <<>> /\ clientBuffer' = Append(clientBuffer, Head(toClient))
        /\ toClient' = Tail(toClient)
        /\ UNCHANGED <<direction, open, stage, clientPaused, toServer, left>>
        /\ UNCHANGED serverVars
    BY DEF ClientReceive
  <1>2. Head(toClient) \in Items
    BY <1>1, SeqTypes
  <1>3. ASSUME NEW X, Only(clientBuffer, X), Only(toClient, X)
        PROVE  Only(clientBuffer', X) /\ Only(toClient', X)
    BY <1>1, <1>2, <1>3, OnlyTail, OnlyAppend
  <1>4. ASSUME LastOf(clientBuffer, toClient, "ready", Replies)
        PROVE  LastOf(clientBuffer', toClient', "ready", Replies)
    BY <1>1, <1>4, LastReceive
  <1>5. Unanswered => Unanswered'
    BY <1>1, <1>3 DEF Unanswered
  <1>6. CASE stage \in {"idle", "begun"}
    BY <1>1, <1>5, <1>6 DEF Wire, Before
  <1>7. CASE stage = "requested"
    <2>1. Asked \/ Deciding => Asked' \/ Deciding'
      BY <1>1, <1>5 DEF Asked, Deciding
    <2>2. Refused => Refused'
      BY <1>1, <1>3 DEF Refused
    <2>3. Answered => Answered'
      BY <1>1, <1>4 DEF Answered, Granted
    <2>4. QED
      BY <1>1, <1>7, <2>1, <2>2, <2>3 DEF Wire
  <1>8. CASE stage = "raw" /\ direction = "UPLOAD"
    BY <1>1, <1>3, <1>8 DEF Wire, Uploading
  <1>9. QED
    BY <1>1, <1>6, <1>7, <1>8, TransferAssumption DEF Wire, NothingToClient, Downloading

LEMMA WireClientRead ==
    ASSUME TransferTypeInv, Wire, ClientRead
    PROVE  Wire'
  <1> USE ServerFrame DEF TransferTypeInv, TransferTypeOK, NothingToServer
  <1> DEFINE frame == Head(clientBuffer)
  <1>1. /\ clientBuffer # <<>> /\ clientBuffer' = Tail(clientBuffer)
        /\ UNCHANGED <<direction, open, clientPaused, toServer, toClient, left>>
        /\ UNCHANGED serverVars
    BY DEF ClientRead
  <1>2. /\ stage # "requested" => stage' = stage \/ (stage' = "done" /\ stage = "finishing")
        /\ stage = "requested" =>
              \/ frame = "ready" /\ stage' = "ready"
              \/ frame = "final" /\ stage' = "failed"
              \/ frame # "ready" /\ stage' = "requested"
    <2>1. \/ frame = "ready" /\ stage = "requested" /\ stage' = "ready"
          \/ frame = "final" /\ stage = "requested" /\ stage' = "failed"
          \/ frame = "final" /\ stage = "finishing" /\ stage' = "done"
          \/ (frame = "ready" => stage # "requested") /\ stage' = stage
      BY DEF ClientRead
    <2>2. CASE stage = "requested"
      BY <2>1, <2>2
    <2>3. CASE stage # "requested"
      BY <2>1, <2>3
    <2>4. QED
      BY <2>2, <2>3
  <1>3. ASSUME NEW X, Only(clientBuffer, X)
        PROVE  frame \in X /\ Only(clientBuffer', X)
    BY <1>1, <1>3, OnlyTail
  <1>4. Unanswered => Unanswered' /\ frame \in Replies
    BY <1>1, <1>3 DEF Unanswered
  <1>5. "ready" \notin Replies /\ "final" \notin Replies
    BY Names DEF Replies
  <1>6. CASE stage \in {"idle", "begun"}
    BY <1>1, <1>2, <1>4, <1>6 DEF Wire, Before
  <1>7. CASE stage = "requested"
    <2>1. Asked \/ Deciding => (Asked' \/ Deciding') /\ stage' = "requested"
      BY <1>1, <1>2, <1>4, <1>5, <1>7 DEF Asked, Deciding
    <2>2. Refused => Refused' /\ stage' \in {"requested", "failed"}
      BY <1>1, <1>2, <1>3, <1>5, <1>7 DEF Refused
    <2>3. ASSUME Answered
          PROVE  \/ Answered' /\ stage' = "requested"
                 \/ Granted' /\ NothingToClient' /\ stage' = "ready"
      <3>1. Granted' /\ LastOf(clientBuffer, toClient, "ready", Replies)
        BY <1>1, <2>3 DEF Answered, Granted
      <3>2. CASE frame = "ready" /\ clientBuffer' = <<>> /\ toClient' = <<>>
        BY <1>2, <1>7, <3>1, <3>2 DEF NothingToClient
      <3>3. CASE frame \in Replies /\ LastOf(clientBuffer', toClient', "ready", Replies)
        BY <1>2, <1>5, <1>7, <3>1, <3>3 DEF Answered
      <3>4. QED
        BY <1>1, <3>1, <3>2, <3>3, LastRead
    <2>4. QED
      BY <1>7, <2>1, <2>2, <2>3 DEF Wire
  <1>8. CASE stage = "raw" /\ direction = "UPLOAD"
    BY <1>1, <1>2, <1>3, <1>8 DEF Wire, Uploading
  <1>9. QED
    BY <1>1, <1>2, <1>6, <1>7, <1>8, TransferAssumption DEF Wire, NothingToClient, Downloading

LEMMA RawFacts ==
    ASSUME NEW s \in Seq(Items)
    PROVE  /\ Only(s, {"raw"}) => RawFirst(s)
           /\ \A x \in Items \ {"raw"} : RawFirst(s) => RawFirst(Append(s, x))
           /\ RawFirst(s) /\ s # <<>> => RawFirst(Tail(s))
  <1>1. Only(s, {"raw"}) => RawFirst(s)
    BY DEF Only, RawFirst
  <1>2. ASSUME NEW x \in Items \ {"raw"}, RawFirst(s) PROVE RawFirst(Append(s, x))
    <2>1. /\ Len(s) \in Nat /\ Len(Append(s, x)) = Len(s) + 1
          /\ Append(s, x)[Len(s) + 1] = x
          /\ \A i \in 1 .. Len(s) : Append(s, x)[i] = s[i]
      BY AppendFacts
    <2>2. QED
      BY <1>2, <2>1 DEF RawFirst
  <1>3. ASSUME RawFirst(s), s # <<>> PROVE RawFirst(Tail(s))
    <2>1. /\ Len(s) \in Nat \ {0} /\ Len(Tail(s)) = Len(s) - 1
          /\ \A i \in 1 .. Len(s) - 1 : Tail(s)[i] = s[i + 1]
      BY <1>3, TailFacts
    <2>2. QED
      BY <1>3, <2>1 DEF RawFirst
  <1>4. QED
    BY <1>1, <1>2, <1>3

LEMMA LoneFrame ==
    ASSUME NEW buffer \in Seq(Items), NEW socket \in Seq(Items), LastOf(buffer, socket, "go", {})
    PROVE  ~Contains(buffer, "raw") /\ RawFirst(socket)
  <1>1. Len(buffer) \in Nat /\ Len(socket) \in Nat
    OBVIOUS
  <1>2. CASE socket # <<>>
    <2>1. /\ socket[Len(socket)] = "go" /\ \A i \in 1 .. Len(socket) - 1 : FALSE
          /\ \A i \in 1 .. Len(buffer) : FALSE
      BY <1>2 DEF LastOf, Only
    <2>2. QED
      BY <1>1, <2>1 DEF Contains, RawFirst
  <1>3. CASE socket = <<>>
    <2>1. buffer[Len(buffer)] = "go" /\ \A i \in 1 .. Len(buffer) - 1 : FALSE
      BY <1>3 DEF LastOf
    <2>2. \A i \in 1 .. Len(buffer) : i = Len(buffer)
      BY <1>1, <2>1
    <2>3. ~Contains(buffer, "raw")
      BY <2>1, <2>2 DEF Contains
    <2>4. QED
      BY <1>3, <2>3 DEF RawFirst
  <1>4. QED
    BY <1>2, <1>3

LEMMA WireStream ==
    ASSUME TransferTypeInv, Wire, ClientStream \/ ServerStream
    PROVE  Wire'
  <1> USE ClientFrame, ServerFrame DEF TransferTypeInv, TransferTypeOK, NothingToServer
  <1>1. UNCHANGED <<direction, open>> /\ UNCHANGED clientVars /\ UNCHANGED serverVars
    BY DEF ClientStream, ServerStream
  <1>2. CASE ClientStream /\ direction = "UPLOAD"
    <2>1. /\ stage = "raw" /\ left > 0 /\ toServer' = Append(toServer, "raw")
          /\ UNCHANGED toClient
      BY <1>2 DEF ClientStream
    <2>2. Only(toServer, {"raw"}) => Only(toServer', {"raw"})
      BY <2>1, RawItem, OnlyAppend
    <2>3. QED
      BY <1>1, <1>2, <2>1, <2>2 DEF Wire, Uploading
  <1>3. CASE ClientStream /\ direction = "DOWNLOAD"
    <2>1. /\ stage = "raw" /\ toClient # <<>> /\ toClient' = Tail(toClient)
          /\ UNCHANGED <<toServer, left>>
      BY <1>3 DEF ClientStream
    <2>2. /\ Only(toClient, {"raw"}) => Only(toClient', {"raw"})
          /\ RawFirst(toClient) => RawFirst(toClient')
      BY <2>1, OnlyTail, RawFacts
    <2>3. QED
      BY <1>1, <1>3, <2>1, <2>2 DEF Wire, Downloading
  <1>4. CASE ServerStream /\ direction = "DOWNLOAD"
    <2>1. takeover = "raw" /\ toClient' = Append(toClient, "raw") /\ UNCHANGED toServer
      BY <1>4 DEF ServerStream
    <2>2. Only(toClient, {"raw"}) => Only(toClient', {"raw"})
      BY <2>1, RawItem, OnlyAppend
    <2>3. stage \in {"prepared", "raw", "finishing", "done", "failed"}
      BY <1>4, <2>1
      DEF Wire, Before, Asked, Deciding, Refused, Answered, Granted, Stages
    <2>4. QED
      BY <1>1, <1>4, <2>1, <2>2, <2>3 DEF Wire, Downloading
  <1>5. CASE ServerStream /\ direction = "UPLOAD"
    <2>1. /\ takeover = "raw" /\ toServer # <<>> /\ toServer' = Tail(toServer)
          /\ UNCHANGED <<toClient, left>>
      BY <1>5 DEF ServerStream
    <2>2. Only(toServer, {"raw"}) => Only(toServer', {"raw"})
      BY <2>1, OnlyTail
    <2>3. stage \in {"raw", "finishing", "done", "failed"}
      BY <1>5, <2>1
      DEF Wire, Before, Asked, Deciding, Refused, Answered, Granted, Stages
    <2>4. QED
      BY <1>1, <1>5, <2>1, <2>2, <2>3 DEF Wire, Uploading
  <1>6. QED
    BY <1>2, <1>3, <1>4, <1>5, TransferAssumption

LEMMA WireServerReceive ==
    ASSUME TransferTypeInv, Wire, ServerReceive
    PROVE  Wire'
  <1> USE ClientFrame DEF TransferTypeInv, TransferTypeOK, NothingToServer
  <1>1. /\ ~serverPaused /\ toServer # <<>>
        /\ serverBuffer' = Append(serverBuffer, Head(toServer)) /\ toServer' = Tail(toServer)
        /\ UNCHANGED clientVars
        /\ UNCHANGED <<direction, open, toClient, serverPaused, takeover, awaitFrame, gate,
                       outbound, held, left>>
    BY DEF ServerReceive
  <1>2. Head(toServer) \in Items
    BY <1>1, SeqTypes
  <1>3. ASSUME NEW X, Only(serverBuffer, X), Only(toServer, X)
        PROVE  Only(serverBuffer', X) /\ Only(toServer', X)
    BY <1>1, <1>2, <1>3, OnlyTail, OnlyAppend
  <1>4. ASSUME NEW x, NEW X, LastOf(serverBuffer, toServer, x, X)
        PROVE  LastOf(serverBuffer', toServer', x, X)
    BY <1>1, <1>4, LastReceive
  <1>5. Unanswered => Unanswered'
    BY <1>1 DEF Unanswered
  <1>6. CASE stage \in {"idle", "begun"}
    BY <1>1, <1>3, <1>5, <1>6 DEF Wire, Before
  <1>7. CASE stage = "requested"
    <2>1. Asked
      BY <1>1, <1>7 DEF Wire, Deciding, Refused, Answered, Granted
    <2>2. QED
      BY <1>1, <1>4, <1>5, <1>7, <2>1 DEF Wire, Asked
  <1>8. CASE stage \in {"prepared", "raw"} /\ direction = "DOWNLOAD"
    BY <1>1, <1>4, <1>8 DEF Wire, Downloading
  <1>9. QED
    BY <1>1, <1>6, <1>7, <1>8, TransferAssumption DEF Wire, Granted, Uploading

LEMMA WireServerRead ==
    ASSUME TransferTypeInv, Wire, ServerRead
    PROVE  Wire'
  <1> USE ClientFrame DEF TransferTypeInv, TransferTypeOK, NothingToServer
  <1> DEFINE frame == Head(serverBuffer)
  <1>1. /\ serverBuffer # <<>> /\ serverBuffer' = Tail(serverBuffer)
        /\ UNCHANGED clientVars
        /\ UNCHANGED <<direction, open, toServer, toClient, gate, outbound, held, left>>
        /\ awaitFrame = "waiting" => awaitFrame' = frame /\ takeover' = takeover
        /\ awaitFrame # "waiting" =>
              /\ awaitFrame' = awaitFrame
              /\ takeover' = IF frame = "request" THEN "dispatched" ELSE takeover
    BY DEF ServerRead
  <1>2. ASSUME NEW X, Only(serverBuffer, X)
        PROVE  frame \in X /\ Only(serverBuffer', X)
    BY <1>1, <1>2, OnlyTail
  <1>3. ASSUME NEW x, NEW X, LastOf(serverBuffer, toServer, x, X)
        PROVE  \/ frame = x /\ serverBuffer' = <<>> /\ toServer' = <<>>
               \/ frame \in X /\ LastOf(serverBuffer', toServer', x, X)
    BY <1>1, <1>3, LastRead
  <1>4. Unanswered => Unanswered'
    BY <1>1 DEF Unanswered
  <1>5. "request" \notin Calls
    BY Names
  <1>6. CASE stage \in {"idle", "begun"}
    BY <1>1, <1>2, <1>4, <1>5, <1>6 DEF Wire, Before
  <1>7. CASE stage = "requested"
    <2>1. Asked
      BY <1>1, <1>7 DEF Wire, Deciding, Refused, Answered, Granted
    <2>2. CASE frame = "request" /\ serverBuffer' = <<>> /\ toServer' = <<>>
      BY <1>1, <1>4, <1>7, <2>1, <2>2 DEF Wire, Asked, Deciding
    <2>3. CASE frame \in Calls /\ LastOf(serverBuffer', toServer', "request", Calls)
      BY <1>1, <1>4, <1>5, <1>7, <2>1, <2>3 DEF Wire, Asked
    <2>4. QED
      BY <1>3, <2>1, <2>2, <2>3 DEF Asked
  <1>8. CASE stage \in {"prepared", "raw"} /\ direction = "DOWNLOAD"
    <2>1. /\ takeover = "handshake" /\ awaitFrame = "waiting"
          /\ LastOf(serverBuffer, toServer, "go", {})
      BY <1>1, <1>8 DEF Wire, Downloading
    <2>2. frame = "go" /\ serverBuffer' = <<>> /\ toServer' = <<>>
      BY <1>3, <2>1
    <2>3. QED
      BY <1>1, <1>8, <2>1, <2>2 DEF Wire, Downloading
  <1>9. QED
    BY <1>1, <1>6, <1>7, <1>8, TransferAssumption DEF Wire, Granted, Uploading

\* A reply or a notification is queued.
LEMMA WireQueue ==
    ASSUME TransferTypeInv, Wire, Notify \/ \E c \in Calls : Reply(c)
    PROVE  Wire'
  <1> USE ClientFrame DEF TransferTypeInv, TransferTypeOK, NothingToServer
  <1>1. /\ UNCHANGED clientVars
        /\ UNCHANGED <<direction, open, toServer, toClient, serverBuffer, serverPaused,
                       takeover, awaitFrame, gate, held, left>>
    BY DEF Notify, Reply
  <1>2. PICK x \in Replies : outbound' = outbound \/ outbound' = Append(outbound, x)
    BY DEF Notify, Reply, Replies
  <1>3. x \in Frames
    BY <1>2, Names DEF Replies
  <1>4. ASSUME NEW X, Replies \subseteq X, Only(outbound, X) PROVE Only(outbound', X)
    <2>1. Only(Append(outbound, x), X)
      BY <1>2, <1>3, <1>4, OnlyAppend
    <2>2. QED
      BY <1>2, <1>4, <2>1
  <1>5. (Unanswered => Unanswered') /\ (Refused => Refused')
    BY <1>1, <1>4 DEF Unanswered, Refused
  <1>6. QED
    BY <1>1, <1>5
    DEF Wire, Before, Asked, Deciding, Answered, Granted, NothingToClient, Uploading, Downloading

LEMMA WireDecide ==
    ASSUME TransferTypeInv, Wire, Negotiate \/ StartTransfer
    PROVE  Wire'
  <1> USE ClientFrame DEF TransferTypeInv, TransferTypeOK, NothingToServer
  <1>1. /\ UNCHANGED clientVars
        /\ UNCHANGED <<direction, open, toServer, serverBuffer, held, left>>
        /\ takeover \in {"dispatched", "directed"}
    BY DEF Negotiate, StartTransfer
  <1>2. stage \in {"requested", "finishing", "done", "failed"}
    BY <1>1, TransferAssumption DEF Wire, Before, Granted, Uploading, Downloading, Stages
  <1>3. CASE stage = "requested"
    <2>1. Deciding
      BY <1>1, <1>3 DEF Wire, Asked, Refused, Answered, Granted
    <2>2. CASE Negotiate /\ takeover' = "directed" /\ UNCHANGED outbound
      BY <1>1, <1>3, <2>1, <2>2 DEF Negotiate, Wire, Deciding, Unanswered
    <2>3. CASE Negotiate /\ takeover' = "over" /\ outbound' = Append(outbound, "final")
      <3>1. ASSUME NEW s, Only(s, Replies) PROVE Only(s, Replies \cup {"final"})
        BY <3>1 DEF Only
      <3>2. Only(outbound', Replies \cup {"final"})
        BY <2>1, <2>3, <3>1, Names, OnlyAppend DEF Deciding, Unanswered
      <3>3. Refused'
        BY <1>1, <2>1, <2>3, <3>1, <3>2 DEF Negotiate, Deciding, Unanswered, Refused
      <3>4. QED
        BY <1>1, <1>3, <3>3 DEF Wire
    <2>4. CASE StartTransfer
      <3>1. LastOf(clientBuffer, Append(toClient, "ready"), "ready", Replies)
        BY <2>1, Names, LastSend DEF Deciding, Unanswered
      <3>2. Answered'
        BY <1>1, <2>1, <2>4, <3>1, TransferAssumption
        DEF StartTransfer, Deciding, Unanswered, Answered, Granted
      <3>3. QED
        BY <1>1, <1>3, <3>2 DEF Wire
    <2>5. QED
      BY <2>2, <2>3, <2>4 DEF Negotiate
  <1>4. QED
    BY <1>1, <1>2, <1>3 DEF Wire

LEMMA WireGo ==
    ASSUME TransferTypeInv, Wire, GoReceived
    PROVE  Wire'
  <1> USE ClientFrame DEF TransferTypeInv, TransferTypeOK, NothingToServer
  <1>1. /\ takeover = "handshake" /\ awaitFrame \in Frames
        /\ awaitFrame = "go" => takeover' = "raw" /\ UNCHANGED gate
        /\ UNCHANGED clientVars
        /\ UNCHANGED <<direction, open, toServer, toClient, serverBuffer, outbound, held, left>>
    BY DEF GoReceived
  <1>2. stage \in {"prepared", "raw", "finishing", "done", "failed"}
    BY <1>1, Names, TransferAssumption
    DEF Wire, Before, Asked, Deciding, Refused, Answered, Granted, Stages
  <1>3. CASE stage \in {"prepared", "raw"} /\ direction = "DOWNLOAD"
    <2>1. awaitFrame = "go" /\ toClient = <<>> /\ NothingToServer /\ ~gate
      BY <1>1, <1>3, Names DEF Wire, Downloading
    <2>2. Only(<<>>, {"raw"})
      BY DEF Only
    <2>3. QED
      BY <1>1, <1>3, <2>1, <2>2 DEF Wire, Downloading
  <1>4. QED
    BY <1>1, <1>2, <1>3, TransferAssumption DEF Wire, Granted, Uploading, Stages

LEMMA WireComplete ==
    ASSUME TransferTypeInv, Wire, open, CompleteTransfer
    PROVE  Wire'
  <1> USE ClientFrame DEF TransferTypeInv, TransferTypeOK, NothingToServer
  <1>1. /\ takeover = "raw" /\ takeover' = "over" /\ left = 0
        /\ UNCHANGED clientVars
        /\ UNCHANGED <<direction, open, toServer, toClient, serverBuffer, awaitFrame, held, left>>
    BY DEF CompleteTransfer, Streamed
  <1>2. left # MaxChunks
    BY <1>1, TransferAssumption
  <1>3. stage \in {"prepared", "raw", "finishing", "done", "failed"}
    BY <1>1, <1>2 DEF Wire, Before, Asked, Deciding, Refused, Answered, Granted, Stages
  <1>4. CASE stage = "raw" /\ direction = "UPLOAD"
    <2>1. serverBuffer = <<>> /\ Only(toServer, {"raw"})
      BY <1>4 DEF Wire, Uploading
    <2>2. ~Contains(serverBuffer \o toServer, "raw")
      BY <1>4 DEF CompleteTransfer, Streamed
    <2>3. serverBuffer \o toServer = toServer
      BY <2>1
    <2>4. toServer = <<>>
      BY <2>1, <2>2, <2>3 DEF Contains, Only
    <2>5. QED
      BY <1>1, <1>4, <2>4 DEF Wire, Uploading
  <1>5. CASE stage \in {"prepared", "raw"} /\ direction = "DOWNLOAD"
    BY <1>1, <1>5, RawFacts DEF Wire, Downloading
  <1>6. QED
    BY <1>1, <1>2, <1>3, <1>4, <1>5, TransferAssumption DEF Wire, Granted

LEMMA WireWrite ==
    ASSUME TransferTypeInv, Wire, WriterTake \/ WriterWake
    PROVE  Wire'
  <1> USE ClientFrame DEF TransferTypeInv, TransferTypeOK, NothingToServer
  <1>1. /\ UNCHANGED clientVars
        /\ UNCHANGED <<direction, open, toServer, serverBuffer, serverPaused, takeover,
                       awaitFrame, gate, left>>
    BY DEF WriterTake, WriterWake
  <1>2. PICK x \in Frames :
           /\ ~gate => toClient' = toClient
           /\ toClient' = toClient \/ toClient' = Append(toClient, x)
           /\ held' \in {held, "none", x}
           /\ x = held \/ (outbound # <<>> /\ x = Head(outbound))
           /\ outbound' = outbound \/ (outbound # <<>> /\ outbound' = Tail(outbound))
    <2>1. CASE WriterTake
      <3>1. outbound # <<>> /\ Head(outbound) \in Frames
        BY <2>1, SeqTypes DEF WriterTake
      <3>2. QED
        BY <2>1, <3>1 DEF WriterTake
    <2>2. CASE WriterWake
      <3>1. held \in Frames
        BY <2>2 DEF WriterWake
      <3>2. QED
        BY <2>2, <3>1 DEF WriterWake
    <2>3. QED
      BY <2>1, <2>2
  <1>3. x \in Items /\ x # "raw" /\ x # "none"
    BY <1>2, Names
  <1>4. ASSUME NEW X, x \in X, Only(toClient, X) PROVE Only(toClient', X)
    <2>1. Only(Append(toClient, x), X)
      BY <1>3, <1>4, OnlyAppend
    <2>2. QED
      BY <1>2, <1>4, <2>1
  <1>5. ASSUME NEW X, Only(outbound, X), held \in X \cup {"none"}, "none" \notin X
        PROVE  Only(outbound', X) /\ x \in X
    BY <1>2, <1>3, <1>5, OnlyTail
  <1>6. "none" \notin Replies \cup {"final"}
    BY Names DEF Replies
  <1>7. Unanswered => Unanswered'
    BY <1>1, <1>2, <1>4, <1>5, <1>6 DEF Unanswered
  <1>8. Refused => Refused'
    BY <1>1, <1>2, <1>4, <1>5, <1>6 DEF Refused
  <1>9. CASE stage \in {"idle", "begun", "requested"}
    BY <1>1, <1>2, <1>7, <1>8, <1>9 DEF Wire, Before, Asked, Deciding, Answered, Granted
  <1>10. CASE stage = "raw" /\ direction = "UPLOAD"
    BY <1>1, <1>2, <1>4, <1>10 DEF Wire, Uploading
  <1>11. CASE stage \in {"prepared", "raw"} /\ direction = "DOWNLOAD"
    <2>1. RawFirst(toClient) => RawFirst(Append(toClient, x))
      BY <1>3, RawFacts
    <2>2. RawFirst(toClient) => RawFirst(toClient')
      BY <1>2, <2>1
    <2>3. QED
      BY <1>1, <1>2, <1>11, <2>2 DEF Wire, Downloading
  <1>12. QED
    BY <1>1, <1>2, <1>9, <1>10, <1>11, TransferAssumption DEF Wire, Granted, NothingToClient, Stages

-----------------------------------------------------------------------------
(* The theorem.                                                            *)

LEMMA TransferInvInit == TransferInit => TransferInv
  <1> SUFFICES ASSUME TransferInit PROVE TransferInv
    OBVIOUS
  <1>1. TransferTypeInv
    BY TransferTypeInit
  <1>2. \A X : Only(<<>>, X)
    BY DEF Only
  <1>3. Wire
    BY <1>2 DEF TransferInit, Wire, Before, Unanswered
  <1>4. Silent
    BY DEF TransferInit, Silent, UnderWay
  <1>5. QED
    BY <1>1, <1>3, <1>4 DEF TransferInv

LEMMA TransferInvStep ==
    ASSUME Serial, TransferInv, [TransferNext]_vars
    PROVE  TransferInv'
  <1>1. CASE UNCHANGED vars
    BY <1>1, ClientFrame, ServerFrame
    DEF vars, TransferInv, TransferTypeInv, TransferTypeOK, AskedOnce, Silent, UnderWay, Wire,
        Before, Unanswered, NothingToServer, NothingToClient, Asked, Deciding, Refused, Answered,
        Granted, Uploading, Downloading
  <1>2. CASE TransferNext
    <2>1. TransferTypeInv' /\ Silent'
      BY <1>2, TransferTypeStep, SilentStep DEF TransferInv
    <2>2. ASSUME open' PROVE Wire'
      <3>1. open /\ ~Lose /\ TransferTypeInv /\ Silent /\ Wire
        <4>1. open' = open \/ open' = FALSE
          BY <1>2
          DEF TransferNext, ClientStep, ServerStep, Lose, CheckCall, SendCall, BeginTransfer,
              SendRequest, ClientReceive, ClientRead, Prepare, StartCallback, PrepareTimesOut,
              ClientStream, ClientFinish, ClientLoses, Reply, ServerReceive, ServerRead, Notify,
              Negotiate, StartTransfer, GoReceived, ServerStream, CompleteTransfer, WriterTake,
              WriterWake, ServerClose
        <4>2. open /\ ~Lose
          BY <2>2, <4>1 DEF Lose
        <4>3. QED
          BY <4>2 DEF TransferInv
      <3>2. CASE PrepareTimesOut \/ ClientFinish
        BY <3>2 DEF PrepareTimesOut, ClientFinish, Wire
      <3>3. ~ClientLoses /\ ~ServerClose
        BY <3>1 DEF ClientLoses, ServerClose
      <3>4. QED
        BY <1>2, <3>1, <3>2, <3>3, WireAsk, WireClientReceive, WireClientRead, WireStream,
           WireServerReceive, WireServerRead, WireQueue, WireDecide, WireGo, WireComplete,
           WireWrite DEF TransferNext, ClientStep, ServerStep
    <2>3. QED
      BY <2>1, <2>2 DEF TransferInv
  <1>3. QED
    BY <1>1, <1>2

\* While the client's callback runs, every byte of the stream is where a callback can reach
\* it and no frame comes before one, however many calls and notifications are under way, if
\* no call was between its test and its post when the transfer began.
THEOREM WireHandedOver ==
    ASSUME Serial
    PROVE  TransferSpec => []StreamExclusive
  <1>1. TransferInit => TransferInv
    BY TransferInvInit
  <1>2. TransferInv /\ [TransferNext]_vars => TransferInv'
    BY TransferInvStep
  <1>3. TransferInv => StreamExclusive
    <2> SUFFICES ASSUME TransferInv, stage = "raw", open
                 PROVE  /\ ~Contains(clientBuffer \o serverBuffer, "raw")
                        /\ RawFirst(toServer) /\ RawFirst(toClient)
      <3>1. DOMAIN toServer = 1 .. Len(toServer) /\ DOMAIN toClient = 1 .. Len(toClient)
        BY DEF TransferInv, TransferTypeInv, TransferTypeOK
      <3>2. QED
        BY <3>1 DEF StreamExclusive, RawFirst
    <2> USE DEF TransferInv, TransferTypeInv, TransferTypeOK
    <2>1. CASE direction = "UPLOAD"
      <3>1. Uploading
        BY <2>1 DEF Wire
      <3>2. serverBuffer = <<>> /\ clientBuffer \o serverBuffer = clientBuffer
        BY <3>1 DEF Uploading
      <3>3. ~Contains(clientBuffer, "raw")
        BY <3>1, Names DEF Uploading, Contains, Only
      <3>4. RawFirst(toClient)
        BY <3>1, Names DEF Uploading, Only, RawFirst
      <3>5. RawFirst(toServer)
        BY <3>1, RawFacts DEF Uploading
      <3>6. QED
        BY <3>2, <3>3, <3>4, <3>5
    <2>2. CASE direction = "DOWNLOAD"
      <3>1. Downloading
        BY <2>2 DEF Wire
      <3>2. RawFirst(<<>>)
        BY DEF RawFirst
      <3>3. RawFirst(toClient)
        BY <3>1, <3>2, RawFacts DEF Downloading
      <3>4. CASE NothingToServer
        BY <3>1, <3>2, <3>3, <3>4 DEF Downloading, NothingToServer, Contains
      <3>5. CASE LastOf(serverBuffer, toServer, "go", {})
        <4>1. ~Contains(serverBuffer, "raw") /\ RawFirst(toServer)
          BY <3>5, LoneFrame
        <4>2. clientBuffer \o serverBuffer = serverBuffer
          BY <3>1 DEF Downloading
        <4>3. QED
          BY <3>3, <4>1, <4>2
      <3>6. QED
        BY <3>1, <3>4, <3>5 DEF Downloading
    <2>3. QED
      BY <2>1, <2>2, TransferAssumption
  <1>4. QED
    BY <1>1, <1>2, <1>3, PTL DEF TransferSpec

-----------------------------------------------------------------------------
(* Who holds the ends of the wire, and what comes after the stream.        *)

\* Nothing is streamed before the server takes the wire over.
Whole ==
    /\ direction = "UPLOAD" => takeover # "handshake"
    /\ takeover \in {"none", "dispatched", "directed", "handshake"} => left = MaxChunks
    /\ left = MaxChunks => Only(toServer, Frames) /\ Only(toClient, Frames)

Streaming == takeover \in {"handshake", "raw"} => ~gate

\* A client whose callback has returned: what it has sent is behind the stream, what it has
\* still to read is frames.
Uploaded ==
    /\ RawFirst(toServer)
    /\ takeover = "raw" => serverBuffer = <<>>
    /\ takeover = "over" => Only(toServer, Frames)

Returned ==
    stage \in {"finishing", "done"} =>
        /\ left = 0 /\ takeover \in {"raw", "over"}
        /\ direction = "UPLOAD" => Uploaded
        /\ direction = "DOWNLOAD" => Only(toClient, Frames)

HandInv == TransferInv /\ Whole /\ (open => Streaming /\ Returned)

LEMMA ContainsFacts ==
    ASSUME NEW s \in Seq(Items), NEW t \in Seq(Items)
    PROVE  /\ ~Contains(t, "raw") => Only(t, Frames)
           /\ ~Contains(s \o t, "raw") => ~Contains(s, "raw") /\ ~Contains(t, "raw")
           /\ s = <<>> => s \o t = t
           /\ RawFirst(t) /\ Contains(t, "raw") => t # <<>> /\ Head(t) = "raw"
  <1>1. /\ Len(s) \in Nat /\ Len(t) \in Nat /\ Len(s \o t) = Len(s) + Len(t)
        /\ \A i \in 1 .. Len(s) : (s \o t)[i] = s[i]
        /\ \A i \in 1 .. Len(t) : (s \o t)[Len(s) + i] = t[i]
    OBVIOUS
  <1>2. ~Contains(t, "raw") => Only(t, Frames)
    BY <1>1 DEF Contains, Only, Items
  <1>3. ASSUME Contains(s, "raw") \/ Contains(t, "raw") PROVE Contains(s \o t, "raw")
    <2>1. CASE Contains(s, "raw")
      BY <1>1, <2>1 DEF Contains
    <2>2. ASSUME NEW i \in 1 .. Len(t), t[i] = "raw" PROVE Contains(s \o t, "raw")
      <3>1. Len(s) + i \in 1 .. Len(s \o t) /\ (s \o t)[Len(s) + i] = "raw"
        BY <1>1, <2>2
      <3>2. QED
        BY <3>1 DEF Contains
    <2>3. QED
      BY <1>3, <2>1, <2>2 DEF Contains
  <1>4. ASSUME RawFirst(t), Contains(t, "raw") PROVE t # <<>> /\ Head(t) = "raw"
    <2>1. PICK j \in 1 .. Len(t) : t[j] = "raw"
      BY <1>4 DEF Contains
    <2>2. t # <<>> /\ 1 \in 1 .. Len(t) /\ Head(t) = t[1]
      BY <1>1, <2>1
    <2>3. t[1] = "raw"
      BY <1>1, <1>4, <2>1, <2>2 DEF RawFirst
    <2>4. QED
      BY <2>2, <2>3
  <1>5. QED
    BY <1>2, <1>3, <1>4

LEMMA WholeStep ==
    ASSUME TransferTypeInv, open => Wire, Whole, TransferNext
    PROVE  Whole'
  <1> USE ClientFrame, ServerFrame DEF TransferTypeInv, TransferTypeOK
  <1> DEFINE Start == {"none", "dispatched", "directed", "handshake"}
  <1>1. direction' = direction
    BY DEF TransferNext, ClientStep, ServerStep, Lose, CheckCall, SendCall, BeginTransfer,
           SendRequest, ClientReceive, ClientRead, Prepare, StartCallback, PrepareTimesOut,
           ClientStream, ClientFinish, ClientLoses, Reply, ServerReceive, ServerRead, Notify,
           Negotiate, StartTransfer, GoReceived, ServerStream, CompleteTransfer, WriterTake,
           WriterWake, ServerClose
  <1>2. ASSUME UNCHANGED <<toServer, toClient, left>>, takeover' \in Start => takeover \in Start,
               takeover' = "handshake" => direction = "DOWNLOAD" \/ takeover = "handshake"
        PROVE  Whole'
    BY <1>1, <1>2 DEF Whole
  <1>3. \A s \in Seq(Items), x \in Frames : Only(s, Frames) => Only(Append(s, x), Frames)
    BY Names, OnlyAppend
  <1>4. \A s \in Seq(Items) : s # <<>> /\ Only(s, Frames) => Only(Tail(s), Frames)
    BY OnlyTail
  <1>5. ASSUME NEW c \in Calls, SendCall(c) PROVE Whole'
    <2>1. c \in Frames
      BY Names
    <2>2. QED
      BY <1>3, <1>5, <2>1 DEF SendCall, Whole
  <1>6. CASE SendRequest \/ Prepare
    BY <1>2, <1>3, <1>6, Names DEF SendRequest, Prepare, Whole
  <1>7. CASE ClientReceive \/ ServerReceive
    BY <1>4, <1>7 DEF ClientReceive, ServerReceive, Whole
  <1>8. CASE ClientStream
    <2>1. CASE direction = "UPLOAD"
      <3>1. /\ open /\ stage = "raw" /\ left' = left - 1 /\ left > 0 /\ takeover' = takeover
        BY <1>8, <2>1 DEF ClientStream
      <3>2. takeover \in {"raw", "over"}
        BY <2>1, <3>1 DEF Wire, Uploading
      <3>3. left' # MaxChunks
        BY <3>1, TransferAssumption
      <3>4. QED
        BY <1>1, <2>1, <3>1, <3>2, <3>3 DEF Whole
    <2>2. CASE direction = "DOWNLOAD"
      BY <1>1, <1>4, <1>8, <2>2 DEF ClientStream, Whole
    <2>3. QED
      BY <2>1, <2>2, TransferAssumption
  <1>9. CASE ServerStream
    <2>1. CASE direction = "DOWNLOAD"
      <3>1. takeover = "raw" /\ left' = left - 1 /\ left > 0 /\ takeover' = takeover
        BY <1>9, <2>1 DEF ServerStream
      <3>2. left' # MaxChunks
        BY <3>1, TransferAssumption
      <3>3. QED
        BY <1>1, <2>1, <3>1, <3>2 DEF Whole
    <2>2. CASE direction = "UPLOAD"
      BY <1>1, <1>4, <1>9, <2>2 DEF ServerStream, Whole
    <2>3. QED
      BY <2>1, <2>2, TransferAssumption
  <1>10. CASE WriterTake
    <2>1. Head(outbound) \in Frames
      BY <1>10, SeqTypes DEF WriterTake
    <2>2. QED
      BY <1>2, <1>3, <1>10, <2>1 DEF WriterTake, Whole
  <1>11. CASE WriterWake
    BY <1>3, <1>11 DEF WriterWake, Whole
  <1>12. CASE StartTransfer
    BY <1>1, <1>3, <1>12, Names, TransferAssumption DEF StartTransfer, Whole
  <1>13. CASE ServerRead
    <2>1. takeover' # takeover => takeover = "none"
      <3>1. Head(serverBuffer) = "request" => ~NoRequest(serverBuffer)
        BY <1>13, OnceTail DEF ServerRead, AskedOnce
      <3>2. QED
        BY <1>13, <3>1 DEF ServerRead, AskedOnce
    <2>2. takeover' \in {takeover, "dispatched"}
      BY <1>13 DEF ServerRead
    <2>3. QED
      BY <1>2, <1>13, <2>1, <2>2 DEF ServerRead
  <1>14. CASE Negotiate \/ GoReceived \/ CompleteTransfer \/ ServerClose
    BY <1>2, <1>14 DEF Negotiate, GoReceived, CompleteTransfer, ServerClose
  <1>15. CASE \/ \E c \in Calls : CheckCall(c) \/ Reply(c)
              \/ BeginTransfer \/ ClientRead \/ StartCallback \/ PrepareTimesOut
              \/ ClientFinish \/ ClientLoses \/ Lose \/ Notify
    BY <1>2, <1>15
    DEF CheckCall, Reply, BeginTransfer, ClientRead, StartCallback, PrepareTimesOut,
        ClientFinish, ClientLoses, Lose, Notify
  <1>16. QED
    BY <1>5, <1>6, <1>7, <1>8, <1>9, <1>10, <1>11, <1>12, <1>13, <1>14, <1>15
    DEF TransferNext, ClientStep, ServerStep

LEMMA OpenStep ==
    ASSUME TransferNext, open'
    PROVE  open /\ ~Lose /\ ~ClientLoses /\ ~ServerClose /\ direction' = direction
  <1>1. direction' = direction /\ (open' = open \/ open' = FALSE)
    BY DEF TransferNext, ClientStep, ServerStep, Lose, CheckCall, SendCall, BeginTransfer,
           SendRequest, ClientReceive, ClientRead, Prepare, StartCallback, PrepareTimesOut,
           ClientStream, ClientFinish, ClientLoses, Reply, ServerReceive, ServerRead, Notify,
           Negotiate, StartTransfer, GoReceived, ServerStream, CompleteTransfer, WriterTake,
           WriterWake, ServerClose
  <1>2. QED
    BY <1>1 DEF Lose, ClientLoses, ServerClose

LEMMA TakeoverRead ==
    ASSUME TransferTypeInv, ServerRead
    PROVE  takeover' # takeover => takeover = "none" /\ takeover' = "dispatched"
  <1>1. Head(serverBuffer) = "request" => ~NoRequest(serverBuffer)
    BY OnceTail DEF ServerRead, TransferTypeInv, TransferTypeOK, AskedOnce
  <1>2. QED
    BY <1>1 DEF ServerRead, TransferTypeInv, AskedOnce

LEMMA StreamingStep ==
    ASSUME TransferTypeInv, Streaming, TransferNext, open'
    PROVE  Streaming'
  <1> USE ClientFrame, ServerFrame DEF Streaming
  <1>1. ~Lose /\ ~ClientLoses /\ ~ServerClose
    BY OpenStep
  <1>2. CASE ClientStep
    BY <1>1, <1>2
    DEF ClientStep, CheckCall, SendCall, BeginTransfer, SendRequest, ClientReceive, ClientRead,
        Prepare, StartCallback, PrepareTimesOut, ClientStream, ClientFinish
  <1>3. CASE ServerRead
    BY <1>3, TakeoverRead DEF ServerRead
  <1>4. CASE StartTransfer \/ Negotiate
    BY <1>4 DEF StartTransfer, Negotiate
  <1>5. CASE GoReceived \/ CompleteTransfer
    BY <1>5 DEF GoReceived, CompleteTransfer
  <1>6. CASE \/ \E c \in Calls : Reply(c)
             \/ ServerReceive \/ Notify \/ ServerStream \/ WriterTake \/ WriterWake
    BY <1>6 DEF Reply, ServerReceive, Notify, ServerStream, WriterTake, WriterWake
  <1>7. QED
    BY <1>1, <1>2, <1>3, <1>4, <1>5, <1>6 DEF TransferNext, ServerStep

\* The stream is over when the client's callback returns.
LEMMA ReturnedFinish ==
    ASSUME TransferTypeInv, Wire, Whole, ClientFinish
    PROVE  Returned'
  <1> USE DEF TransferTypeInv, TransferTypeOK
  <1>1. /\ stage = "raw" /\ stage' = "finishing"
        /\ UNCHANGED <<direction, toServer, toClient, serverVars, left>>
        /\ direction = "UPLOAD" => left = 0
        /\ direction = "DOWNLOAD" => Streamed(clientBuffer \o toClient)
    BY DEF ClientFinish
  <1>2. CASE direction = "UPLOAD"
    <2>1. Uploading
      BY <1>1, <1>2 DEF Wire
    <2>2. RawFirst(toServer)
      BY <2>1, RawFacts DEF Uploading
    <2>3. Only(<<>>, Frames)
      BY DEF Only
    <2>4. QED
      BY <1>1, <1>2, <2>1, <2>2, <2>3, ServerFrame DEF Uploading, Returned, Uploaded
  <1>3. CASE direction = "DOWNLOAD"
    <2>1. Downloading
      BY <1>1, <1>3 DEF Wire
    <2>2. left = 0 /\ Only(toClient, Frames)
      BY <1>1, <1>3, ContainsFacts DEF Streamed
    <2>3. takeover # "handshake"
      BY <2>2, TransferAssumption DEF Whole
    <2>4. QED
      BY <1>1, <1>3, <2>1, <2>2, <2>3, ServerFrame DEF Downloading, Returned
  <1>4. QED
    BY <1>2, <1>3, TransferAssumption

LEMMA ReturnedStep ==
    ASSUME TransferTypeInv, Silent, Wire, Whole, Returned, TransferNext, open'
    PROVE  Returned'
  <1> USE DEF TransferTypeInv, TransferTypeOK
  <1> DEFINE Back == stage \in {"finishing", "done"}
  <1>1. open /\ ~Lose /\ ~ClientLoses /\ ~ServerClose /\ direction' = direction
    BY OpenStep
  <1>2. ASSUME Back' => Back, UNCHANGED <<toServer, toClient, serverBuffer, takeover, left>>
        PROVE  Returned'
    BY <1>1, <1>2 DEF Returned, Uploaded
  <1>3. \A s \in Seq(Items), x \in Frames :
            /\ Only(s, Frames) => Only(Append(s, x), Frames)
            /\ RawFirst(s) => RawFirst(Append(s, x))
    BY Names, OnlyAppend, RawFacts
  <1>4. \A s \in Seq(Items) :
            s # <<>> => /\ Only(s, Frames) => Only(Tail(s), Frames)
                        /\ RawFirst(s) => RawFirst(Tail(s))
    BY OnlyTail, RawFacts
  <1>5. CASE ClientFinish
    BY <1>5, ReturnedFinish
  <1>6. ASSUME NEW c \in Calls, SendCall(c) PROVE Returned'
    <2>1. /\ c \in Frames /\ toServer' = Append(toServer, c)
          /\ UNCHANGED <<stage, toClient, left>> /\ UNCHANGED serverVars
      BY <1>6, Names DEF SendCall
    <2>2. QED
      BY <1>1, <1>3, <2>1, ServerFrame DEF Returned, Uploaded
  <1>7. CASE SendRequest \/ Prepare \/ StartCallback \/ BeginTransfer \/ PrepareTimesOut
    BY <1>7 DEF SendRequest, Prepare, StartCallback, BeginTransfer, PrepareTimesOut, Returned
  <1>8. CASE ClientReceive
    BY <1>1, <1>4, <1>8, ServerFrame DEF ClientReceive, Returned, Uploaded
  <1>9. CASE ClientRead
    <2>1. stage' # stage => stage' \in {"ready", "failed"} \/ stage = "finishing"
      BY <1>9 DEF ClientRead
    <2>2. QED
      BY <1>2, <1>9, <2>1, ServerFrame DEF ClientRead
  <1>10. CASE ClientStream
    BY <1>10, ClientFrame DEF ClientStream, Returned
  <1>11. CASE ServerReceive
    <2>1. takeover # "raw"
      BY <1>11 DEF ServerReceive
    <2>2. QED
      BY <1>1, <1>4, <1>11, <2>1, ClientFrame DEF ServerReceive, Returned, Uploaded
  <1>12. CASE ServerRead
    <2>1. Back => serverBuffer # <<>> /\ (direction = "UPLOAD" => takeover # "raw")
      BY <1>12 DEF ServerRead, Returned, Uploaded
    <2>2. Back => takeover' = takeover
      BY <1>12, TakeoverRead DEF Returned
    <2>3. QED
      BY <1>1, <1>12, <2>1, <2>2, ClientFrame DEF ServerRead, Returned, Uploaded
  <1>13. CASE ServerStream
    <2>1. CASE direction = "UPLOAD"
      BY <1>1, <1>4, <1>13, <2>1, ClientFrame, ServerFrame DEF ServerStream, Returned, Uploaded
    <2>2. CASE direction = "DOWNLOAD"
      <3>1. left > 0
        BY <1>13, <2>2 DEF ServerStream
      <3>2. ~Back /\ ~Back'
        BY <1>13, <3>1, ClientFrame DEF ServerStream, Returned
      <3>3. QED
        BY <3>2 DEF Returned
    <2>3. QED
      BY <2>1, <2>2, TransferAssumption
  <1>14. CASE CompleteTransfer
    <2>1. direction = "UPLOAD" => Only(toServer, Frames)
      BY <1>1, <1>14, ContainsFacts DEF CompleteTransfer, Streamed
    <2>2. QED
      BY <1>1, <1>14, <2>1, ClientFrame DEF CompleteTransfer, Returned, Uploaded
  <1>15. CASE WriterTake
    <2>1. Head(outbound) \in Frames
      BY <1>15, SeqTypes DEF WriterTake
    <2>2. QED
      BY <1>1, <1>3, <1>15, <2>1, ClientFrame DEF WriterTake, Returned, Uploaded
  <1>16. CASE WriterWake
    BY <1>1, <1>3, <1>16, ClientFrame DEF WriterWake, Returned, Uploaded
  <1>17. CASE Negotiate \/ StartTransfer \/ GoReceived
    BY <1>17, ClientFrame DEF Negotiate, StartTransfer, GoReceived, Returned
  <1>18. CASE (\E c \in Calls : CheckCall(c) \/ Reply(c)) \/ Notify
    BY <1>2, <1>18, ClientFrame, ServerFrame DEF CheckCall, Reply, Notify
  <1>19. QED
    BY <1>1, <1>5, <1>6, <1>7, <1>8, <1>9, <1>10, <1>11, <1>12, <1>13, <1>14, <1>15, <1>16,
       <1>17, <1>18 DEF TransferNext, ClientStep, ServerStep

LEMMA HandInvInit == TransferInit => HandInv
  <1> SUFFICES ASSUME TransferInit PROVE HandInv
    OBVIOUS
  <1>1. TransferInv
    BY TransferInvInit
  <1>2. Only(<<>>, Frames)
    BY DEF Only
  <1>3. Whole /\ Streaming /\ Returned
    BY <1>2 DEF TransferInit, Whole, Streaming, Returned
  <1>4. QED
    BY <1>1, <1>3 DEF HandInv

LEMMA HandInvStep ==
    ASSUME Serial, HandInv, [TransferNext]_vars
    PROVE  HandInv'
  <1>1. TransferInv'
    BY TransferInvStep DEF HandInv
  <1>2. CASE UNCHANGED vars
    BY <1>1, <1>2, ClientFrame, ServerFrame
    DEF vars, HandInv, Whole, Streaming, Returned, Uploaded
  <1>3. CASE TransferNext
    <2>1. Whole'
      BY <1>3, WholeStep DEF HandInv, TransferInv
    <2>2. ASSUME open' PROVE Streaming' /\ Returned'
      BY <1>3, <2>2, OpenStep, StreamingStep, ReturnedStep DEF HandInv, TransferInv
    <2>3. QED
      BY <1>1, <2>1, <2>2 DEF HandInv
  <1>4. QED
    BY <1>2, <1>3

-----------------------------------------------------------------------------
(* Every step is one of Handover, or none.                                 *)

LEMMA ForsakenStays ==
    ASSUME TransferTypeInv, Forsaken, TransferNext
    PROVE  Forsaken'
  <1> USE ClientFrame, ServerFrame DEF TransferTypeInv, TransferTypeOK, Forsaken
  <1> DEFINE Gone == takeover \in {"handshake", "raw", "broken"} \/ left # MaxChunks
  <1>1. CASE ~open
    BY <1>1, OpenStep
  <1>2. CASE open /\ stage = "failed" /\ Gone
    <2>1. CASE ServerRead
      BY <1>2, <2>1, TakeoverRead DEF ServerRead
    <2>2. CASE ServerStream
      <3>1. left' \in {left, left - 1} /\ UNCHANGED <<open, stage, takeover>>
        BY <2>2 DEF ServerStream
      <3>2. left' # MaxChunks \/ left' = left
        BY <3>1, TransferAssumption
      <3>3. QED
        BY <1>2, <3>1, <3>2
    <2>3. CASE CompleteTransfer
      <3>1. left = 0 /\ UNCHANGED <<open, stage, left>>
        BY <1>2, <2>3 DEF CompleteTransfer, Streamed
      <3>2. QED
        BY <1>2, <3>1, TransferAssumption
    <2>4. CASE Negotiate \/ StartTransfer \/ GoReceived \/ ServerClose
      BY <1>2, <2>4 DEF Negotiate, StartTransfer, GoReceived, ServerClose
    <2>5. CASE \/ \E c \in Calls : Reply(c)
               \/ ServerReceive \/ Notify \/ WriterTake \/ WriterWake
      BY <1>2, <2>5 DEF Reply, ServerReceive, Notify, WriterTake, WriterWake
    <2>6. CASE ClientRead
      BY <1>2, <2>6 DEF ClientRead
    <2>7. CASE ClientStep /\ ~ClientRead
      BY <1>2, <2>7
      DEF ClientStep, CheckCall, SendCall, BeginTransfer, SendRequest, ClientReceive, Prepare,
          StartCallback, PrepareTimesOut, ClientStream, ClientFinish, ClientLoses
    <2>8. CASE Lose
      BY <2>8 DEF Lose
    <2>9. QED
      BY <2>1, <2>2, <2>3, <2>4, <2>5, <2>6, <2>7, <2>8 DEF TransferNext, ServerStep
  <1>3. QED
    BY <1>1, <1>2

Handing == HandInv /\ TransferNext /\ ~Forsaken /\ ~Forsaken'

LEMMA HandingFacts ==
    ASSUME Handing
    PROVE  /\ open /\ open' /\ ~Lose /\ ~ClientLoses /\ ~ServerClose /\ direction' = direction
           /\ TransferTypeInv /\ Silent /\ Wire /\ Whole /\ Streaming /\ Returned
           /\ stage = "failed" => takeover \notin {"handshake", "raw", "broken"} /\ left = MaxChunks
           /\ stage' = "failed" => takeover' \notin {"handshake", "raw", "broken"}
           /\ left \in 0 .. MaxChunks /\ MaxChunks > 0
  <1>1. open /\ open' /\ TransferTypeInv
    BY DEF Handing, Forsaken, HandInv, TransferInv
  <1>2. left \in 0 .. MaxChunks /\ MaxChunks > 0
    BY <1>1, TransferAssumption DEF TransferTypeInv, TransferTypeOK
  <1>3. QED
    BY <1>1, <1>2, OpenStep DEF Handing, Forsaken, HandInv, TransferInv

LEMMA UpStep ==
    ASSUME Handing, direction = "UPLOAD"
    PROVE  [Handed!Next]_(Handed!vars)
  <1>1. /\ Producer = (IF stage = "raw" THEN "callback" ELSE "framing")
        /\ Producer' = (IF stage' = "raw" THEN "callback" ELSE "framing")
        /\ Consumer = (IF takeover = "raw" THEN "callback" ELSE "framing")
        /\ Consumer' = (IF takeover' = "raw" THEN "callback" ELSE "framing")
    BY HandingFacts DEF Handing, Producer, Consumer, HeldBy
  <1>2. ~Forsaken /\ ~Forsaken' /\ direction' = direction /\ direction = "UPLOAD"
    BY HandingFacts DEF Handing
  <1>3. ASSUME UNCHANGED <<toServer, left>> /\ (stage' = "raw") = (stage = "raw"),
               (takeover' = "raw") = (takeover = "raw")
        PROVE  UNCHANGED Handed!vars
    BY <1>1, <1>2, <1>3 DEF Handed!vars
  <1>4. ASSUME stage # "raw" /\ stage' # "raw" /\ UNCHANGED <<takeover, left>>,
               takeover # "raw" \/ left = 0,
               \E f \in Frames : toServer' = Append(toServer, f)
        PROVE  Handed!Next
    BY <1>1, <1>2, <1>4 DEF Handed!Next, Handed!SendFrame
  <1>5. ASSUME UNCHANGED <<stage, takeover, left>> /\ takeover # "raw",
               toServer # <<>> /\ Head(toServer) \in Frames /\ toServer' = Tail(toServer)
        PROVE  Handed!Next
    BY <1>1, <1>2, <1>5 DEF Handed!Next, Handed!ReadFrame
  <1>6. ASSUME stage # "raw" /\ stage' = stage /\ takeover # "raw" /\ takeover' = "raw",
               toServer = <<>> /\ left = MaxChunks /\ UNCHANGED <<toServer, left>>
        PROVE  Handed!Next
    BY <1>1, <1>2, <1>6 DEF Handed!Next, Handed!ConsumerTakes
  <1>7. ASSUME stage # "raw" /\ stage' = "raw" /\ takeover = "raw" /\ takeover' = "raw",
               toServer = <<>> /\ left = MaxChunks /\ UNCHANGED <<toServer, left>>
        PROVE  Handed!Next
    BY <1>1, <1>2, <1>7 DEF Handed!Next, Handed!ProducerTakes
  <1>8. ASSUME stage = "raw" /\ UNCHANGED <<stage, takeover>> /\ left > 0 /\ left' = left - 1,
               toServer' = Append(toServer, "raw")
        PROVE  Handed!Next
    BY <1>1, <1>2, <1>8 DEF Handed!Next, Handed!WriteChunk
  <1>9. ASSUME takeover = "raw" /\ UNCHANGED <<stage, takeover, left>>,
               toServer # <<>> /\ Head(toServer) = "raw" /\ toServer' = Tail(toServer)
        PROVE  Handed!Next
    BY <1>1, <1>2, <1>9 DEF Handed!Next, Handed!ReadChunk
  <1>10. ASSUME stage = "raw" /\ stage' # "raw" /\ left = 0,
                UNCHANGED <<toServer, takeover, left>>
        PROVE  Handed!Next
    BY <1>1, <1>2, <1>10 DEF Handed!Next, Handed!ProducerReturns
  <1>11. ASSUME takeover = "raw" /\ takeover' # "raw" /\ left = 0 /\ ~Contains(toServer, "raw"),
               UNCHANGED <<stage, toServer, left>>
        PROVE  Handed!Next
    BY <1>1, <1>2, <1>11 DEF Handed!Next, Handed!ConsumerReturns, Contains, Handed!Contains
  <1> USE HandingFacts DEF TransferTypeInv, TransferTypeOK
  <1>12. CASE BeginTransfer \/ Prepare \/ PrepareTimesOut \/ ClientReceive \/ ClientRead
    <2>1. stage' # stage => stage # "raw" /\ stage' # "raw"
      BY <1>12 DEF BeginTransfer, Prepare, PrepareTimesOut, ClientReceive, ClientRead
    <2>2. UNCHANGED <<toServer, left>> /\ UNCHANGED serverVars
      BY <1>12 DEF BeginTransfer, Prepare, PrepareTimesOut, ClientReceive, ClientRead
    <2>3. QED
      BY <1>3, <2>1, <2>2, ServerFrame
  <1>13. ASSUME NEW c \in Calls, SendCall(c) PROVE [Handed!Next]_(Handed!vars)
    <2>1. /\ stage \in {"idle", "done", "failed"} /\ c \in Frames
          /\ UNCHANGED <<stage, left>> /\ UNCHANGED serverVars /\ toServer' = Append(toServer, c)
      BY <1>13, Names DEF SendCall, Silent, UnderWay, Stages
    <2>2. takeover # "raw" \/ left = 0
      BY <2>1 DEF AskedOnce, Returned
    <2>3. QED
      BY <1>4, <2>1, <2>2, ServerFrame
  <1>14. CASE SendRequest
    BY <1>4, <1>14, ServerFrame, Names DEF SendRequest, AskedOnce
  <1>15. CASE StartCallback
    <2>1. Granted
      BY <1>15 DEF StartCallback, Wire
    <2>2. QED
      BY <1>7, <1>15, <2>1, ServerFrame DEF StartCallback, Granted, NothingToServer
  <1>16. CASE ClientStream
    BY <1>8, <1>16, ClientFrame, ServerFrame DEF ClientStream
  <1>17. CASE ClientFinish
    BY <1>10, <1>17, ServerFrame DEF ClientFinish
  <1>18. CASE ServerReceive
    <2>1. takeover # "raw" /\ toServer # <<>> /\ toServer' = Tail(toServer)
      BY <1>18 DEF ServerReceive
    <2>2. Head(toServer) \in Frames
      <3>1. CASE left = MaxChunks
        BY <2>1, <3>1, OnlyTail DEF Whole
      <3>2. CASE stage \in {"finishing", "done"}
        BY <2>1, <3>2, OnlyTail DEF Returned, Uploaded
      <3>3. CASE stage \notin {"finishing", "done"} /\ left # MaxChunks
        BY <2>1, <3>3
        DEF Wire, Before, Asked, Deciding, Refused, Answered, Granted, Uploading, Unanswered,
            NothingToServer, Stages
      <3>4. QED
        BY <3>1, <3>2, <3>3
    <2>3. QED
      BY <1>5, <1>18, <2>1, <2>2, ClientFrame DEF ServerReceive
  <1>19. CASE ServerRead
    BY <1>3, <1>19, ClientFrame, TakeoverRead DEF ServerRead
  <1>20. CASE StartTransfer
    <2>1. takeover = "directed" /\ takeover' = "raw" /\ UNCHANGED <<stage, toServer, left>>
      BY <1>2, <1>20, ClientFrame DEF StartTransfer
    <2>2. stage = "requested" /\ Deciding
      BY <2>1
      DEF Wire, AskedOnce, Asked, Refused, Answered, Granted, Uploading, Returned, Stages
    <2>3. QED
      BY <1>6, <2>1, <2>2 DEF Deciding, Unanswered, NothingToServer
  <1>21. CASE ServerStream
    <2>1. /\ takeover = "raw" /\ toServer # <<>> /\ toServer' = Tail(toServer)
          /\ ~Streamed(serverBuffer \o toServer)
          /\ UNCHANGED <<stage, takeover, left>>
      BY <1>21, ClientFrame, ServerFrame DEF ServerStream
    <2>2. Head(toServer) = "raw"
      <3>1. CASE stage \in {"finishing", "done"}
        <4>1. left = 0 /\ RawFirst(toServer) /\ serverBuffer \o toServer = toServer
          BY <2>1, <3>1, ContainsFacts DEF Returned, Uploaded
        <4>2. QED
          BY <2>1, <4>1, ContainsFacts DEF Streamed
      <3>2. CASE stage \notin {"finishing", "done"}
        <4>1. Uploading
          BY <2>1, <3>2
          DEF Wire, Before, Asked, Deciding, Refused, Answered, Granted, NothingToServer, Stages
        <4>2. QED
          BY <2>1, <4>1, OnlyTail DEF Uploading
      <3>3. QED
        BY <3>1, <3>2
    <2>3. QED
      BY <1>9, <2>1, <2>2
  <1>22. CASE CompleteTransfer
    <2>1. left = 0 /\ ~Contains(serverBuffer \o toServer, "raw")
      BY <1>22 DEF CompleteTransfer, Streamed
    <2>2. QED
      BY <1>11, <1>22, <2>1, ContainsFacts, ClientFrame DEF CompleteTransfer
  <1>23. CASE Negotiate \/ GoReceived
    BY <1>3, <1>23, ClientFrame DEF Negotiate, GoReceived, Whole
  <1>24. CASE (\E c \in Calls : CheckCall(c) \/ Reply(c)) \/ Notify \/ WriterTake \/ WriterWake
    BY <1>3, <1>24, ClientFrame, ServerFrame
    DEF CheckCall, Reply, Notify, WriterTake, WriterWake
  <1>25. QED
    BY <1>12, <1>13, <1>14, <1>15, <1>16, <1>17, <1>18, <1>19, <1>20, <1>21, <1>22, <1>23, <1>24
    DEF Handing, TransferNext, ClientStep, ServerStep

\* A client that consumes has let go of its end when it is prepared.
Taken == stage \in {"prepared", "raw"}

LEMMA DownStep ==
    ASSUME Handing, direction = "DOWNLOAD"
    PROVE  [Handed!Next]_(Handed!vars)
  <1>1. /\ Producer = (IF takeover = "raw" THEN "callback" ELSE "framing")
        /\ Producer' = (IF takeover' = "raw" THEN "callback" ELSE "framing")
        /\ Consumer = (IF Taken THEN "callback" ELSE "framing")
        /\ Consumer' = (IF Taken' THEN "callback" ELSE "framing")
    BY HandingFacts DEF Handing, Producer, Consumer, HeldBy, Taken
  <1>2. ~Forsaken /\ ~Forsaken' /\ direction' = direction /\ direction # "UPLOAD"
    BY HandingFacts DEF Handing
  <1>3. ASSUME UNCHANGED <<toClient, left>>, Taken' = Taken,
               (takeover' = "raw") = (takeover = "raw")
        PROVE  UNCHANGED Handed!vars
    BY <1>1, <1>2, <1>3 DEF Handed!vars
  <1>4. ASSUME takeover # "raw" /\ takeover' # "raw" /\ UNCHANGED <<stage, left>>,
               ~Taken \/ left = 0,
               \E f \in Frames : toClient' = Append(toClient, f)
        PROVE  Handed!Next
    BY <1>1, <1>2, <1>4 DEF Handed!Next, Handed!SendFrame, Taken
  <1>5. ASSUME UNCHANGED <<stage, takeover, left>>, ~Taken,
               toClient # <<>> /\ Head(toClient) \in Frames /\ toClient' = Tail(toClient)
        PROVE  Handed!Next
    BY <1>1, <1>2, <1>5 DEF Handed!Next, Handed!ReadFrame, Taken
  <1>6. ASSUME ~Taken /\ Taken', takeover # "raw" /\ takeover' = takeover,
               toClient = <<>> /\ left = MaxChunks /\ UNCHANGED <<toClient, left>>
        PROVE  Handed!Next
    BY <1>1, <1>2, <1>6 DEF Handed!Next, Handed!ConsumerTakes
  <1>7. ASSUME Taken /\ stage' = stage /\ takeover # "raw" /\ takeover' = "raw",
               toClient = <<>> /\ left = MaxChunks /\ UNCHANGED <<toClient, left>>
        PROVE  Handed!Next
    BY <1>1, <1>2, <1>7 DEF Handed!Next, Handed!ProducerTakes, Taken
  <1>8. ASSUME takeover = "raw" /\ UNCHANGED <<stage, takeover>> /\ left > 0 /\ left' = left - 1,
               toClient' = Append(toClient, "raw")
        PROVE  Handed!Next
    BY <1>1, <1>2, <1>8 DEF Handed!Next, Handed!WriteChunk, Taken
  <1>9. ASSUME Taken /\ UNCHANGED <<stage, takeover, left>>,
               toClient # <<>> /\ Head(toClient) = "raw" /\ toClient' = Tail(toClient)
        PROVE  Handed!Next
    BY <1>1, <1>2, <1>9 DEF Handed!Next, Handed!ReadChunk, Taken
  <1>10. ASSUME takeover = "raw" /\ takeover' # "raw" /\ left = 0,
               UNCHANGED <<toClient, stage, left>>
        PROVE  Handed!Next
    BY <1>1, <1>2, <1>10 DEF Handed!Next, Handed!ProducerReturns, Taken
  <1>11. ASSUME Taken /\ ~Taken' /\ left = 0 /\ ~Contains(toClient, "raw"),
               UNCHANGED <<takeover, toClient, left>>
        PROVE  Handed!Next
    BY <1>1, <1>2, <1>11 DEF Handed!Next, Handed!ConsumerReturns, Contains, Handed!Contains
  <1> USE HandingFacts DEF TransferTypeInv, TransferTypeOK
  <1>12. CASE \/ \E c \in Calls : CheckCall(c) \/ SendCall(c) \/ Reply(c)
              \/ BeginTransfer \/ SendRequest \/ StartCallback \/ Notify
    BY <1>3, <1>12, ClientFrame, ServerFrame
    DEF CheckCall, SendCall, Reply, BeginTransfer, SendRequest, StartCallback, Notify, Taken
  <1>13. CASE PrepareTimesOut
    <2>1. stage # "prepared"
      BY <1>2, <1>13, ServerFrame, TransferAssumption
      DEF PrepareTimesOut, Wire, Downloading, Forsaken
    <2>2. QED
      BY <1>3, <1>13, <2>1, ServerFrame DEF PrepareTimesOut, Taken
  <1>14. CASE ClientRead
    <2>1. clientBuffer # <<>> /\ UNCHANGED <<toClient, left>> /\ UNCHANGED serverVars
      BY <1>14 DEF ClientRead
    <2>2. ~Taken
      BY <1>2, <2>1 DEF Wire, Downloading, Taken
    <2>3. ~Taken'
      BY <1>14, <2>2 DEF ClientRead, Taken
    <2>4. QED
      BY <1>3, <2>1, <2>2, <2>3, ServerFrame DEF Taken
  <1>15. CASE ClientReceive
    <2>1. /\ ~clientPaused /\ toClient # <<>> /\ toClient' = Tail(toClient)
          /\ UNCHANGED <<stage, left>> /\ UNCHANGED serverVars
      BY <1>15 DEF ClientReceive
    <2>2. ~Taken
      BY <1>2, <2>1 DEF Wire, Downloading, Taken
    <2>3. Head(toClient) \in Frames
      <3>1. CASE left = MaxChunks
        BY <2>1, <3>1, OnlyTail DEF Whole
      <3>2. CASE stage \in {"finishing", "done"}
        BY <1>2, <2>1, <3>2, OnlyTail DEF Returned
      <3>3. CASE stage \notin {"finishing", "done"} /\ left # MaxChunks
        <4>1. Refused
          BY <2>2, <3>3
          DEF Wire, Before, Asked, Deciding, Answered, Granted, Unanswered, Taken, Stages
        <4>2. Head(toClient) \in Replies \cup {"final"}
          BY <2>1, <4>1, OnlyTail DEF Refused
        <4>3. QED
          BY <4>2, Names DEF Replies, Frames
      <3>4. QED
        BY <3>1, <3>2, <3>3
    <2>4. QED
      BY <1>5, <2>1, <2>2, <2>3, ServerFrame
  <1>16. CASE Prepare
    <2>1. Granted /\ NothingToClient
      BY <1>16 DEF Prepare, Wire
    <2>2. QED
      BY <1>2, <1>6, <1>16, <2>1, ServerFrame DEF Prepare, Granted, NothingToClient, Taken
  <1>17. CASE ClientStream
    <2>1. /\ stage = "raw" /\ toClient # <<>> /\ toClient' = Tail(toClient)
          /\ ~Streamed(clientBuffer \o toClient)
          /\ UNCHANGED <<stage, takeover, left>>
      BY <1>2, <1>17, ClientFrame, ServerFrame DEF ClientStream
    <2>2. Downloading
      BY <1>2, <2>1, TransferAssumption DEF Wire
    <2>3. CASE takeover = "raw"
      BY <1>9, <2>1, <2>2, <2>3, OnlyTail DEF Downloading, Taken
    <2>4. CASE takeover = "over"
      <3>1. left = 0 /\ RawFirst(toClient) /\ clientBuffer \o toClient = toClient
        BY <2>2, <2>4, ContainsFacts DEF Downloading
      <3>2. Head(toClient) = "raw"
        BY <2>1, <3>1, ContainsFacts DEF Streamed
      <3>3. QED
        BY <1>9, <2>1, <3>2 DEF Taken
    <2>5. QED
      BY <2>1, <2>2, <2>3, <2>4 DEF Downloading
  <1>18. CASE ClientFinish
    <2>1. left = 0 /\ ~Contains(clientBuffer \o toClient, "raw")
      BY <1>2, <1>18, TransferAssumption DEF ClientFinish, Streamed
    <2>2. QED
      BY <1>11, <1>18, <2>1, ContainsFacts, ServerFrame DEF ClientFinish, Taken
  <1>19. CASE ServerRead
    BY <1>3, <1>19, ClientFrame, TakeoverRead DEF ServerRead, Taken
  <1>20. CASE StartTransfer
    <2>1. /\ takeover = "directed" /\ takeover' = "handshake" /\ UNCHANGED <<stage, left>>
          /\ toClient' = Append(toClient, "ready")
      BY <1>2, <1>20, ClientFrame DEF StartTransfer
    <2>2. ~Taken
      BY <1>2, <2>1 DEF Wire, Downloading, Taken
    <2>3. QED
      BY <1>4, <2>1, <2>2, Names
  <1>21. CASE GoReceived
    <2>1. takeover = "handshake" /\ awaitFrame \in Frames /\ UNCHANGED <<stage, toClient, left>>
      BY <1>21, ClientFrame DEF GoReceived
    <2>2. awaitFrame # "waiting"
      BY <2>1, TransferAssumption DEF Frames
    <2>3. Taken
      BY <1>2, <2>1, <2>2
      DEF Wire, Before, Asked, Deciding, Refused, Answered, Granted, Returned, Taken, Stages
    <2>4. awaitFrame = "go" /\ toClient = <<>> /\ left = MaxChunks
      BY <1>2, <2>1, <2>2, <2>3, TransferAssumption DEF Wire, Downloading, Taken, Whole
    <2>5. QED
      BY <1>7, <1>21, <2>1, <2>3, <2>4 DEF GoReceived
  <1>22. CASE ServerStream
    BY <1>2, <1>8, <1>22, ClientFrame, ServerFrame DEF ServerStream
  <1>23. CASE CompleteTransfer
    BY <1>2, <1>10, <1>23, ClientFrame DEF CompleteTransfer
  <1>24. CASE WriterTake \/ WriterWake
    <2>1. CASE gate
      <3>1. \E f \in Frames : toClient' = Append(toClient, f)
        BY <1>24, <2>1, SeqTypes DEF WriterTake, WriterWake
      <3>2. UNCHANGED <<stage, takeover, left>>
        BY <1>24, ClientFrame DEF WriterTake, WriterWake
      <3>3. takeover # "raw" /\ (Taken => left = 0)
        BY <1>2, <2>1, TransferAssumption DEF Streaming, Wire, Downloading, Taken
      <3>4. QED
        BY <1>4, <3>1, <3>2, <3>3
    <2>2. CASE ~gate
      BY <1>3, <1>24, <2>2, ClientFrame DEF WriterTake, WriterWake, Taken
    <2>3. QED
      BY <2>1, <2>2
  <1>25. CASE ServerReceive \/ Negotiate
    BY <1>3, <1>25, ClientFrame, ServerFrame DEF ServerReceive, Negotiate, Taken
  <1>26. QED
    BY <1>12, <1>13, <1>14, <1>15, <1>16, <1>17, <1>18, <1>19, <1>20, <1>21, <1>22, <1>23,
       <1>24, <1>25
    DEF Handing, TransferNext, ClientStep, ServerStep

LEMMA HandoverInit == TransferInit => Handed!Init
  BY TransferAssumption
  DEF TransferInit, Handed!Init, Producer, Consumer, HeldBy, Forsaken

LEMMA HandoverStep ==
    ASSUME HandInv, [TransferNext]_vars
    PROVE  [Handed!Next]_(Handed!vars)
  <1>1. CASE UNCHANGED vars
    BY <1>1, ClientFrame, ServerFrame
    DEF vars, Handed!vars, Producer, Consumer, HeldBy, Forsaken
  <1>2. CASE TransferNext /\ Forsaken'
    BY <1>2 DEF Producer, Consumer, HeldBy, Handed!Next, Handed!Lose
  <1>3. CASE TransferNext /\ ~Forsaken'
    <2>1. Handing
      BY <1>3, ForsakenStays DEF Handing, HandInv, TransferInv
    <2>2. QED
      BY <2>1, HandingFacts, UpStep, DownStep, TransferAssumption
      DEF TransferTypeInv, TransferTypeOK
  <1>4. QED
    BY <1>1, <1>2, <1>3

\* The two loops with their pauses, buffers, gate and hand-shake implement a wire whose two
\* ends change hands in order, whatever calls, replies and notifications cross it, when
\* no call slips in while a transfer begins.
THEOREM HandoverImplemented ==
    ASSUME Serial PROVE TransferSpec => ImplementsHandover
  <1>1. TransferInit => HandInv
    BY HandInvInit
  <1>2. HandInv /\ [TransferNext]_vars => HandInv'
    BY HandInvStep
  <1>3. TransferInit => Handed!Init
    BY HandoverInit
  <1>4. HandInv /\ [TransferNext]_vars => [Handed!Next]_(Handed!vars)
    BY HandoverStep
  <1>5. QED
    BY <1>1, <1>2, <1>3, <1>4, PTL DEF TransferSpec, ImplementsHandover, Handed!Spec

-----------------------------------------------------------------------------
(* Nobody waits for nobody: what the liveness properties leave to fairness. *)

\* Gate and pauses are in the hand of somebody who will give them back.
Lent ==
    /\ ~gate => takeover \in {"handshake", "raw"}
    /\ serverPaused => takeover = "raw"
    /\ clientPaused /\ open => stage \in {"prepared", "raw", "failed"}
    /\ open => serving

LEMMA LentStep ==
    ASSUME TransferTypeInv, Lent, TransferNext
    PROVE  Lent'
  <1> USE ClientFrame, ServerFrame DEF Lent
  <1>1. CASE \/ \E c \in Calls : CheckCall(c) \/ SendCall(c)
             \/ BeginTransfer \/ SendRequest \/ ClientReceive \/ ClientStream
    BY <1>1 DEF CheckCall, SendCall, BeginTransfer, SendRequest, ClientReceive, ClientStream
  <1>2. CASE ClientRead \/ Prepare \/ StartCallback \/ PrepareTimesOut
    BY <1>2 DEF ClientRead, Prepare, StartCallback, PrepareTimesOut, PauseClient
  <1>3. CASE ClientFinish \/ ClientLoses \/ Lose
    BY <1>3 DEF ClientFinish, ClientLoses, Lose, ResumeClient
  <1>4. CASE \/ \E c \in Calls : Reply(c)
             \/ ServerReceive \/ Notify \/ ServerStream \/ WriterTake \/ WriterWake
    BY <1>4 DEF Reply, ServerReceive, Notify, ServerStream, WriterTake, WriterWake
  <1>5. CASE ServerRead
    BY <1>5, TakeoverRead DEF ServerRead
  <1>6. CASE Negotiate \/ StartTransfer
    BY <1>6 DEF Negotiate, StartTransfer, PauseServer
  <1>7. CASE GoReceived \/ CompleteTransfer
    BY <1>7 DEF GoReceived, CompleteTransfer, PauseServer, ResumeServer, ReopenGate
  <1>8. CASE ServerClose
    BY <1>8 DEF ServerClose, TransferTypeInv, TransferTypeOK
  <1>9. QED
    BY <1>1, <1>2, <1>3, <1>4, <1>5, <1>6, <1>7, <1>8 DEF TransferNext, ClientStep, ServerStep

LEMMA LentInductive == TransferSpec => []Lent
  <1>1. TransferInit => TransferTypeInv /\ Lent
    BY TransferTypeInit DEF TransferInit, Lent
  <1>2. TransferTypeInv /\ Lent /\ [TransferNext]_vars => (TransferTypeInv /\ Lent)'
    <2> SUFFICES ASSUME TransferTypeInv, Lent, [TransferNext]_vars
                 PROVE  TransferTypeInv' /\ Lent'
      OBVIOUS
    <2>1. TransferTypeInv'
      BY TransferTypeStep
    <2>2. CASE UNCHANGED vars
      BY <2>1, <2>2, ClientFrame, ServerFrame DEF vars, Lent
    <2>3. QED
      BY <2>1, <2>2, LentStep
  <1>3. QED
    BY <1>1, <1>2, PTL DEF TransferSpec

\* Whatever calls cut in and whoever gives up: the writer's gate is shut only while the server is
\* in a hand-shake or a transfer callback, its transport is paused during the callback and at
\* no other time, and the client's, while the connection is there, from its hand-shake to the
\* end of its callback, or after a hand-shake that failed (the finding transfer_wedged).
THEOREM PausesGivenBack ==
    TransferSpec => [](/\ ~gate => takeover \in {"handshake", "raw"}
                       /\ serverPaused <=> takeover = "raw"
                       /\ clientPaused /\ open => stage \in {"prepared", "raw", "failed"})
  <1>1. TransferTypeOK /\ Lent => /\ ~gate => takeover \in {"handshake", "raw"}
                                  /\ serverPaused <=> takeover = "raw"
                                  /\ clientPaused /\ open => stage \in {"prepared", "raw", "failed"}
    BY DEF TransferTypeOK, Lent
  <1>2. QED
    BY <1>1, TransferTypeCorrect, LentInductive, PTL

\* A client that has paused has read everything there was.
Quiet == stage \in {"prepared", "raw"} /\ open => clientPaused /\ clientBuffer = <<>>

\* Stream bytes go one way, and framing reads none of them.
Framing ==
    /\ direction = "UPLOAD" => Only(toClient, Frames)
    /\ direction = "DOWNLOAD" => Only(toServer, Frames)
    /\ open /\ stage # "failed" => Only(serverBuffer, Frames) /\ Only(clientBuffer, Frames)

\* Back from the server to whoever waits for it.
OnTheWayBack(x) ==
    Contains(outbound, x) \/ held = x \/ Contains(toClient, x) \/ Contains(clientBuffer, x)

OnTheWay(c) ==
    Contains(toServer, c) \/ Contains(serverBuffer, c) \/ c \in working \/ OnTheWayBack(c)

\* A call whose request was sent has it or its reply under way.
CallsKept ==
    \A c \in Calls : call[c] = "sent" /\ stage # "failed" /\ open => OnTheWay(c)

\* The result of a transfer that is over has not been read yet.
ResultKept ==
    takeover = "over" /\ UnderWay /\ open => OnTheWayBack("final")

KeptInv == HandInv /\ Lent /\ Quiet /\ Framing /\ CallsKept /\ ResultKept

LEMMA QuietStep ==
    ASSUME HandInv, Quiet, TransferNext, open'
    PROVE  Quiet'
  <1> USE ClientFrame, ServerFrame DEF Quiet
  <1>1. open /\ ~Lose /\ ~ClientLoses /\ ~ServerClose
    BY OpenStep
  <1>2. CASE Prepare
    <2>1. clientBuffer = <<>>
      BY <1>1, <1>2 DEF HandInv, TransferInv, Wire, NothingToClient, Prepare
    <2>2. QED
      BY <1>2, <2>1 DEF Prepare, PauseClient
  <1>3. CASE \/ \E c \in Calls : CheckCall(c) \/ SendCall(c)
             \/ BeginTransfer \/ SendRequest \/ ClientReceive \/ ClientRead \/ StartCallback
             \/ PrepareTimesOut \/ ClientStream \/ ClientFinish
    BY <1>1, <1>3
    DEF CheckCall, SendCall, BeginTransfer, SendRequest, ClientReceive, ClientRead, StartCallback,
        PrepareTimesOut, ClientStream, ClientFinish
  <1>4. CASE ServerStep
    BY <1>1, <1>4
    DEF ServerStep, Reply, ServerReceive, ServerRead, Notify, Negotiate, StartTransfer, GoReceived,
        ServerStream, CompleteTransfer, WriterTake, WriterWake
  <1>5. QED
    BY <1>1, <1>2, <1>3, <1>4 DEF TransferNext, ClientStep

\* What either loop takes from the socket is a frame.
LEMMA LoopsReadFrames ==
    ASSUME HandInv, Lent, Framing, open, stage # "failed"
    PROVE  /\ ServerReceive => Head(toServer) \in Frames
           /\ ClientReceive => Head(toClient) \in Frames
  <1> USE DEF HandInv, TransferInv, TransferTypeInv, TransferTypeOK
  <1>1. \A s \in Seq(Items) : \A X : s # <<>> /\ Only(s, X) => Head(s) \in X
    BY OnlyTail
  <1>2. \A s \in Seq(Items) : \A buffer, x, X :
           s # <<>> /\ LastOf(buffer, s, x, X) => Head(s) \in X \cup {x}
    <2> SUFFICES ASSUME NEW s \in Seq(Items), NEW buffer, NEW x, NEW X,
                        s # <<>>, LastOf(buffer, s, x, X)
                 PROVE  Head(s) \in X \cup {x}
      OBVIOUS
    <2>1. Len(s) \in Nat \ {0} /\ Head(s) = s[1]
      BY TailFacts
    <2>2. s[Len(s)] = x /\ \A i \in 1 .. Len(s) - 1 : s[i] \in X
      BY DEF LastOf
    <2>3. QED
      BY <2>1, <2>2
  <1>3. Replies \cup {"ready", "final", "request"} \subseteq Frames /\ Calls \subseteq Frames
    BY Names DEF Replies
  <1>4. ASSUME ServerReceive PROVE Head(toServer) \in Frames
    <2>1. toServer # <<>> /\ ~serverPaused /\ takeover # "raw"
      BY <1>4 DEF ServerReceive, Lent
    <2>2. CASE direction = "DOWNLOAD"
      BY <1>1, <2>1, <2>2 DEF Framing
    <2>3. CASE direction = "UPLOAD"
      <3>1. CASE stage \in {"idle", "begun"}
        BY <1>1, <1>3, <2>1, <3>1 DEF Wire, Before
      <3>2. CASE stage = "requested"
        <4>1. Asked
          BY <2>1, <2>3, <3>2
          DEF Wire, Deciding, Refused, Answered, Granted, NothingToServer
        <4>2. QED
          BY <1>2, <1>3, <2>1, <4>1 DEF Asked
      <3>3. CASE stage \in {"ready", "prepared"}
        BY <2>1, <2>3, <3>3 DEF Wire, Granted
      <3>4. CASE stage = "raw"
        BY <2>1, <2>3, <3>4 DEF Wire, Uploading
      <3>5. CASE stage \in {"finishing", "done"}
        BY <1>1, <2>1, <2>3, <3>5 DEF Returned, Uploaded
      <3>6. QED
        BY <3>1, <3>2, <3>3, <3>4, <3>5 DEF Stages
    <2>4. QED
      BY <2>2, <2>3, TransferAssumption
  <1>5. ASSUME ClientReceive PROVE Head(toClient) \in Frames
    <2>1. toClient # <<>> /\ ~clientPaused
      BY <1>5 DEF ClientReceive
    <2>2. CASE direction = "UPLOAD"
      BY <1>1, <2>1, <2>2 DEF Framing
    <2>3. CASE direction = "DOWNLOAD"
      <3>1. CASE stage \in {"idle", "begun"}
        BY <1>1, <1>3, <2>1, <3>1 DEF Wire, Before, Unanswered
      <3>2. CASE stage = "requested"
        <4>1. CASE Asked \/ Deciding
          BY <1>1, <1>3, <2>1, <4>1 DEF Asked, Deciding, Unanswered
        <4>2. CASE Refused
          BY <1>1, <1>3, <2>1, <4>2 DEF Refused
        <4>3. CASE Answered
          BY <1>2, <1>3, <2>1, <4>3 DEF Answered
        <4>4. QED
          BY <3>2, <4>1, <4>2, <4>3 DEF Wire
      <3>3. CASE stage = "ready"
        BY <2>1, <3>3 DEF Wire, NothingToClient
      <3>4. CASE stage \in {"prepared", "raw"}
        BY <2>1, <2>3, <3>4 DEF Wire, Downloading
      <3>5. CASE stage \in {"finishing", "done"}
        BY <1>1, <2>1, <2>3, <3>5 DEF Returned
      <3>6. QED
        BY <3>1, <3>2, <3>3, <3>4, <3>5 DEF Stages
    <2>4. QED
      BY <2>2, <2>3, TransferAssumption
  <1>6. QED
    BY <1>4, <1>5

\* Stream bytes stay in their direction and out of the loops' buffers.
LEMMA FramingStep ==
    ASSUME HandInv, Lent, Framing, TransferNext
    PROVE  Framing'
  <1> USE ClientFrame, ServerFrame DEF HandInv, TransferInv, TransferTypeInv, TransferTypeOK
  <1>1. /\ \A s \in Seq(Items), x \in Frames : Only(s, Frames) => Only(Append(s, x), Frames)
        /\ \A s \in Seq(Items) : s # <<>> /\ Only(s, Frames) => Only(Tail(s), Frames)
    BY OnlyAppend, OnlyTail, Names
  <1>2. Calls \cup {"request", "go", "ready"} \subseteq Frames
    BY Names
  <1>3. direction' = direction
    BY DEF TransferNext, ClientStep, ServerStep, Lose, CheckCall, SendCall, BeginTransfer,
           SendRequest, ClientReceive, ClientRead, Prepare, StartCallback, PrepareTimesOut,
           ClientStream, ClientFinish, ClientLoses, Reply, ServerReceive, ServerRead, Notify,
           Negotiate, StartTransfer, GoReceived, ServerStream, CompleteTransfer, WriterTake,
           WriterWake, ServerClose
  <1>4. direction = "UPLOAD" => Only(toClient', Frames)
    <2>1. CASE StartTransfer
      BY <1>1, <1>2, <2>1 DEF StartTransfer, Framing
    <2>2. CASE WriterTake \/ WriterWake
      <3>1. \/ toClient' = toClient
            \/ \E x \in Frames : toClient' = Append(toClient, x)
        BY <2>2, TailFacts DEF WriterTake, WriterWake
      <3>2. QED
        BY <1>1, <3>1 DEF Framing
    <2>3. CASE ClientReceive
      BY <1>1, <2>3 DEF ClientReceive, Framing
    <2>4. CASE ClientStream \/ ServerStream
      BY <2>4 DEF ClientStream, ServerStream, Framing
    <2>5. CASE \/ \E c \in Calls : CheckCall(c) \/ SendCall(c) \/ Reply(c)
               \/ BeginTransfer \/ SendRequest \/ ClientRead \/ Prepare \/ StartCallback
               \/ PrepareTimesOut \/ ClientFinish \/ ClientLoses \/ Lose
               \/ ServerReceive \/ ServerRead \/ Notify \/ Negotiate \/ GoReceived
               \/ CompleteTransfer \/ ServerClose
      BY <2>5
      DEF CheckCall, SendCall, Reply, BeginTransfer, SendRequest, ClientRead, Prepare,
          StartCallback, PrepareTimesOut, ClientFinish, ClientLoses, Lose, ServerReceive,
          ServerRead, Notify, Negotiate, GoReceived, CompleteTransfer, ServerClose, Framing
    <2>6. QED
      BY <2>1, <2>2, <2>3, <2>4, <2>5 DEF TransferNext, ClientStep, ServerStep
  <1>5. direction = "DOWNLOAD" => Only(toServer', Frames)
    <2>1. CASE \/ \E c \in Calls : SendCall(c)
               \/ SendRequest \/ Prepare
      BY <1>1, <1>2, <2>1 DEF SendCall, SendRequest, Prepare, Framing
    <2>2. CASE ServerReceive
      BY <1>1, <2>2 DEF ServerReceive, Framing
    <2>3. CASE ClientStream \/ ServerStream
      BY <2>3 DEF ClientStream, ServerStream, Framing
    <2>4. CASE \/ \E c \in Calls : CheckCall(c) \/ Reply(c)
               \/ BeginTransfer \/ ClientReceive \/ ClientRead \/ StartCallback
               \/ PrepareTimesOut \/ ClientFinish \/ ClientLoses \/ Lose
               \/ ServerRead \/ Notify \/ Negotiate \/ StartTransfer \/ GoReceived
               \/ CompleteTransfer \/ WriterTake \/ WriterWake \/ ServerClose
      BY <2>4
      DEF CheckCall, Reply, BeginTransfer, ClientReceive, ClientRead, StartCallback,
          PrepareTimesOut, ClientFinish, ClientLoses, Lose, ServerRead, Notify, Negotiate,
          StartTransfer, GoReceived, CompleteTransfer, WriterTake, WriterWake, ServerClose, Framing
    <2>5. QED
      BY <2>1, <2>2, <2>3, <2>4 DEF TransferNext, ClientStep, ServerStep
  <1>6. ASSUME open', stage' # "failed"
        PROVE  Only(serverBuffer', Frames) /\ Only(clientBuffer', Frames)
    <2>1. open /\ ~Lose /\ ~ClientLoses /\ ~ServerClose
      BY <1>6, OpenStep
    <2>2. stage # "failed"
      BY <1>6, <2>1
      DEF TransferNext, ClientStep, ServerStep, CheckCall, SendCall, BeginTransfer,
          SendRequest, ClientReceive, ClientRead, Prepare, StartCallback, PrepareTimesOut,
          ClientStream, ClientFinish, Reply, ServerReceive, ServerRead, Notify,
          Negotiate, StartTransfer, GoReceived, ServerStream, CompleteTransfer, WriterTake,
          WriterWake
    <2>3. Only(serverBuffer, Frames) /\ Only(clientBuffer, Frames)
      BY <2>1, <2>2 DEF Framing
    <2>4. CASE ServerReceive
      <3>1. Head(toServer) \in Frames
        BY <2>1, <2>2, <2>4, LoopsReadFrames
      <3>2. QED
        BY <1>1, <2>3, <2>4, <3>1 DEF ServerReceive
    <2>5. CASE ClientReceive
      <3>1. Head(toClient) \in Frames
        BY <2>1, <2>2, <2>5, LoopsReadFrames
      <3>2. QED
        BY <1>1, <2>3, <2>5, <3>1 DEF ClientReceive
    <2>6. CASE ServerRead \/ ClientRead
      BY <1>1, <2>3, <2>6 DEF ServerRead, ClientRead
    <2>7. CASE \/ \E c \in Calls : CheckCall(c) \/ SendCall(c) \/ Reply(c)
               \/ BeginTransfer \/ SendRequest \/ Prepare \/ StartCallback
               \/ PrepareTimesOut \/ ClientStream \/ ClientFinish
               \/ Notify \/ Negotiate \/ StartTransfer \/ GoReceived \/ ServerStream
               \/ CompleteTransfer \/ WriterTake \/ WriterWake
      BY <2>3, <2>7
      DEF CheckCall, SendCall, Reply, BeginTransfer, SendRequest, Prepare, StartCallback,
          PrepareTimesOut, ClientStream, ClientFinish, Notify, Negotiate, StartTransfer,
          GoReceived, ServerStream, CompleteTransfer, WriterTake, WriterWake
    <2>8. QED
      BY <2>1, <2>4, <2>5, <2>6, <2>7 DEF TransferNext, ClientStep, ServerStep
  <1>7. QED
    BY <1>3, <1>4, <1>5, <1>6 DEF Framing

\* ... and what a callback takes from it is of the stream.
LEMMA CallbacksReadStream ==
    ASSUME HandInv, open, stage # "failed"
    PROVE  /\ ClientStream /\ direction = "DOWNLOAD" => Head(toClient) = "raw"
           /\ ServerStream /\ direction = "UPLOAD" => Head(toServer) = "raw"
  <1> USE DEF HandInv, TransferInv, TransferTypeInv, TransferTypeOK
  <1>1. \A s \in Seq(Items) : s # <<>> /\ Only(s, {"raw"}) => Head(s) = "raw"
    BY OnlyTail
  <1>2. ASSUME ClientStream, direction = "DOWNLOAD" PROVE Head(toClient) = "raw"
    <2>1. /\ stage = "raw" /\ toClient # <<>> /\ ~Streamed(clientBuffer \o toClient)
          /\ Downloading /\ clientBuffer = <<>>
      BY <1>2 DEF ClientStream, Wire, Downloading
    <2>2. CASE takeover = "raw"
      BY <1>1, <2>1, <2>2 DEF Downloading
    <2>3. CASE takeover = "over"
      <3>1. left = 0 /\ RawFirst(toClient)
        BY <2>1, <2>3 DEF Downloading
      <3>2. clientBuffer \o toClient = toClient
        BY <2>1, ContainsFacts
      <3>3. Contains(toClient, "raw")
        BY <2>1, <3>1, <3>2 DEF Streamed
      <3>4. QED
        BY <3>1, <3>3, ContainsFacts
    <2>4. QED
      BY <2>1, <2>2, <2>3 DEF Downloading
  <1>3. ASSUME ServerStream, direction = "UPLOAD" PROVE Head(toServer) = "raw"
    <2>1. takeover = "raw" /\ toServer # <<>> /\ ~Streamed(serverBuffer \o toServer)
      BY <1>3 DEF ServerStream
    <2>2. stage \in {"raw", "finishing", "done"}
      BY <1>3, <2>1
      DEF Wire, Before, Asked, Deciding, Refused, Answered, Granted, NothingToServer, Stages
    <2>3. CASE stage = "raw"
      BY <1>1, <1>3, <2>1, <2>3 DEF Wire, Uploading
    <2>4. CASE stage \in {"finishing", "done"}
      <3>1. left = 0 /\ RawFirst(toServer) /\ serverBuffer = <<>>
        BY <1>3, <2>1, <2>4 DEF Returned, Uploaded
      <3>2. serverBuffer \o toServer = toServer
        BY <3>1, ContainsFacts
      <3>3. Contains(toServer, "raw")
        BY <2>1, <3>1, <3>2 DEF Streamed
      <3>4. QED
        BY <3>1, <3>3, ContainsFacts
    <2>5. QED
      BY <2>2, <2>3, <2>4
  <1>4. QED
    BY <1>2, <1>3

\* Whoever waits for a frame is given $/transferGo.
LEMMA GoIsAwaited ==
    ASSUME HandInv, open, stage # "failed", awaitFrame = "waiting", serverBuffer # <<>>
    PROVE  Head(serverBuffer) = "go"
  <1> USE DEF HandInv, TransferInv, TransferTypeInv, TransferTypeOK
  <1>1. takeover = "handshake" /\ direction = "DOWNLOAD"
    BY TransferAssumption DEF Whole
  <1>2. stage \in {"prepared", "raw"} /\ LastOf(serverBuffer, toServer, "go", {})
    BY <1>1
    DEF Wire, Before, Asked, Deciding, Refused, Answered, Granted, Downloading, NothingToServer,
        Returned, Stages
  <1>3. Len(serverBuffer) \in Nat \ {0} /\ Head(serverBuffer) = serverBuffer[1]
    BY TailFacts
  <1>4. toServer = <<>> /\ serverBuffer[Len(serverBuffer)] = "go" /\ Len(serverBuffer) = 1
    <2>1. toServer = <<>>
      BY <1>2, <1>3 DEF LastOf, Only
    <2>2. /\ serverBuffer[Len(serverBuffer)] = "go"
          /\ \A i \in 1 .. Len(serverBuffer) - 1 : FALSE
      BY <1>2, <2>1 DEF LastOf
    <2>3. Len(serverBuffer) = 1
      <3>1. SUFFICES ASSUME Len(serverBuffer) # 1 PROVE FALSE
        OBVIOUS
      <3>2. \A n \in Nat \ {0} : n # 1 => 1 \in 1 .. n - 1
        OBVIOUS
      <3>3. 1 \in 1 .. Len(serverBuffer) - 1
        BY <1>3, <3>1, <3>2
      <3>4. QED
        BY <2>2, <3>3
    <2>4. QED
      BY <2>1, <2>2, <2>3
  <1>5. QED
    BY <1>3, <1>4

\* What an element's place in a queue has to do with sending and receiving.
LEMMA Moved ==
    ASSUME NEW S, NEW s \in Seq(S), NEW x
    PROVE  /\ \A y \in S : Contains(Append(s, y), x) <=> Contains(s, x) \/ x = y
           /\ s # <<>> /\ Contains(s, x) => x = Head(s) \/ Contains(Tail(s), x)
  <1>1. ASSUME NEW y \in S PROVE Contains(Append(s, y), x) <=> Contains(s, x) \/ x = y
    <2>1. /\ Len(s) \in Nat /\ Len(Append(s, y)) = Len(s) + 1
          /\ Append(s, y)[Len(s) + 1] = y
          /\ \A i \in 1 .. Len(s) : Append(s, y)[i] = s[i]
      BY AppendFacts
    <2>2. 1 .. Len(s) + 1 = (1 .. Len(s)) \cup {Len(s) + 1}
      BY <2>1
    <2>3. QED
      BY <2>1, <2>2 DEF Contains
  <1>2. ASSUME s # <<>>, Contains(s, x), x # Head(s) PROVE Contains(Tail(s), x)
    <2>1. /\ Len(s) \in Nat \ {0} /\ Len(Tail(s)) = Len(s) - 1 /\ Head(s) = s[1]
          /\ \A i \in 1 .. Len(s) - 1 : Tail(s)[i] = s[i + 1]
      BY <1>2, TailFacts
    <2>2. PICK i \in 1 .. Len(s) : s[i] = x
      BY <1>2 DEF Contains
    <2>3. i # 1 /\ i - 1 \in 1 .. Len(s) - 1 /\ (i - 1) + 1 = i
      BY <1>2, <2>1, <2>2
    <2>4. Tail(s)[i - 1] = x
      BY <2>1, <2>2, <2>3
    <2>5. QED
      BY <2>1, <2>3, <2>4 DEF Contains
  <1>3. QED
    BY <1>1, <1>2


\* What is on the way back stays so until the client reads it.
LEMMA BackStep ==
    ASSUME HandInv, TransferNext, open', stage # "failed", NEW x \in Frames, OnTheWayBack(x)
    PROVE  OnTheWayBack(x)' \/ (ClientRead /\ clientBuffer # <<>> /\ Head(clientBuffer) = x)
  <1> USE ClientFrame, ServerFrame DEF HandInv, TransferInv, TransferTypeInv, TransferTypeOK
  <1>1. open /\ ~Lose /\ ~ClientLoses /\ ~ServerClose
    BY OpenStep
  <1>2. x # "none" /\ x # "raw" /\ Calls \cup {"final", "notice", "ready", "raw"} \subseteq Items
    BY Names, RawItem
  <1>3. /\ \A s \in Seq(Items), y \in Items : Contains(s, x) => Contains(Append(s, y), x)
        /\ \A s \in Seq(Items) : s # <<>> /\ Contains(s, x) => x = Head(s) \/ Contains(Tail(s), x)
        /\ \A s \in Seq(Items) : Contains(Append(s, x), x)
        /\ \A s \in Seq(Frames), y \in Frames : Contains(s, x) => Contains(Append(s, y), x)
        /\ \A s \in Seq(Frames) : s # <<>> /\ Contains(s, x) => x = Head(s) \/ Contains(Tail(s), x)
    BY Moved, Names
  <1>4. CASE WriterTake
    <2>1. outbound # <<>> /\ Head(outbound) \in Frames /\ Head(outbound) \in Items
      BY <1>4, TailFacts, Names DEF WriterTake
    <2>2. CASE gate
      BY <1>3, <1>4, <2>1, <2>2 DEF WriterTake, OnTheWayBack
    <2>3. CASE ~gate
      BY <1>2, <1>3, <1>4, <2>1, <2>3 DEF WriterTake, OnTheWayBack
    <2>4. QED
      BY <2>2, <2>3
  <1>5. CASE WriterWake
    <2>1. held \in Items /\ toClient' = Append(toClient, held)
      BY <1>5, Names DEF WriterWake
    <2>2. QED
      BY <1>3, <1>5, <2>1 DEF WriterWake, OnTheWayBack
  <1>6. CASE ClientReceive
    <2>1. Head(toClient) \in Items /\ toClient # <<>>
      BY <1>6, TailFacts DEF ClientReceive
    <2>2. QED
      BY <1>3, <1>6, <2>1 DEF ClientReceive, OnTheWayBack
  <1>7. CASE ClientRead
    BY <1>3, <1>7 DEF ClientRead, OnTheWayBack
  <1>8. CASE ClientStream \/ ServerStream
    <2>1. CASE ClientStream /\ direction = "DOWNLOAD"
      <3>1. Head(toClient) = "raw" /\ toClient # <<>> /\ toClient' = Tail(toClient)
        BY <1>1, <2>1, CallbacksReadStream DEF ClientStream
      <3>2. QED
        BY <1>2, <1>3, <2>1, <3>1 DEF ClientStream, OnTheWayBack
    <2>2. CASE toClient' = toClient \/ toClient' = Append(toClient, "raw")
      BY <1>2, <1>3, <1>8, <2>2 DEF ClientStream, ServerStream, OnTheWayBack
    <2>3. QED
      BY <1>8, <2>1, <2>2 DEF ClientStream, ServerStream
  <1>9. CASE StartTransfer
    BY <1>2, <1>3, <1>9 DEF StartTransfer, OnTheWayBack
  <1>10. CASE \/ \E c \in Calls : Reply(c)
              \/ Notify \/ Negotiate \/ CompleteTransfer
    <2>1. /\ UNCHANGED <<held, toClient, clientBuffer>>
          /\ outbound' = outbound \/ \E y \in Frames : outbound' = Append(outbound, y)
      BY <1>10, Names DEF Reply, Notify, Negotiate, CompleteTransfer
    <2>2. QED
      BY <1>3, <2>1 DEF OnTheWayBack
  <1>11. CASE \/ \E c \in Calls : CheckCall(c) \/ SendCall(c)
              \/ BeginTransfer \/ SendRequest \/ Prepare \/ StartCallback \/ PrepareTimesOut
              \/ ClientFinish \/ ServerReceive \/ ServerRead \/ GoReceived
    BY <1>11
    DEF CheckCall, SendCall, BeginTransfer, SendRequest, Prepare, StartCallback, PrepareTimesOut,
        ClientFinish, ServerReceive, ServerRead, GoReceived, OnTheWayBack
  <1>12. QED
    BY <1>1, <1>4, <1>5, <1>6, <1>7, <1>8, <1>9, <1>10, <1>11
    DEF TransferNext, ClientStep, ServerStep

\* A request and its reply are one call's, from its post to the read of its answer.
LEMMA WayStep ==
    ASSUME HandInv, Lent, TransferNext, open', stage # "failed", NEW c \in Calls, OnTheWay(c)
    PROVE  OnTheWay(c)' \/ (ClientRead /\ Head(clientBuffer) = c)
  <1> USE ClientFrame, ServerFrame DEF HandInv, TransferInv, TransferTypeInv, TransferTypeOK
  <1>1. open /\ ~Lose /\ ~ClientLoses /\ ~ServerClose /\ serving
    BY OpenStep DEF Lent
  <1>2. /\ c \in Frames /\ c \in Items /\ c # "go" /\ c # "raw" /\ c # "request"
        /\ "request" \in Items /\ "go" \in Items /\ "raw" \in Items
    BY Names, RawItem
  <1>3. /\ \A s \in Seq(Items), y \in Items : Contains(s, c) => Contains(Append(s, y), c)
        /\ \A s \in Seq(Items) : s # <<>> /\ Contains(s, c) => c = Head(s) \/ Contains(Tail(s), c)
        /\ \A s \in Seq(Items) : Contains(Append(s, c), c)
        /\ \A s \in Seq(Frames) : Contains(Append(s, c), c)
    BY <1>2, Moved, Names
  <1>4. CASE OnTheWayBack(c)
    BY <1>2, <1>4, BackStep DEF OnTheWay
  <1>5. CASE c \in working
    <2>1. CASE \E d \in Calls : Reply(d)
      <3>1. PICK d \in Calls : Reply(d)
        BY <2>1
      <3>2. CASE d = c
        <4>1. outbound' = Append(outbound, c)
          BY <1>1, <3>1, <3>2 DEF Reply
        <4>2. QED
          BY <1>3, <4>1 DEF OnTheWay, OnTheWayBack
      <3>3. CASE d # c
        BY <1>5, <3>1, <3>3 DEF Reply, OnTheWay
      <3>4. QED
        BY <3>2, <3>3
    <2>2. CASE ~ \E d \in Calls : Reply(d)
      <3>1. c \in working'
        BY <1>1, <1>5, <2>2
        DEF TransferNext, ClientStep, ServerStep, CheckCall, SendCall, BeginTransfer,
            SendRequest, ClientReceive, ClientRead, Prepare, StartCallback, PrepareTimesOut,
            ClientStream, ClientFinish, ServerReceive, ServerRead, Notify, Negotiate,
            StartTransfer, GoReceived, ServerStream, CompleteTransfer, WriterTake, WriterWake
      <3>2. QED
        BY <3>1 DEF OnTheWay
    <2>3. QED
      BY <2>1, <2>2
  <1>6. CASE Contains(serverBuffer, c)
    <2>1. CASE ServerReceive
      <3>1. Head(toServer) \in Items
        BY <2>1, TailFacts DEF ServerReceive
      <3>2. QED
        BY <1>3, <1>6, <2>1, <3>1 DEF ServerReceive, OnTheWay
    <2>2. CASE ServerRead
      <3>1. serverBuffer # <<>> /\ serverBuffer' = Tail(serverBuffer)
        BY <2>2 DEF ServerRead
      <3>2. CASE Head(serverBuffer) = c
        <4>1. awaitFrame # "waiting"
          BY <1>1, <1>2, <3>1, <3>2, GoIsAwaited
        <4>2. c \in working'
          BY <2>2, <3>2, <4>1 DEF ServerRead
        <4>3. QED
          BY <4>2 DEF OnTheWay
      <3>3. CASE Head(serverBuffer) # c
        BY <1>3, <1>6, <3>1, <3>3 DEF OnTheWay
      <3>4. QED
        BY <3>2, <3>3
    <2>3. CASE ~ServerReceive /\ ~ServerRead
      <3>1. serverBuffer' = serverBuffer
        BY <1>1, <2>3
        DEF TransferNext, ClientStep, ServerStep, CheckCall, SendCall, BeginTransfer,
            SendRequest, ClientReceive, ClientRead, Prepare, StartCallback, PrepareTimesOut,
            ClientStream, ClientFinish, Reply, Notify, Negotiate,
            StartTransfer, GoReceived, ServerStream, CompleteTransfer, WriterTake, WriterWake
      <3>2. QED
        BY <1>6, <3>1 DEF OnTheWay
    <2>4. QED
      BY <2>1, <2>2, <2>3
  <1>7. CASE Contains(toServer, c)
    <2>1. CASE ServerReceive
      <3>1. /\ toServer # <<>> /\ toServer' = Tail(toServer)
            /\ serverBuffer' = Append(serverBuffer, Head(toServer))
        BY <2>1 DEF ServerReceive
      <3>2. QED
        BY <1>3, <1>7, <3>1 DEF OnTheWay
    <2>2. CASE ServerStream /\ direction = "UPLOAD"
      <3>1. Head(toServer) = "raw" /\ toServer # <<>> /\ toServer' = Tail(toServer)
        BY <1>1, <2>2, CallbacksReadStream DEF ServerStream
      <3>2. QED
        BY <1>2, <1>3, <1>7, <3>1 DEF OnTheWay
    <2>3. CASE toServer' = toServer \/ \E y \in Items : toServer' = Append(toServer, y)
      BY <1>3, <1>7, <2>3 DEF OnTheWay
    <2>4. ~ServerReceive /\ ~(ServerStream /\ direction = "UPLOAD") =>
             toServer' = toServer \/ \E y \in Items : toServer' = Append(toServer, y)
      BY <1>1, <1>2, Names
      DEF TransferNext, ClientStep, ServerStep, CheckCall, SendCall, BeginTransfer,
          SendRequest, ClientReceive, ClientRead, Prepare, StartCallback, PrepareTimesOut,
          ClientStream, ClientFinish, Reply, ServerRead, Notify, Negotiate,
          StartTransfer, GoReceived, ServerStream, CompleteTransfer, WriterTake, WriterWake
    <2>5. QED
      BY <2>1, <2>2, <2>3, <2>4
  <1>8. QED
    BY <1>4, <1>5, <1>6, <1>7 DEF OnTheWay

LEMMA CallsKeptStep ==
    ASSUME HandInv, Lent, CallsKept, TransferNext
    PROVE  CallsKept'
  <1> USE ClientFrame, ServerFrame DEF HandInv, TransferInv, TransferTypeInv, TransferTypeOK
  <1> SUFFICES ASSUME NEW c \in Calls, call'[c] = "sent", stage' # "failed", open'
               PROVE  OnTheWay(c)'
    BY DEF CallsKept
  <1>1. open /\ ~Lose /\ ~ClientLoses /\ ~ServerClose
    BY OpenStep
  <1>2. stage # "failed"
    BY <1>1
    DEF TransferNext, ClientStep, ServerStep, CheckCall, SendCall, BeginTransfer,
        SendRequest, ClientReceive, ClientRead, Prepare, StartCallback, PrepareTimesOut,
        ClientStream, ClientFinish, Reply, ServerReceive, ServerRead, Notify,
        Negotiate, StartTransfer, GoReceived, ServerStream, CompleteTransfer, WriterTake,
        WriterWake
  <1>3. CASE SendCall(c)
    <2>1. c \in Items /\ toServer' = Append(toServer, c)
      BY <1>3, Names DEF SendCall
    <2>2. QED
      BY <2>1, Moved DEF OnTheWay
  <1>4. CASE ~SendCall(c)
    <2>1. call[c] = "sent"
      BY <1>1, <1>4
      DEF TransferNext, ClientStep, ServerStep, CheckCall, SendCall, BeginTransfer,
          SendRequest, ClientReceive, ClientRead, Prepare, StartCallback, PrepareTimesOut,
          ClientStream, ClientFinish, Reply, ServerReceive, ServerRead, Notify,
          Negotiate, StartTransfer, GoReceived, ServerStream, CompleteTransfer, WriterTake,
          WriterWake
    <2>2. ~(ClientRead /\ Head(clientBuffer) = c)
      BY DEF ClientRead
    <2>3. OnTheWay(c)
      BY <1>1, <1>2, <2>1 DEF CallsKept
    <2>4. QED
      BY <1>2, <2>2, <2>3, WayStep
  <1>5. QED
    BY <1>3, <1>4

LEMMA ResultKeptStep ==
    ASSUME HandInv, Quiet, ResultKept, TransferNext
    PROVE  ResultKept'
  <1> USE ClientFrame, ServerFrame DEF HandInv, TransferInv, TransferTypeInv, TransferTypeOK
  <1> SUFFICES ASSUME takeover' = "over", UnderWay', open'
               PROVE  OnTheWayBack("final")'
    BY DEF ResultKept
  <1>1. open /\ ~Lose /\ ~ClientLoses /\ ~ServerClose
    BY OpenStep
  <1>2. stage' \notin {"idle", "done", "failed"}
    BY DEF UnderWay
  <1>3. "final" \in Frames
    BY Names
  <1>4. CASE takeover # "over"
    <2>1. outbound' = Append(outbound, "final")
      BY <1>1, <1>4, TakeoverRead
      DEF TransferNext, ClientStep, ServerStep, CheckCall, SendCall, BeginTransfer,
          SendRequest, ClientReceive, ClientRead, Prepare, StartCallback, PrepareTimesOut,
          ClientStream, ClientFinish, Reply, ServerReceive, Notify,
          Negotiate, StartTransfer, GoReceived, ServerStream, CompleteTransfer, WriterTake,
          WriterWake
    <2>2. QED
      BY <1>3, <2>1, Moved DEF OnTheWayBack
  <1>5. CASE takeover = "over"
    <2>1. stage \notin {"idle", "begun"}
      BY <1>5 DEF AskedOnce
    <2>2. stage \notin {"done", "failed"}
      BY <1>1, <1>2
      DEF TransferNext, ClientStep, ServerStep, CheckCall, SendCall, BeginTransfer,
          SendRequest, ClientReceive, ClientRead, Prepare, StartCallback, PrepareTimesOut,
          ClientStream, ClientFinish, Reply, ServerReceive, ServerRead, Notify,
          Negotiate, StartTransfer, GoReceived, ServerStream, CompleteTransfer, WriterTake,
          WriterWake
    <2>3. OnTheWayBack("final")
      BY <1>1, <1>5, <2>1, <2>2 DEF ResultKept, UnderWay
    <2>4. ~(ClientRead /\ clientBuffer # <<>> /\ Head(clientBuffer) = "final")
      <3>1. SUFFICES ASSUME ClientRead, clientBuffer # <<>>, Head(clientBuffer) = "final"
                     PROVE  FALSE
        OBVIOUS
      <3>2. stage \notin {"prepared", "raw"}
        BY <1>1, <3>1 DEF Quiet
      <3>3. stage # "ready"
        BY <1>1, <3>1 DEF Wire, NothingToClient
      <3>4. stage \in {"requested", "finishing"}
        BY <2>1, <2>2, <3>2, <3>3 DEF Stages
      <3>5. stage' \in {"failed", "done"}
        BY <3>1, <3>4 DEF ClientRead
      <3>6. QED
        BY <1>2, <3>5
    <2>5. QED
      BY <1>3, <2>2, <2>3, <2>4, BackStep
  <1>6. QED
    BY <1>4, <1>5

LEMMA KeptInductive ==
    ASSUME Serial
    PROVE  TransferSpec => []KeptInv
  <1>1. TransferInit => KeptInv
    <2> SUFFICES ASSUME TransferInit PROVE KeptInv
      OBVIOUS
    <2>1. HandInv
      BY HandInvInit
    <2>2. \A X : Only(<<>>, X)
      BY DEF Only
    <2>3. QED
      BY <2>1, <2>2
      DEF TransferInit, KeptInv, Lent, Quiet, Framing, CallsKept, ResultKept, UnderWay
  <1>2. KeptInv /\ [TransferNext]_vars => KeptInv'
    <2> SUFFICES ASSUME KeptInv, [TransferNext]_vars
                 PROVE  KeptInv'
      OBVIOUS
    <2>1. HandInv'
      BY HandInvStep DEF KeptInv
    <2>2. CASE UNCHANGED vars
      BY <2>1, <2>2, ClientFrame, ServerFrame
      DEF vars, KeptInv, Lent, Quiet, Framing, CallsKept, OnTheWay, OnTheWayBack, ResultKept,
          UnderWay
    <2>3. CASE TransferNext
      <3>1. Lent' /\ Framing' /\ CallsKept' /\ ResultKept'
        BY <2>3, LentStep, FramingStep, CallsKeptStep, ResultKeptStep
        DEF KeptInv, HandInv, TransferInv
      <3>2. Quiet'
        <4>1. open' => Quiet'
          BY <2>3, QuietStep DEF KeptInv
        <4>2. QED
          BY <4>1 DEF Quiet
      <3>3. QED
        BY <2>1, <3>1, <3>2 DEF KeptInv
    <2>4. QED
      BY <2>2, <2>3
  <1>3. QED
    BY <1>1, <1>2, PTL DEF TransferSpec

\* No call is lost to a transfer: a request sent before it, or behind its stream, is on the socket,
\* with the server's loop or a worker, or its reply is queued, held at the gate or on its way
\* back. No hand-shake takes it for $/transferGo and no callback reads it as a chunk.
THEOREM CallsSurvive ==
    ASSUME Serial
    PROVE  TransferSpec => []CallsKept
  <1>1. KeptInv => CallsKept
    BY DEF KeptInv
  <1>2. QED
    BY <1>1, KeptInductive, PTL

\* Who may act: each line is the guard of an action that is fair.
ClientActs ==
    \/ stage \in {"begun", "ready", "prepared"}
    \/ /\ stage = "raw"
       /\ direction = "UPLOAD" \/ toClient # <<>> \/ Streamed(clientBuffer \o toClient)
    \/ ~clientPaused /\ toClient # <<>>
    \/ clientBuffer # <<>> /\ Head(clientBuffer) \in Frames

ServerActs ==
    \/ working # {}
    \/ takeover \in {"dispatched", "directed"}
    \/ takeover = "handshake" /\ awaitFrame \in Frames
    \/ /\ takeover = "raw"
       /\ direction = "DOWNLOAD" \/ toServer # <<>> \/ Streamed(serverBuffer \o toServer)
    \/ held = "none" /\ outbound # <<>>
    \/ held # "none" /\ gate
    \/ serving /\ ~serverPaused /\ toServer # <<>>
    \/ serving /\ serverBuffer # <<>> /\ Head(serverBuffer) \in Frames

Waiting == UnderWay \/ \E c \in Calls : call[c] = "sent"

Attended == open /\ stage # "failed" /\ Waiting => ClientActs \/ ServerActs

\* What is on the way back is moved on.
LEMMA BackAttended ==
    ASSUME KeptInv, open, stage \in {"idle", "requested", "finishing", "done"},
           NEW x \in Frames, OnTheWayBack(x)
    PROVE  ClientActs \/ ServerActs
  <1> USE DEF KeptInv, HandInv, TransferInv, TransferTypeInv, TransferTypeOK
  <1>1. \A s : Contains(s, x) /\ Len(s) = 0 => FALSE
    BY DEF Contains
  <1>2. ~Contains(<<>>, x)
    BY <1>1
  <1>3. CASE Contains(clientBuffer, x)
    BY <1>2, <1>3, OnlyTail, Names DEF Framing, ClientActs
  <1>4. CASE Contains(toClient, x)
    BY <1>2, <1>4 DEF Lent, ClientActs
  <1>5. CASE Contains(outbound, x) \/ held = x
    <2>1. CASE held = "none"
      BY <1>2, <1>5, <2>1, Names DEF ServerActs
    <2>2. CASE held # "none" /\ gate
      BY <2>2 DEF ServerActs
    <2>3. CASE ~gate
      <3>1. takeover \in {"handshake", "raw"}
        BY <2>3 DEF Lent
      <3>2. CASE stage \in {"finishing", "done"}
        <4>1. takeover = "raw" /\ left = 0
          BY <3>1, <3>2 DEF Returned
        <4>2. CASE direction = "DOWNLOAD"
          BY <4>1, <4>2 DEF ServerActs
        <4>3. CASE direction = "UPLOAD" /\ toServer = <<>>
          <5>1. serverBuffer = <<>>
            BY <3>2, <4>1, <4>3 DEF Returned, Uploaded
          <5>2. serverBuffer \o toServer = <<>>
            BY <4>3, <5>1
          <5>3. Streamed(serverBuffer \o toServer)
            BY <4>1, <5>2 DEF Streamed, Contains
          <5>4. QED
            BY <4>1, <5>3 DEF ServerActs
        <4>4. QED
          BY <4>1, <4>2, <4>3, TransferAssumption DEF ServerActs
      <3>3. CASE stage = "idle"
        BY <3>1, <3>3 DEF AskedOnce
      <3>4. CASE stage = "requested"
        <4>1. Refused \/ Answered
          BY <3>1, <3>4 DEF Wire, Asked, Deciding
        <4>2. Answered
          BY <3>1, <4>1 DEF Refused
        <4>3. toClient # <<>> \/ clientBuffer # <<>>
          BY <4>2 DEF Answered, LastOf
        <4>4. QED
          BY <3>4, <4>3, OnlyTail, Names DEF Framing, Lent, ClientActs
      <3>5. QED
        BY <3>2, <3>3, <3>4
    <2>4. QED
      BY <2>1, <2>2, <2>3
  <1>6. QED
    BY <1>3, <1>4, <1>5 DEF OnTheWayBack

\* So is what is on the way to the server.
LEMMA ThereAttended ==
    ASSUME KeptInv, open, stage # "failed", toServer # <<>> \/ serverBuffer # <<>>
    PROVE  ClientActs \/ ServerActs
  <1> USE DEF KeptInv, HandInv, TransferInv, TransferTypeInv, TransferTypeOK
  <1>1. CASE serverBuffer # <<>>
    BY <1>1, OnlyTail, Names DEF Framing, Lent, ServerActs
  <1>2. CASE toServer # <<>>
    BY <1>2, TransferAssumption DEF Lent, ServerActs
  <1>3. QED
    BY <1>1, <1>2

\* Stage by stage: whom the client waits for has something to do.
LEMMA KeptAttended ==
    ASSUME KeptInv
    PROVE  Attended
  <1> USE DEF KeptInv, HandInv, TransferInv, TransferTypeInv, TransferTypeOK
  <1> SUFFICES ASSUME open, stage # "failed", Waiting PROVE ClientActs \/ ServerActs
    BY DEF Attended
  <1>1. "final" \in Frames /\ Calls \subseteq Frames
    BY Names
  <1>2. CASE stage \in {"begun", "ready", "prepared"}
    BY <1>2 DEF ClientActs
  <1>3. CASE stage = "requested"
    <2>1. CASE Asked
      <3>1. toServer # <<>> \/ serverBuffer # <<>>
        BY <2>1 DEF Asked, LastOf
      <3>2. QED
        BY <1>3, <3>1, ThereAttended
    <2>2. CASE Deciding
      BY <2>2 DEF Deciding, ServerActs
    <2>3. CASE Refused
      BY <1>1, <1>3, <2>3, BackAttended DEF Refused, ResultKept, UnderWay
    <2>4. CASE Answered
      <3>1. toClient # <<>> \/ clientBuffer # <<>>
        BY <2>4 DEF Answered, LastOf
      <3>2. QED
        BY <1>3, <3>1, OnlyTail, Names DEF Framing, Lent, ClientActs
    <2>5. QED
      BY <1>3, <2>1, <2>2, <2>3, <2>4 DEF Wire
  <1>4. CASE stage = "raw"
    <2>1. CASE direction = "UPLOAD"
      BY <1>4, <2>1 DEF ClientActs
    <2>2. CASE direction = "DOWNLOAD"
      <3>1. Downloading /\ clientBuffer = <<>>
        BY <1>4, <2>2 DEF Wire, Downloading
      <3>2. CASE takeover = "handshake"
        <4>1. CASE awaitFrame = "go"
          BY <3>2, <4>1, Names DEF ServerActs
        <4>2. CASE LastOf(serverBuffer, toServer, "go", {})
          <5>1. toServer # <<>> \/ serverBuffer # <<>>
            BY <4>2 DEF LastOf
          <5>2. QED
            BY <1>4, <5>1, ThereAttended
        <4>3. QED
          BY <3>1, <3>2, <4>1, <4>2 DEF Downloading
      <3>3. CASE takeover = "raw"
        BY <2>2, <3>3 DEF ServerActs
      <3>4. CASE takeover = "over"
        <4>1. CASE toClient # <<>>
          BY <1>4, <4>1 DEF ClientActs
        <4>2. CASE toClient = <<>>
          <5>1. left = 0 /\ clientBuffer \o toClient = <<>>
            BY <3>1, <3>4, <4>2 DEF Downloading
          <5>2. Streamed(clientBuffer \o toClient)
            BY <5>1 DEF Streamed, Contains
          <5>3. QED
            BY <1>4, <5>2 DEF ClientActs
        <4>3. QED
          BY <4>1, <4>2
      <3>5. QED
        BY <3>1, <3>2, <3>3, <3>4 DEF Downloading
    <2>3. QED
      BY <2>1, <2>2, TransferAssumption
  <1>5. CASE stage = "finishing"
    <2>1. takeover \in {"raw", "over"} /\ left = 0
      BY <1>5 DEF Returned
    <2>2. CASE takeover = "over"
      BY <1>1, <1>5, <2>2, BackAttended DEF ResultKept, UnderWay
    <2>3. CASE takeover = "raw" /\ direction = "DOWNLOAD"
      BY <2>3 DEF ServerActs
    <2>4. CASE takeover = "raw" /\ direction = "UPLOAD"
      <3>1. serverBuffer = <<>>
        BY <1>5, <2>4 DEF Returned, Uploaded
      <3>2. toServer = <<>> => serverBuffer \o toServer = <<>>
        BY <3>1
      <3>3. toServer = <<>> => Streamed(serverBuffer \o toServer)
        BY <2>1, <3>2 DEF Streamed, Contains
      <3>4. QED
        BY <2>4, <3>3 DEF ServerActs
    <2>5. QED
      BY <2>1, <2>2, <2>3, <2>4, TransferAssumption
  <1>6. CASE stage \in {"idle", "done"}
    <2>1. PICK c \in Calls : call[c] = "sent"
      BY <1>6 DEF Waiting, UnderWay
    <2>2. OnTheWay(c) /\ c \in Frames
      BY <1>1, <2>1 DEF CallsKept
    <2>3. CASE OnTheWayBack(c)
      BY <1>6, <2>2, <2>3, BackAttended
    <2>4. CASE c \in working
      BY <2>4 DEF ServerActs
    <2>5. CASE Contains(toServer, c) \/ Contains(serverBuffer, c)
      <3>1. toServer # <<>> \/ serverBuffer # <<>>
        BY <2>5 DEF Contains
      <3>2. QED
        BY <3>1, ThereAttended
    <2>6. QED
      BY <2>2, <2>3, <2>4, <2>5 DEF OnTheWay
  <1>7. QED
    BY <1>2, <1>3, <1>4, <1>5, <1>6 DEF Stages

\* On a live connection nobody waits for nobody: as long as the caller of transfer() has not
\* returned, or a call has no answer yet, some loop, worker, writer or callback has something
\* to do, unless the transfer was given up. This is what TransferEnds and CallsOutliveTransfer
\* rest on besides fairness: no order of gate, pauses and hand-shake leaves both sides waiting.
THEOREM NobodyStuck ==
    ASSUME Serial
    PROVE  TransferSpec => []Attended
  BY KeptInductive, KeptAttended, PTL

-----------------------------------------------------------------------------
(* The end of a lost connection.                                           *)

\* The server's framing is given no byte of a stream, nor will be: not by a client that has
\* given up, nor on a connection that is lost half way.
Unread == Only(serverBuffer, Frames) /\ (takeover # "raw" => Only(toServer, Frames))

\* Who may act for a lost connection.  In the first line the callback returns, or reads on;
\* the others are the guards of ServerRead and of ServerClose.
EndActs ==
    \/ takeover = "raw"
    \/ serverBuffer # <<>> /\ Head(serverBuffer) \in Frames
    \/ serverBuffer = <<>> /\ ~serverPaused

EndAttended == serving /\ ~open => EndActs

LEMMA UnreadStep ==
    ASSUME HandInv, Lent, Framing, Unread, TransferNext
    PROVE  Unread'
  <1> USE ClientFrame, ServerFrame DEF HandInv, TransferInv, TransferTypeInv, TransferTypeOK
  <1>1. /\ \A s \in Seq(Items), x \in Frames : Only(s, Frames) => Only(Append(s, x), Frames)
        /\ \A s \in Seq(Items) : s # <<>> /\ Only(s, Frames) =>
               Head(s) \in Frames /\ Only(Tail(s), Frames)
    BY OnlyAppend, OnlyTail, Names
  <1>2. Calls \cup {"request", "go"} \subseteq Frames
    BY Names
  <1>3. CASE \/ \E c \in Calls : SendCall(c)
             \/ SendRequest \/ Prepare
    BY <1>1, <1>2, <1>3 DEF SendCall, SendRequest, Prepare, Unread
  <1>4. CASE ClientStream
    <2>1. UNCHANGED <<serverBuffer, takeover>>
      BY <1>4 DEF ClientStream
    <2>2. takeover # "raw" => toServer' = toServer
      BY <1>4 DEF ClientStream, Wire, Uploading, Unread
    <2>3. QED
      BY <2>1, <2>2 DEF Unread
  <1>5. CASE ServerReceive
    <2>1. takeover # "raw" /\ UNCHANGED takeover
      BY <1>5 DEF ServerReceive
    <2>2. QED
      BY <1>1, <1>5, <2>1 DEF ServerReceive, Unread
  <1>6. CASE ServerRead
    <2>1. takeover = "raw" => takeover' = "raw"
      BY <1>6, TakeoverRead
    <2>2. QED
      BY <1>1, <1>6, <2>1 DEF ServerRead, Unread
  <1>7. CASE ServerStream
    BY <1>7 DEF ServerStream, Unread
  <1>8. CASE CompleteTransfer
    <2>1. UNCHANGED <<serverBuffer, toServer>>
      BY <1>8 DEF CompleteTransfer
    <2>2. Only(toServer, Frames)
      <3>1. CASE direction = "DOWNLOAD"
        BY <3>1 DEF Framing
      <3>2. CASE direction = "UPLOAD" /\ toServer = <<>>
        BY <3>2 DEF Only
      <3>3. CASE direction = "UPLOAD" /\ ~Contains(serverBuffer \o toServer, "raw")
        BY <3>3, ContainsFacts
      <3>4. QED
        BY <1>8, <3>1, <3>2, <3>3, TransferAssumption DEF CompleteTransfer, Streamed
    <2>3. QED
      BY <2>1, <2>2 DEF Unread
  <1>9. CASE StartTransfer \/ GoReceived \/ Negotiate \/ ServerClose
    BY <1>9 DEF StartTransfer, GoReceived, Negotiate, ServerClose, Unread
  <1>10. CASE \/ \E c \in Calls : CheckCall(c) \/ Reply(c)
              \/ BeginTransfer \/ ClientReceive \/ ClientRead \/ StartCallback
              \/ PrepareTimesOut \/ ClientFinish \/ ClientLoses \/ Lose
              \/ Notify \/ WriterTake \/ WriterWake
    BY <1>10
    DEF CheckCall, Reply, BeginTransfer, ClientReceive, ClientRead, StartCallback,
        PrepareTimesOut, ClientFinish, ClientLoses, Lose, Notify, WriterTake, WriterWake, Unread
  <1>11. QED
    BY <1>3, <1>4, <1>5, <1>6, <1>7, <1>8, <1>9, <1>10 DEF TransferNext, ClientStep, ServerStep

\* Once the connection is lost the server can get to its end from wherever it is: out of a
\* callback, through frames already read, past a hand-shake nobody answers. Nothing of a stream is in
\* its buffer, where serve() would take it for a frame or wait for the rest of one.
THEOREM LossNoticed ==
    ASSUME Serial
    PROVE  TransferSpec => [](Unread /\ EndAttended)
  <1>1. TransferInit => Unread
    BY DEF TransferInit, Unread, Only
  <1>2. KeptInv /\ Unread /\ [TransferNext]_vars => Unread'
    <2>1. CASE UNCHANGED vars
      BY <2>1, ServerFrame, ClientFrame DEF vars, Unread
    <2>2. QED
      BY <2>1, UnreadStep DEF KeptInv
  <1>3. KeptInv /\ Unread => EndAttended
    BY TailFacts DEF KeptInv, HandInv, TransferInv, TransferTypeInv, TransferTypeOK, Lent, Unread,
                     EndAttended, EndActs, Only
  <1>4. QED
    BY <1>1, <1>2, <1>3, KeptInductive, PTL DEF TransferSpec

=============================================================================
