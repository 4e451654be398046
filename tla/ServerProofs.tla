---------------------------- MODULE ServerProofs ----------------------------
(***************************************************************************)
(* What Server promises, proved for any number of calls, connections and   *)
(* workers.                                                                *)
(*                                                                         *)
(* Every step of Server is a step of Dispatch or leaves the protocol       *)
(* object alone, so the theorems of DispatchProofs hold of it.             *)
(*                                                                         *)
(* The second part is about the line from the protocol's outbound queue to *)
(* a client: the notification thread's hand, the event loop's queue, the   *)
(* connection's queue, the wire.  What clients read comes in order, and    *)
(* hardly any progress after its reply.                                    *)
(***************************************************************************)
EXTENDS Server, DispatchProofs, FiniteSetTheorems, QueueLemmas

-----------------------------------------------------------------------------
(* Server implements Dispatch.                                             *)

\* A worker dispatches the frame that was read for a call, and nothing else.
Framed ==
    /\ frame \in [Calls -> Traffic \cup {None}]
    /\ work \in Seq({c \in Calls : frame[c] # None})
    /\ \A c \in Calls : pc[c] # "idle" => msg[c] = frame[c] /\ frame[c] # None

LEMMA ProtocolFrame ==
    ASSUME UNCHANGED vars
    PROVE  /\ msg' = msg /\ pc' = pc /\ reply' = reply /\ lifecycle' = lifecycle
           /\ socket' = socket /\ outbound' = outbound /\ stamp' = stamp
           /\ count' = count /\ inflight' = inflight
  BY DEF vars, requestVars, sessionVars, queueVars

LEMMA ServerFrame ==
    ASSUME UNCHANGED serverVars
    PROVE  /\ conn' = conn /\ frame' = frame /\ work' = work /\ future' = future
           /\ ready' = ready /\ hand' = hand /\ out' = out /\ wire' = wire
  BY DEF serverVars

\* The steps around the protocol object.
Around ==
    \/ \E s \in Sessions : HandleNegotiate(s) \/ Write(s) \/ Close(s) \/ Unregister(s)
                               \/ StopWriter(s)
    \/ \E c \in Calls, m \in Traffic : Receive(c, m)
    \/ DrainRoute
    \/ RunCallback

LEMMA AroundFrame == Around => UNCHANGED vars
  BY DEF Around, HandleNegotiate, Write, Close, Unregister, StopWriter, Receive, DrainRoute,
         RunCallback, CopyResult, OnDispatchDone, CancelDispatch, EnqueueOutbound

\* What a step of the server comes to.
LEMMA ServerStepCases ==
    ASSUME [ServerNext]_allVars
    PROVE  \/ Around
           \/ \E c \in Calls : Start(c) \/ Work(c)
           \/ \E e \in outbound : DrainPoll(e)
           \/ Produce
           \/ \E s \in Sessions : CloseSession(s)
           \/ UNCHANGED vars /\ UNCHANGED serverVars
  BY DEF ServerNext, Around, CloseStep, allVars

LEMMA NextDone ==
    ASSUME Framed, [ServerNext]_allVars
    PROVE  [Next]_vars
  <1>1. CASE Around
    BY <1>1, AroundFrame
  <1>2. ASSUME NEW c \in Calls, Start(c) PROVE [Next]_vars
    <2>1. Begin(c, frame[c]) /\ c \in {d \in Calls : frame[d] # None}
      BY <1>2, HeadRange DEF Start, Framed
    <2>2. frame[c] \in Traffic
      BY <2>1 DEF Framed
    <2>3. QED
      BY <2>1, <2>2 DEF Next
  <1>3. ASSUME NEW c \in Calls, Work(c) PROVE [Next]_vars
    BY <1>3 DEF Work, Next
  <1>4. ASSUME NEW e \in outbound, DrainPoll(e) PROVE [Next]_vars
    BY <1>4 DEF DrainPoll, Next
  <1>5. CASE Produce
    BY <1>5 DEF Produce, Next
  <1>6. ASSUME NEW s \in Sessions, CloseSession(s) PROVE [Next]_vars
    BY <1>6 DEF CloseSession, Next
  <1>7. QED
    BY <1>1, <1>2, <1>3, <1>4, <1>5, <1>6, ServerStepCases

LEMMA FramedStep ==
    ASSUME TypeOK, Framed, [ServerNext]_allVars
    PROVE  Framed'
  <1> DEFINE Read == {c \in Calls : frame[c] # None}
  <1>1. ASSUME NEW c \in Calls, NEW m \in Traffic, Receive(c, m) PROVE Framed'
    <2>1. /\ frame' = [frame EXCEPT ![c] = m] /\ work' = Append(work, c) /\ frame[c] = None
          /\ pc' = pc /\ msg' = msg
      BY <1>1, ProtocolFrame DEF Receive
    <2>2. m # None
      BY DispatchAssumption
    <2>3. frame' \in [Calls -> Traffic \cup {None}]
      BY <2>1 DEF Framed
    <2>4. Read \subseteq Read' /\ c \in Read'
      BY <2>1, <2>2 DEF Framed
    <2>5. work \in Seq(Read')
      BY <2>4, SeqGrows DEF Framed
    <2>6. work' \in Seq(Read')
      BY <2>1, <2>4, <2>5, AppendRange
    <2>7. QED
      BY <2>1, <2>3, <2>6 DEF Framed
  <1>2. ASSUME NEW c \in Calls, Start(c) PROVE Framed'
    <2>1. /\ work # <<>> /\ c = Head(work) /\ work' = Tail(work) /\ frame' = frame
          /\ Begin(c, frame[c])
      BY <1>2 DEF Start
    <2>2. work' \in Seq(Read') /\ c \in Read
      BY <2>1, HeadRange DEF Framed
    <2>3. /\ msg' = [msg EXCEPT ![c] = frame[c]]
          /\ \A d \in Calls \ {c} : pc'[d] = pc[d]
      BY <2>1 DEF Begin, TypeOK
    <2>4. QED
      BY <2>1, <2>2, <2>3 DEF Framed, TypeOK
  <1>3. ASSUME NEW c \in Calls, Work(c) PROVE Framed'
    <2>1. frame' = frame /\ work' = work /\ msg' = msg /\ pc[c] # "idle"
          /\ \A d \in Calls \ {c} : pc'[d] = pc[d]
      BY <1>3, ThreadFrame DEF Work, TypeOK
    <2>2. QED
      BY <2>1 DEF Framed
  <1>4. CASE RunCallback
    <2>1. frame' = frame /\ msg' = msg /\ pc' = pc
      BY <1>4, ProtocolFrame DEF RunCallback, CopyResult, OnDispatchDone, CancelDispatch,
                                 EnqueueOutbound
    <2>2. \/ work' = work
          \/ \E i \in 1 .. Len(work) : work' = RemoveAt(work, i)
      BY <1>4 DEF RunCallback, CopyResult, OnDispatchDone, CancelDispatch, EnqueueOutbound
    <2>3. work' \in Seq(Read)
      BY <2>2, RemoveRange DEF Framed
    <2>4. QED
      BY <2>1, <2>3 DEF Framed
  <1>5. CASE /\ UNCHANGED <<frame, work>>
             /\ UNCHANGED vars \/ UNCHANGED requestVars
    <2>1. msg' = msg /\ pc' = pc
      BY <1>5, ProtocolFrame DEF requestVars
    <2>2. QED
      BY <1>5, <2>1 DEF Framed
  <1>6. CASE Around
    <2>1. \/ RunCallback
          \/ \E c \in Calls, m \in Traffic : Receive(c, m)
          \/ UNCHANGED <<frame, work>> /\ UNCHANGED vars
      BY <1>6 DEF Around, HandleNegotiate, Write, Close, Unregister, StopWriter, DrainRoute
    <2>2. QED
      BY <1>1, <1>4, <1>5, <2>1
  <1>7. ASSUME NEW e \in outbound, DrainPoll(e) PROVE Framed'
    BY <1>5, <1>7 DEF DrainPoll, Poll
  <1>8. CASE Produce
    BY <1>5, <1>8, ServerFrame DEF Produce, Progress, Publish
  <1>9. ASSUME NEW s \in Sessions, CloseSession(s) PROVE Framed'
    BY <1>5, <1>9, ServerFrame DEF CloseSession, SocketDrop, SocketSweep
  <1>10. QED
    BY <1>2, <1>3, <1>5, <1>6, <1>7, <1>8, <1>9, ServerStepCases, ServerFrame

LEMMA FramedInit == ServerInit => Framed
  <1>1. \A S : <<>> \in Seq(S)
    OBVIOUS
  <1>2. QED
    BY <1>1 DEF ServerInit, Init, Framed

LEMMA Embedded ==
    /\ ServerInit => IInv /\ Framed
    /\ IInv /\ Framed /\ [ServerNext]_allVars => IInv' /\ Framed'
  <1>1. ServerInit => IInv /\ Framed
    BY IInvInit, FramedInit DEF ServerInit
  <1>2. IInv /\ Framed /\ [ServerNext]_allVars => IInv' /\ Framed'
    BY FramedStep, NextDone, IInvStep DEF IInv
  <1>3. QED
    BY <1>1, <1>2

\* The server drives the protocol object in no way Dispatch does not allow: each of its
\* steps, a worker's, the notification thread's or one of _close(), is a step of Dispatch or
\* leaves the protocol object alone.
THEOREM ServerImplementsDispatch == ServerSpec => Spec
  <1>1. ServerInit => Init
    BY DEF ServerInit
  <1>2. Framed /\ [ServerNext]_allVars => [Next]_vars
    BY NextDone
  <1>3. QED
    BY <1>1, <1>2, Embedded, PTL DEF ServerSpec, Spec

\* What Dispatch promises when clients do not repeat ids holds of a server with any
\* number of connections and workers: progress goes through the protocol object as through
\* ProgressChannel.
THEOREM ServerImplementsChannel ==
    ASSUME ~ReuseIds
    PROVE  ServerSpec => ImplementsChannel
  BY ServerImplementsDispatch, ChannelImplemented

-----------------------------------------------------------------------------
(* Type correctness.                                                       *)

Read == {c \in Calls : future[c] # "none"}

ServerTypeInv == ServerTypeOK /\ IsFiniteSet(Busy) /\ IsFiniteSet(Read)

LEMMA CallbackTypes ==
    /\ \A c \in Calls : /\ [run |-> "set", of |-> c] \in Callback
                        /\ [run |-> "done", of |-> c] \in Callback
                        /\ [run |-> "cancel", of |-> c] \in Callback
    /\ \A e \in Entry : [run |-> "enqueue", of |-> e] \in Callback
    /\ \A a \in Callback : IF a.run = "enqueue" THEN a.of \in Entry
                           ELSE a.run \in {"set", "done", "cancel"} /\ a.of \in Calls
  BY DEF Callback

LEMMA PacketTypes ==
    /\ \A c \in Calls : [kind |-> "reply", of |-> c] \in Packet
    /\ \A e \in Entry : [kind |-> "note", of |-> e] \in Packet
    /\ [kind |-> "stop"] \in Packet
  BY DEF Packet

LEMMA SendType ==
    ASSUME NEW q \in [Sessions -> Seq(Packet)], NEW s, NEW p \in Packet
    PROVE  [q EXCEPT ![s] = Append(@, p)] \in [Sessions -> Seq(Packet)]
  <1>1. CASE s \in Sessions
    <2>1. Append(q[s], p) \in Seq(Packet)
      BY <1>1, AppendRange
    <2>2. QED
      BY <2>1
  <1>2. CASE s \notin Sessions
    BY <1>2
  <1>3. QED
    BY <1>1, <1>2

LEMMA CancellationsType ==
    ASSUME ServerTypeInv, NEW s, NEW callbacks \in SetToSeqs(Cancellations(s))
    PROVE  callbacks \in Seq(Callback) /\ Range(callbacks) \subseteq Cancellations(s)
  <1> DEFINE D == {d \in Calls : future[d] = "pending" /\ Owner(d) = s}
             f == [c \in D |-> [run |-> "cancel", of |-> c]]
             T == Cancellations(s)
  <1>1. D \subseteq Read
    BY DEF Read
  <1>2. IsFiniteSet(D)
    BY <1>1, FS_Subset DEF ServerTypeInv
  <1>3. T = {[run |-> "cancel", of |-> c] : c \in D}
    BY DEF Cancellations
  <1>4. f \in Surjection(D, T)
    <2>1. f \in [D -> T] /\ \A t \in T : \E d \in D : f[d] = t
      BY <1>3
    <2>2. QED
      BY <2>1 DEF Surjection
  <1>5. IsFiniteSet(T) /\ Cardinality(T) \in Nat
    <2> HIDE DEF D, f, T
    <2>1. QED
      BY <1>2, <1>4, FS_Surjection, FS_CardinalityType
  <1>6. callbacks \in [1 .. Cardinality(T) -> T]
    BY DEF SetToSeqs
  <1>7. T \subseteq Callback
    BY <1>3, CallbackTypes
  <1>8. callbacks \in Seq(Callback) /\ DOMAIN callbacks = 1 .. Cardinality(T)
    <2> HIDE DEF T
    <2>1. QED
      BY <1>5, <1>6, <1>7
  <1>9. QED
    BY <1>6, <1>8 DEF Range

LEMMA ServerTypeInit == ServerInit => ServerTypeInv
  <1> SUFFICES ASSUME ServerInit PROVE ServerTypeInv
    OBVIOUS
  <1>1. Busy = {} /\ Read = {}
    BY DEF ServerInit, Init, Busy, Read
  <1>2. {c \in Calls : pc[c] \notin {"idle", "done"}} = Busy
    BY DEF Busy
  <1>3. \A S : <<>> \in Seq(S)
    OBVIOUS
  <1>4. Cardinality({c \in Calls : pc[c] \notin {"idle", "done"}}) <= MaxWorkers
    BY <1>1, <1>2, FS_EmptySet, ServerAssumption
  <1>5. /\ work \in Seq(Calls) /\ ready \in Seq(Callback)
        /\ out \in [Sessions -> Seq(Packet)] /\ wire \in [Sessions -> Seq(Packet)]
    BY <1>3 DEF ServerInit
  <1>6. QED
    BY <1>1, <1>4, <1>5, FS_EmptySet DEF ServerInit, ServerTypeOK, ServerTypeInv

\* What is left to say of a step that gives workers nothing new to do.
LEMMA TypeKept ==
    ASSUME ServerTypeInv, Busy' \subseteq Busy, Read' \subseteq Read,
           conn' \in [Sessions -> {"negotiating", "bound", "closing", "unregistered", "closed"}],
           frame' \in [Calls -> Message \cup {None}], work' \in Seq(Calls),
           future' \in [Calls -> {"none", "pending", "done", "cancelled"}],
           ready' \in Seq(Callback), hand' \in Entry \cup {None},
           out' \in [Sessions -> Seq(Packet)], wire' \in [Sessions -> Seq(Packet)]
    PROVE  ServerTypeInv'
  <1>1. IsFiniteSet(Busy) /\ Cardinality(Busy) <= MaxWorkers
    BY DEF ServerTypeInv, ServerTypeOK, Busy
  <1>2. IsFiniteSet(Busy') /\ Cardinality(Busy') <= MaxWorkers
    <2>1. IsFiniteSet(Busy') /\ Cardinality(Busy') <= Cardinality(Busy)
      BY <1>1, FS_Subset
    <2>2. Cardinality(Busy') \in Nat /\ Cardinality(Busy) \in Nat
      BY <1>1, <2>1, FS_CardinalityType
    <2>3. QED
      BY <1>1, <2>1, <2>2, ServerAssumption
  <1>3. IsFiniteSet(Read')
    BY FS_Subset DEF ServerTypeInv
  <1>4. {c \in Calls : pc'[c] \notin {"idle", "done"}} = Busy'
    BY DEF Busy
  <1>5. QED
    BY <1>2, <1>3, <1>4 DEF ServerTypeInv, ServerTypeOK

LEMMA PostType ==
    ASSUME NEW q \in Seq(Callback), NEW a \in Callback,
           ready' = Append(q, a) \/ ready' = q
    PROVE  ready' \in Seq(Callback)
  <1>1. CASE ready' = Append(q, a)
    BY <1>1, AppendRange
  <1>2. CASE ready' = q
    BY <1>2
  <1>3. QED
    BY <1>1, <1>2

LEMMA OutType ==
    ASSUME ServerTypeInv, NEW s, NEW p \in Packet, Send(s, p) \/ out' = out
    PROVE  out' \in [Sessions -> Seq(Packet)]
  <1>1. CASE Send(s, p)
    <2>1. [out EXCEPT ![s] = Append(@, p)] \in [Sessions -> Seq(Packet)]
      BY SendType DEF ServerTypeInv, ServerTypeOK
    <2>2. QED
      BY <1>1, <2>1 DEF Send
  <1>2. CASE out' = out
    BY <1>2 DEF ServerTypeInv, ServerTypeOK
  <1>3. QED
    BY <1>1, <1>2

LEMMA ReceiveType ==
    ASSUME ServerTypeInv, NEW c \in Calls, NEW m \in Traffic, Receive(c, m)
    PROVE  ServerTypeInv'
  <1>1. /\ frame' = [frame EXCEPT ![c] = m] /\ work' = Append(work, c)
        /\ future' = [future EXCEPT ![c] = "pending"] /\ pc' = pc
        /\ UNCHANGED <<conn, ready, hand, out, wire>>
    BY ProtocolFrame DEF Receive
  <1>2. m \in Message
    BY DispatchAssumption
  <1>3. work' \in Seq(Calls)
    BY <1>1, AppendRange DEF ServerTypeInv, ServerTypeOK
  <1>4. IsFiniteSet(Read')
    <2>1. Read' \subseteq Read \cup {c}
      BY <1>1 DEF Read, ServerTypeInv, ServerTypeOK
    <2>2. IsFiniteSet(Read \cup {c})
      BY FS_AddElement DEF ServerTypeInv
    <2>3. QED
      BY <2>1, <2>2, FS_Subset
  <1>5. Busy' = Busy
    BY <1>1 DEF Busy
  <1>6. QED
    BY <1>1, <1>2, <1>3, <1>4, <1>5 DEF ServerTypeInv, ServerTypeOK

LEMMA StartType ==
    ASSUME TypeOK, ServerTypeInv, NEW c \in Calls, Start(c)
    PROVE  ServerTypeInv'
  <1>1. /\ work # <<>> /\ work' = Tail(work) /\ WorkerFree
        /\ ready' = Append(ready, [run |-> "set", of |-> c]) \/ ready' = ready
        /\ UNCHANGED <<conn, frame, future, hand, out, wire>>
    BY DEF Start, PostResult, Later
  <1>2. \A d \in Calls \ {c} : pc'[d] = pc[d]
    BY DEF Start, Begin, TypeOK
  <1>3. work' \in Seq(Calls)
    BY <1>1, HeadRange DEF ServerTypeInv, ServerTypeOK
  <1>4. ready' \in Seq(Callback)
    BY <1>1, PostType, CallbackTypes DEF ServerTypeInv, ServerTypeOK
  <1>5. IsFiniteSet(Busy') /\ Cardinality(Busy') <= MaxWorkers
    <2>1. Busy' \subseteq Busy \cup {c}
      BY <1>2 DEF Busy
    <2>2. IsFiniteSet(Busy) /\ Cardinality(Busy) \in Nat /\ Cardinality(Busy) + 1 <= MaxWorkers
      BY <1>1, FS_CardinalityType, ServerAssumption DEF WorkerFree, ServerTypeInv
    <2>3. IsFiniteSet(Busy \cup {c}) /\ Cardinality(Busy \cup {c}) <= MaxWorkers
      BY <2>2, FS_AddElement, ServerAssumption
    <2>4. /\ IsFiniteSet(Busy') /\ Cardinality(Busy') <= Cardinality(Busy \cup {c})
          /\ Cardinality(Busy') \in Nat /\ Cardinality(Busy \cup {c}) \in Nat
      BY <2>1, <2>3, FS_Subset, FS_CardinalityType
    <2>5. QED
      BY <2>3, <2>4, ServerAssumption
  <1>6. {d \in Calls : pc'[d] \notin {"idle", "done"}} = Busy'
    BY DEF Busy
  <1>7. Read' = Read
    BY <1>1 DEF Read
  <1>8. QED
    BY <1>1, <1>3, <1>4, <1>5, <1>6, <1>7 DEF ServerTypeInv, ServerTypeOK

LEMMA WorkType ==
    ASSUME TypeOK, ServerTypeInv, NEW c \in Calls, Work(c)
    PROVE  ServerTypeInv'
  <1>1. /\ ready' = Append(ready, [run |-> "set", of |-> c]) \/ ready' = ready
        /\ UNCHANGED <<conn, frame, work, future, hand, out, wire>>
    BY DEF Work, PostResult, Later
  <1>2. pc[c] \notin {"idle", "done"} /\ \A d \in Calls \ {c} : pc'[d] = pc[d]
    BY ThreadFrame DEF Work, TypeOK
  <1>3. ready' \in Seq(Callback)
    BY <1>1, PostType, CallbackTypes DEF ServerTypeInv, ServerTypeOK
  <1>4. Busy' \subseteq Busy /\ Read' = Read
    BY <1>1, <1>2 DEF Busy, Read
  <1>5. QED
    BY <1>1, <1>3, <1>4, TypeKept DEF ServerTypeInv, ServerTypeOK

LEMMA CallbackType ==
    ASSUME ServerTypeInv, RunCallback
    PROVE  ServerTypeInv'
  <1> DEFINE a == Head(ready)
  <1>1. /\ ready # <<>> /\ pc' = pc /\ UNCHANGED <<conn, frame, hand, wire>>
        /\ CopyResult \/ OnDispatchDone \/ CancelDispatch \/ EnqueueOutbound
    BY ProtocolFrame DEF RunCallback, CopyResult, OnDispatchDone, CancelDispatch, EnqueueOutbound
  <1>2. Tail(ready) \in Seq(Callback) /\ a \in Callback
    BY <1>1, HeadRange DEF ServerTypeInv, ServerTypeOK
  <1>3. Busy' = Busy
    BY <1>1 DEF Busy
  <1>4. CASE CopyResult
    <2>1. a.of \in Calls /\ future[a.of] # "none"
      BY <1>2, <1>4, CallbackTypes DEF CopyResult
    <2>2. ready' \in Seq(Callback)
      BY <1>2, <1>4, <2>1, PostType, CallbackTypes DEF CopyResult
    <2>3. Read' \subseteq Read /\ future' \in [Calls -> {"none", "pending", "done", "cancelled"}]
      BY <1>4, <2>1 DEF CopyResult, Read, ServerTypeInv, ServerTypeOK
    <2>4. work' = work /\ out' = out
      BY <1>4 DEF CopyResult
    <2>5. QED
      BY <1>1, <1>3, <2>2, <2>3, <2>4, TypeKept DEF ServerTypeInv, ServerTypeOK
  <1>5. CASE OnDispatchDone
    <2>1. [kind |-> "reply", of |-> a.of] \in Packet
      BY <1>2, <1>5, CallbackTypes, PacketTypes DEF OnDispatchDone
    <2>2. out' \in [Sessions -> Seq(Packet)]
      BY <1>5, <2>1, OutType DEF OnDispatchDone
    <2>3. work' = work /\ future' = future /\ ready' = Tail(ready)
      BY <1>5 DEF OnDispatchDone
    <2>4. QED
      BY <1>1, <1>2, <1>3, <2>2, <2>3, TypeKept DEF Read, ServerTypeInv, ServerTypeOK
  <1>6. CASE CancelDispatch
    <2>1. work' \in Seq(Calls)
      BY <1>6, RemoveRange DEF CancelDispatch, ServerTypeInv, ServerTypeOK
    <2>2. out' = out /\ future' = future /\ ready' = Tail(ready)
      BY <1>6 DEF CancelDispatch
    <2>3. QED
      BY <1>1, <1>2, <1>3, <2>1, <2>2, TypeKept DEF Read, ServerTypeInv, ServerTypeOK
  <1>7. CASE EnqueueOutbound
    <2>1. [kind |-> "note", of |-> a.of] \in Packet
      BY <1>2, <1>7, CallbackTypes, PacketTypes DEF EnqueueOutbound
    <2>2. out' \in [Sessions -> Seq(Packet)]
      BY <1>7, <2>1, OutType DEF EnqueueOutbound
    <2>3. work' = work /\ future' = future /\ ready' = Tail(ready)
      BY <1>7 DEF EnqueueOutbound
    <2>4. QED
      BY <1>1, <1>2, <1>3, <2>2, <2>3, TypeKept DEF Read, ServerTypeInv, ServerTypeOK
  <1>8. QED
    BY <1>1, <1>4, <1>5, <1>6, <1>7

LEMMA ConnectionType ==
    ASSUME ServerTypeInv, NEW s \in Sessions,
           \/ HandleNegotiate(s) \/ Write(s) \/ Close(s) \/ Unregister(s) \/ StopWriter(s)
    PROVE  ServerTypeInv'
  <1>1. pc' = pc /\ UNCHANGED <<frame, work, hand>>
    BY ProtocolFrame DEF HandleNegotiate, Write, Close, Unregister, StopWriter
  <1>2. Busy' = Busy
    BY <1>1 DEF Busy
  <1>3. CASE HandleNegotiate(s) \/ Unregister(s)
    <2>1. UNCHANGED <<future, ready, out, wire>>
      BY <1>3 DEF HandleNegotiate, Unregister
    <2>2. conn' \in [Sessions -> {"negotiating", "bound", "closing", "unregistered", "closed"}]
      BY <1>3 DEF HandleNegotiate, Unregister, ServerTypeInv, ServerTypeOK
    <2>3. QED
      BY <1>1, <1>2, <2>1, <2>2, TypeKept DEF Read, ServerTypeInv, ServerTypeOK
  <1>4. CASE Write(s)
    <2>1. /\ out[s] # <<>> /\ UNCHANGED <<conn, future, ready>>
          /\ out' = [out EXCEPT ![s] = Tail(@)]
          /\ wire' = [wire EXCEPT ![s] = Append(@, Head(out[s]))]
      BY <1>4 DEF Write
    <2>2. Head(out[s]) \in Packet /\ Tail(out[s]) \in Seq(Packet)
      BY <2>1, HeadRange DEF ServerTypeInv, ServerTypeOK
    <2>3. wire' \in [Sessions -> Seq(Packet)] /\ out' \in [Sessions -> Seq(Packet)]
      BY <2>1, <2>2, SendType DEF ServerTypeInv, ServerTypeOK
    <2>4. QED
      BY <1>1, <1>2, <2>1, <2>3, TypeKept DEF Read, ServerTypeInv, ServerTypeOK
  <1>5. CASE Close(s)
    <2>1. /\ conn' = [conn EXCEPT ![s] = "closing"] /\ UNCHANGED <<out, wire>>
          /\ future' = [c \in Calls |-> IF future[c] = "pending" /\ Owner(c) = s
                                        THEN "cancelled" ELSE future[c]]
      BY <1>5 DEF Close
    <2>2. ready' \in Seq(Callback)
      <3>1. PICK callbacks \in SetToSeqs(Cancellations(s)) : ready' = ready \o callbacks
        BY <1>5 DEF Close
      <3>2. callbacks \in Seq(Callback)
        BY CancellationsType
      <3>3. QED
        BY <3>1, <3>2, ConcatRange DEF ServerTypeInv, ServerTypeOK
    <2>3. Read' \subseteq Read
      BY <2>1 DEF Read
    <2>4. /\ conn' \in [Sessions -> {"negotiating", "bound", "closing", "unregistered", "closed"}]
          /\ future' \in [Calls -> {"none", "pending", "done", "cancelled"}]
      BY <2>1 DEF ServerTypeInv, ServerTypeOK
    <2>5. QED
      BY <1>1, <1>2, <2>1, <2>2, <2>3, <2>4, TypeKept DEF ServerTypeInv, ServerTypeOK
  <1>6. CASE StopWriter(s)
    <2>1. /\ conn' = [conn EXCEPT ![s] = "closed"] /\ UNCHANGED <<future, ready, wire>>
          /\ out' = [out EXCEPT ![s] = Append(@, [kind |-> "stop"])]
      BY <1>6 DEF StopWriter, Send
    <2>2. out' \in [Sessions -> Seq(Packet)]
      BY <2>1, SendType, PacketTypes DEF ServerTypeInv, ServerTypeOK
    <2>3. conn' \in [Sessions -> {"negotiating", "bound", "closing", "unregistered", "closed"}]
      BY <2>1 DEF ServerTypeInv, ServerTypeOK
    <2>4. QED
      BY <1>1, <1>2, <2>1, <2>2, <2>3, TypeKept DEF Read, ServerTypeInv, ServerTypeOK
  <1>7. QED
    BY <1>3, <1>4, <1>5, <1>6

LEMMA ServerTypeStep ==
    ASSUME TypeOK, ServerTypeInv, [ServerNext]_allVars
    PROVE  ServerTypeInv'
  <1>1. CASE DrainRoute
    <2>1. /\ hand # None /\ hand' = None /\ pc' = pc
          /\ UNCHANGED <<conn, frame, work, future, out, wire>>
      BY <1>1, ProtocolFrame DEF DrainRoute
    <2>2. hand \in Entry
      BY <2>1 DEF ServerTypeInv, ServerTypeOK
    <2>3. ready' \in Seq(Callback)
      <3>1. ready' = Append(ready, [run |-> "enqueue", of |-> hand]) \/ ready' = ready
        BY <1>1 DEF DrainRoute, Later
      <3>2. QED
        BY <2>2, <3>1, PostType, CallbackTypes DEF ServerTypeInv, ServerTypeOK
    <2>4. Busy' = Busy /\ Read' = Read
      BY <2>1 DEF Busy, Read
    <2>5. QED
      BY <2>1, <2>3, <2>4, TypeKept DEF ServerTypeInv, ServerTypeOK
  <1>2. CASE Around
    BY <1>1, <1>2, ReceiveType, CallbackType, ConnectionType DEF Around
  <1>3. ASSUME NEW e \in outbound, DrainPoll(e) PROVE ServerTypeInv'
    <2>1. pc' = pc /\ hand' = e /\ UNCHANGED <<conn, frame, work, future, ready, out, wire>>
      BY <1>3 DEF DrainPoll, Poll, requestVars
    <2>2. e \in Entry
      BY DEF TypeOK
    <2>3. Busy' = Busy /\ Read' = Read
      BY <2>1 DEF Busy, Read
    <2>4. QED
      BY <2>1, <2>2, <2>3, TypeKept DEF ServerTypeInv, ServerTypeOK
  <1>4. CASE pc' = pc /\ UNCHANGED serverVars
    <2>1. Busy' = Busy /\ Read' = Read
      BY <1>4, ServerFrame DEF Busy, Read
    <2>2. QED
      BY <1>4, <2>1, ServerFrame, TypeKept DEF ServerTypeInv, ServerTypeOK
  <1>5. CASE Produce
    BY <1>4, <1>5 DEF Produce, Progress, Publish, requestVars
  <1>6. ASSUME NEW s \in Sessions, CloseSession(s) PROVE ServerTypeInv'
    BY <1>4, <1>6 DEF CloseSession, SocketDrop, SocketSweep, requestVars
  <1>7. QED
    BY <1>2, <1>3, <1>4, <1>5, <1>6, ServerStepCases, StartType, WorkType, ProtocolFrame

\* Every variable of the server keeps its type, and no more dispatches are at work than
\* there are workers.
THEOREM ServerTypeCorrect == ServerSpec => []ServerTypeOK
  <1>1. ServerTypeInv => ServerTypeOK
    BY DEF ServerTypeInv
  <1>2. IInv => TypeOK
    BY DEF IInv
  <1>3. QED
    BY <1>1, <1>2, Embedded, ServerTypeInit, ServerTypeStep, PTL DEF ServerSpec

-----------------------------------------------------------------------------
(* What is left in the executor after a close.                             *)

\* The protocol object's invariant, and the server's own part.
ServerSound == IInv /\ Framed /\ ServerTypeInv

LEMMA ServerSoundInductive ==
    /\ ServerInit => ServerSound
    /\ ServerSound /\ [ServerNext]_allVars => ServerSound'
  <1>1. ServerInit => ServerSound
    BY Embedded, ServerTypeInit DEF ServerSound
  <1>2. ServerSound /\ [ServerNext]_allVars => ServerSound'
    BY Embedded, ServerTypeStep DEF ServerSound, IInv
  <1>3. QED
    BY <1>1, <1>2

\* A connection that is gone has a closed session, where no setup handler reopens it.
GoneClosed ==
    ~HasSetup =>
        /\ \A c \in Calls : pc[c] # "setup"
        /\ \A s \in Sessions : socket[s] # "open" => lifecycle[s] = "CLOSED"

LEMMA GoneClosedStep ==
    ASSUME TypeOK, GoneClosed, [Next]_vars
    PROVE  GoneClosed'
  <1> SUFFICES ASSUME ~HasSetup
               PROVE  /\ \A c \in Calls : pc'[c] # "setup"
                      /\ \A s \in Sessions : socket'[s] # "open" => lifecycle'[s] = "CLOSED"
    BY DEF GoneClosed
  <1>1. /\ \A c \in Calls : pc[c] # "setup"
        /\ \A s \in Sessions : socket[s] # "open" => lifecycle[s] = "CLOSED"
    BY DEF GoneClosed
  <1>2. CASE pc' = pc /\ UNCHANGED sessionVars
    BY <1>1, <1>2 DEF sessionVars
  <1>3. ASSUME NEW c \in Calls, NEW m \in Traffic, Begin(c, m)
        PROVE  GoneClosed'
    BY <1>1, <1>3 DEF Begin, TypeOK, sessionVars, GoneClosed
  <1>4. ASSUME NEW c \in Calls, Thread(c)
        PROVE  GoneClosed'
    <2>1. \A d \in Calls : d # c => pc'[d] = pc[d]
      BY <1>4, ThreadFrame DEF TypeOK
    <2>2. pc'[c] # "setup"
      BY <1>4
      DEF Thread, Gate, Authorize, Subscribe, NoHandler, Register, Complete, Finish,
          Negotiate, FailTransfer, RunTransfer, CancelLookup, CancelAuthorize, CancelAct,
          SetupGate, SetupDue, SetupReturn, CloseGate, CloseMark, CloseSweep, ServerInfo,
          GoTo, Return, AuditAndReturn, TypeOK
    <2>3. \A s \in Sessions : socket'[s] # "open" => lifecycle'[s] = "CLOSED"
      <3>1. CASE Quiet(c)
        BY <1>1, <3>1, QuietExits DEF sessionVars
      <3>2. CASE ~Quiet(c)
        BY <1>1, <1>4, <3>2
        DEF Thread, Quiet, Subscribe, Register, Complete, CancelLookup, CancelAct,
            SetupReturn, CloseMark, CloseSweep, sessionVars, TypeOK
      <3>3. QED
        BY <3>1, <3>2
    <2>4. QED
      BY <1>1, <2>1, <2>2, <2>3 DEF GoneClosed
  <1>5. CASE \E c \in Calls : Progress(c)
    BY <1>2, <1>5 DEF Progress, requestVars
  <1>6. CASE Bystander
    <2>1. pc' = pc
      BY <1>6, BystanderFrame DEF requestVars
    <2>2. \A s \in Sessions : socket'[s] # "open" => lifecycle'[s] = "CLOSED"
      BY <1>1, <1>6
      DEF Bystander, Publish, Poll, SocketDrop, SocketSweep, sessionVars, TypeOK
    <2>3. QED
      BY <1>1, <2>1, <2>2
  <1>7. QED
    BY <1>2, <1>3, <1>4, <1>5, <1>6, ProtocolFrame DEF Next, Bystander, GoneClosed, vars

\* A frame that waited for a worker while its connection closed is not dispatched: whoever
\* takes it, its session is closed, and without a setup handler nothing opens it again.
THEOREM LateFramesRefused == ServerSpec => NoWorkAfterClose
  <1> DEFINE Refused == \A c \in Calls :
        pc[c] = "idle" /\ pc'[c] = "gate" /\ ~HasSetup => socket[Owner(c)] = "open"
  <1>1. ASSUME ServerSound, GoneClosed, ServerNext PROVE Refused
    <2> SUFFICES ASSUME NEW c \in Calls, pc[c] = "idle", pc'[c] = "gate", ~HasSetup
                 PROVE  socket[Owner(c)] = "open"
      OBVIOUS
    <2>1. TypeOK /\ Framed
      BY <1>1 DEF ServerSound, IInv
    <2>2. CASE Start(c)
      <3>1. Begin(c, frame[c]) /\ c \in {d \in Calls : frame[d] # None}
        BY <2>1, <2>2, HeadRange DEF Start, Framed
      <3>2. Owner(c) \in Sessions
        BY <2>1, <3>1, DispatchAssumption DEF Framed, Owner, Message
      <3>3. lifecycle[Owner(c)] # "CLOSED"
        BY <2>1, <3>1 DEF Begin, Ended, Owner, TypeOK
      <3>4. QED
        BY <1>1, <3>2, <3>3 DEF GoneClosed
    <2>3. ASSUME NEW d \in Calls, Start(d) \/ Work(d), ~Start(c) PROVE pc'[c] = pc[c]
      BY <2>1, <2>3, ThreadFrame DEF Start, Begin, Work, TypeOK
    <2>4. CASE pc' = pc
      BY <2>4
    <2>5. CASE Around \/ (UNCHANGED vars /\ UNCHANGED serverVars)
      BY <2>4, <2>5, AroundFrame, ProtocolFrame
    <2>6. CASE Produce \/ (\E e \in outbound : DrainPoll(e)) \/ \E s \in Sessions : CloseSession(s)
      BY <2>4, <2>6 DEF Produce, Progress, Publish, DrainPoll, Poll, CloseSession, SocketDrop,
                        SocketSweep, requestVars
    <2>7. QED
      BY <1>1, <2>2, <2>3, <2>5, <2>6, ServerStepCases
  <1>2. ServerSound /\ GoneClosed /\ [ServerNext]_allVars => [Refused]_allVars
    BY <1>1
  <1>3. ServerInit => GoneClosed
    BY DEF ServerInit, Init, GoneClosed
  <1>4. ServerSound /\ GoneClosed /\ [ServerNext]_allVars => GoneClosed'
    BY GoneClosedStep, NextDone DEF ServerSound, IInv
  <1>5. QED
    BY <1>2, <1>3, <1>4, ServerSoundInductive, PTL DEF ServerSpec, NoWorkAfterClose

-----------------------------------------------------------------------------
(* The line from the outbound queue to the client, and its order.          *)

Earlier(e, f) == e # f /\ e.stamp <= f.stamp

Note(e)   == [kind |-> "note", of |-> e]
Reply(c)  == [kind |-> "reply", of |-> c]
Posted(e) == [run |-> "enqueue", of |-> e]
Set(c)    == [run |-> "set", of |-> c]
Done(c)   == [run |-> "done", of |-> c]

\* No packet twice, and notifications by their stamps.
PacketOrder ==
    {w \in Packet \X Packet :
        /\ w[1] # w[2]
        /\ w[1].kind = "note" /\ w[2].kind = "note" => w[1].of.stamp <= w[2].of.stamp}

\* No entry twice, entries by their stamps, and one callback at a time for a reply.
CallbackOrder ==
    {w \in Callback \X Callback :
        /\ w[1].run = "enqueue" /\ w[2].run = "enqueue" => Earlier(w[1].of, w[2].of)
        /\ w[1].run \in {"set", "done"} /\ w[2].run \in {"set", "done"} => w[1].of # w[2].of}

\* What a connection has sent or is about to send, of entries and of replies.
OnLine(s) == Range(wire[s]) \cup Range(out[s])
Shown(e) == \E s \in Sessions : Note(e) \in OnLine(s)
Waiting(e) == Posted(e) \in Range(ready)
Marked(c) == Set(c) \in Range(ready) \/ Done(c) \in Range(ready)

Stop == [kind |-> "stop"]

SessionOrdered(s) ==
    /\ Ordered(wire[s], PacketOrder) /\ Ordered(out[s], PacketOrder)
    /\ Range(wire[s]) \X Range(out[s]) \subseteq PacketOrder
    /\ Stop \notin Range(wire[s])
    /\ Stop \in Range(out[s]) => conn[s] = "closed"

LineOrdered ==
    /\ \A s \in Sessions : SessionOrdered(s)
    /\ Ordered(ready, CallbackOrder)
    /\ \A e, f \in Entry : Shown(e) /\ Waiting(f) => Earlier(e, f)

\* The notification thread holds what comes after all it has passed on, and before all
\* that it has left in the queue.
Passed(e) == Shown(e) \/ Waiting(e)

DrainOrdered ==
    /\ hand # None => \A e \in Entry : Passed(e) => Earlier(e, hand)
    /\ \A f \in outbound :
        /\ \A e \in Entry : Passed(e) => Earlier(e, f)
        /\ hand # None => Earlier(hand, f)
    /\ \A e \in Entry : Passed(e) => e.stamp <= stamp
    /\ hand # None => hand.stamp <= stamp

Past == {"running", "returned", "done"}

\* Entries come from calls that ran, and go to their connection; replies from calls that
\* are done, and there is one.
Sources ==
    /\ \A e \in Entry :
        /\ Passed(e) \/ e \in outbound \/ (hand # None /\ e = hand) => pc[e.origin] \in Past
        /\ \A s \in Sessions : Note(e) \in OnLine(s) => Session(e.origin) = s
    /\ \A c \in Calls :
        /\ Marked(c) => pc[c] = "done"
        /\ \A s \in Sessions : Reply(c) \in OnLine(s) =>
              pc[c] = "done" /\ Owner(c) = s /\ ~Marked(c)

LineInv == LineOrdered /\ DrainOrdered /\ Sources

-----------------------------------------------------------------------------
(* What may still trail the reply to a call.                               *)

\* The progress e of c will be read after the reply to c, if there is one.
Late(c, e) ==
    /\ e.origin = c /\ e.rid # None
    /\ \/ hand # None /\ hand = e /\ pc[c] \in {"returned", "done"}
       \/ pc[c] = "done" /\ Behind(ready, {Set(c), Done(c)}, Posted(e))
       \/ \E s \in Sessions :
            \/ Trails(out[s], Reply(c), Note(e))
            \/ Reply(c) \in Range(wire[s]) /\ Note(e) \in Range(out[s])
            \/ Trails(wire[s], Reply(c), Note(e))

OneLate == \A c \in Calls : \A e, f \in Entry : Late(c, e) /\ Late(c, f) => e = f

-----------------------------------------------------------------------------
(* The line keeps its order.                                               *)

LEMMA Constructors ==
    /\ \A e, f : (Note(e) = Note(f) => e = f) /\ (Posted(e) = Posted(f) => e = f)
    /\ \A c, d : /\ Reply(c) = Reply(d) => c = d
                 /\ Set(c) = Set(d) => c = d
                 /\ Done(c) = Done(d) => c = d
    /\ \A c, e : /\ Note(e) # Reply(c) /\ Note(e) # Stop /\ Reply(c) # Stop
                 /\ Posted(e) # Set(c) /\ Posted(e) # Done(c) /\ Set(c) # Done(e)
    /\ \A e : /\ Note(e).kind = "note" /\ Note(e).of = e
              /\ Posted(e).run = "enqueue" /\ Posted(e).of = e
    /\ \A c : /\ Reply(c).kind = "reply" /\ Reply(c).of = c /\ Stop.kind = "stop"
              /\ Set(c).run = "set" /\ Set(c).of = c /\ Done(c).run = "done" /\ Done(c).of = c
  <1>1. \A e : /\ Note(e).kind = "note" /\ Note(e).of = e
               /\ Posted(e).run = "enqueue" /\ Posted(e).of = e
    BY DEF Note, Posted
  <1>2. \A c : /\ Reply(c).kind = "reply" /\ Reply(c).of = c /\ Stop.kind = "stop"
               /\ Set(c).run = "set" /\ Set(c).of = c /\ Done(c).run = "done" /\ Done(c).of = c
    BY DEF Reply, Set, Done, Stop
  <1>3. \A e, f : (Note(e) = Note(f) => e = f) /\ (Posted(e) = Posted(f) => e = f)
    BY <1>1
  <1>4. \A c, d : (Reply(c) = Reply(d) => c = d) /\ (Set(c) = Set(d) => c = d)
                     /\ (Done(c) = Done(d) => c = d)
    BY <1>2
  <1>5. ASSUME NEW c, NEW e
        PROVE  /\ Note(e) # Reply(c) /\ Note(e) # Stop /\ Reply(c) # Stop
               /\ Posted(e) # Set(c) /\ Posted(e) # Done(c) /\ Set(c) # Done(e)
    <2>1. Note(e).kind = "note" /\ Reply(c).kind = "reply" /\ Stop.kind = "stop"
      BY <1>1, <1>2
    <2>2. Posted(e).run = "enqueue" /\ Set(c).run = "set" /\ Done(c).run = "done"
          /\ Done(e).run = "done"
      BY <1>1, <1>2
    <2>3. QED
      BY <2>1, <2>2
  <1>6. QED
    BY <1>1, <1>2, <1>3, <1>4, <1>5

LEMMA Members ==
    /\ \A e \in Entry : Note(e) \in Packet /\ Posted(e) \in Callback
    /\ \A c \in Calls : Reply(c) \in Packet /\ Set(c) \in Callback /\ Done(c) \in Callback
    /\ Stop \in Packet
  BY PacketTypes, CallbackTypes DEF Note, Posted, Reply, Set, Done, Stop

LEMMA Exhausted ==
    /\ \A p \in Packet :
         \/ \E e \in Entry : p = Note(e)
         \/ \E c \in Calls : p = Reply(c)
         \/ p = Stop
    /\ \A a \in Callback :
         \/ \E e \in Entry : a = Posted(e)
         \/ \E c \in Calls : a = Set(c) \/ a = Done(c)
         \/ a.run = "cancel"
  <1>1. ASSUME NEW p \in Packet
        PROVE  (\E e \in Entry : p = Note(e)) \/ (\E c \in Calls : p = Reply(c)) \/ p = Stop
    BY DEF Packet, Note, Reply, Stop
  <1>2. ASSUME NEW a \in Callback
        PROVE  \/ \E e \in Entry : a = Posted(e)
               \/ \E c \in Calls : a = Set(c) \/ a = Done(c)
               \/ a.run = "cancel"
    BY DEF Callback, Posted, Set, Done
  <1>3. QED
    BY <1>1, <1>2

\* Which packets may follow which.
LEMMA PacketPairs ==
    /\ \A p \in Packet, c \in Calls : p # Reply(c) => <<p, Reply(c)>> \in PacketOrder
    /\ \A p \in Packet : p # Stop => <<p, Stop>> \in PacketOrder
    /\ \A p \in Packet, f \in Entry :
         (\A e \in Entry : p = Note(e) => Earlier(e, f)) => <<p, Note(f)>> \in PacketOrder
    /\ \A e, f \in Entry : <<Note(e), Note(f)>> \in PacketOrder => Earlier(e, f)
    /\ \A w \in PacketOrder : w[1] # w[2]
  <1>1. \A w : w \in PacketOrder <=>
            /\ w \in Packet \X Packet /\ w[1] # w[2]
            /\ w[1].kind = "note" /\ w[2].kind = "note" => w[1].of.stamp <= w[2].of.stamp
    BY DEF PacketOrder
  <1>2. \A p \in Packet, c \in Calls : p # Reply(c) => <<p, Reply(c)>> \in PacketOrder
    BY <1>1, Members, Constructors
  <1>3. \A p \in Packet : p # Stop => <<p, Stop>> \in PacketOrder
    BY <1>1, Members, Constructors
  <1>4. ASSUME NEW p \in Packet, NEW f \in Entry, \A e \in Entry : p = Note(e) => Earlier(e, f)
        PROVE  <<p, Note(f)>> \in PacketOrder
    <2>1. CASE \E e \in Entry : p = Note(e)
      BY <1>1, <1>4, <2>1, Members, Constructors DEF Earlier
    <2>2. CASE ~\E e \in Entry : p = Note(e)
      <3>1. p.kind # "note" /\ p # Note(f)
        BY <2>2, Exhausted, Constructors
      <3>2. QED
        BY <1>1, <3>1, Members
    <2>3. QED
      BY <2>1, <2>2
  <1>5. \A e, f \in Entry : <<Note(e), Note(f)>> \in PacketOrder => Earlier(e, f)
    BY <1>1, Constructors DEF Earlier
  <1>6. QED
    BY <1>1, <1>2, <1>3, <1>4, <1>5

LEMMA CallbackPairs ==
    /\ \A a \in Callback, c \in Calls : a # Set(c) /\ a # Done(c) =>
           <<a, Set(c)>> \in CallbackOrder /\ <<a, Done(c)>> \in CallbackOrder
    /\ \A a \in Callback, f \in Entry :
         (\A e \in Entry : a = Posted(e) => Earlier(e, f)) => <<a, Posted(f)>> \in CallbackOrder
    /\ \A a, b \in Callback : b.run = "cancel" => <<a, b>> \in CallbackOrder
    /\ \A e, f \in Entry : <<Posted(e), Posted(f)>> \in CallbackOrder => Earlier(e, f)
    /\ \A c \in Calls : /\ <<Set(c), Set(c)>> \notin CallbackOrder
                        /\ <<Set(c), Done(c)>> \notin CallbackOrder
                        /\ <<Done(c), Set(c)>> \notin CallbackOrder
                        /\ <<Done(c), Done(c)>> \notin CallbackOrder
  <1>1. \A w : w \in CallbackOrder <=>
            /\ w \in Callback \X Callback
            /\ w[1].run = "enqueue" /\ w[2].run = "enqueue" => Earlier(w[1].of, w[2].of)
            /\ w[1].run \in {"set", "done"} /\ w[2].run \in {"set", "done"} => w[1].of # w[2].of
    BY DEF CallbackOrder
  <1>2. ASSUME NEW a \in Callback, NEW c \in Calls, a # Set(c) /\ a # Done(c)
        PROVE  <<a, Set(c)>> \in CallbackOrder /\ <<a, Done(c)>> \in CallbackOrder
    <2>1. a.run \in {"set", "done"} => a.of # c
      BY <1>2, Exhausted, Constructors
    <2>2. QED
      BY <1>1, <2>1, Members, Constructors
  <1>3. ASSUME NEW a \in Callback, NEW f \in Entry, \A e \in Entry : a = Posted(e) => Earlier(e, f)
        PROVE  <<a, Posted(f)>> \in CallbackOrder
    <2>1. a.run = "enqueue" => \E e \in Entry : a = Posted(e)
      BY Exhausted, Constructors
    <2>2. QED
      BY <1>1, <1>3, <2>1, Members, Constructors
  <1>4. \A a, b \in Callback : b.run = "cancel" => <<a, b>> \in CallbackOrder
    BY <1>1
  <1>5. \A e, f \in Entry : <<Posted(e), Posted(f)>> \in CallbackOrder => Earlier(e, f)
    BY <1>1, Constructors
  <1>6. \A c \in Calls : /\ <<Set(c), Set(c)>> \notin CallbackOrder
                         /\ <<Set(c), Done(c)>> \notin CallbackOrder
                         /\ <<Done(c), Set(c)>> \notin CallbackOrder
                         /\ <<Done(c), Done(c)>> \notin CallbackOrder
    BY <1>1, Constructors
  <1>7. QED
    BY <1>2, <1>3, <1>4, <1>5, <1>6

\* Where a thread may go from a running handler on.
LEMMA PcFlow ==
    ASSUME TypeOK, [Next]_vars, NEW c \in Calls
    PROVE  /\ pc[c] = "done" => pc'[c] = "done"
           /\ pc[c] = "returned" => pc'[c] \in {"returned", "done"}
           /\ pc[c] = "running" => pc'[c] \in {"running", "returned"}
           /\ pc[c] # "idle" => msg'[c] = msg[c]
  <1>1. ASSUME NEW d \in Calls, NEW m \in Traffic, Begin(d, m)
        PROVE  pc[c] # "idle" => pc'[c] = pc[c] /\ msg'[c] = msg[c]
    BY <1>1 DEF Begin, TypeOK
  <1>2. ASSUME NEW d \in Calls, Thread(d), d # c
        PROVE  pc'[c] = pc[c] /\ msg'[c] = msg[c]
    BY <1>2, ThreadFrame DEF TypeOK
  <1>3. ASSUME Thread(c)
        PROVE  /\ pc[c] # "done" /\ msg' = msg
               /\ pc[c] = "returned" => pc'[c] \in {"returned", "done"}
               /\ pc[c] = "running" => pc'[c] \in {"running", "returned"}
    <2>1. pc[c] # "done" /\ msg' = msg
      BY <1>3, ThreadFrame
    <2>2. CASE pc[c] = "running"
      <3>1. Complete(c)
        BY <1>3, <2>2, OffRegistry DEF Register
      <3>2. QED
        BY <2>1, <2>2, <3>1 DEF Complete, GoTo, TypeOK
    <2>3. CASE pc[c] = "returned"
      <3>1. Finish(c)
        BY <1>3, <2>3 DEF Thread, Gate, Authorize, Subscribe, NoHandler, Register, Complete,
           Negotiate, RunTransfer, CancelLookup, CancelAuthorize, CancelAct, SetupGate,
           SetupReturn, CloseGate, CloseMark, CloseSweep, ServerInfo
      <3>2. QED
        BY <2>1, <2>3, <3>1 DEF Finish, AuditAndReturn, TypeOK
    <2>4. QED
      BY <2>1, <2>2, <2>3
  <1>4. CASE UNCHANGED requestVars
    BY <1>4 DEF requestVars
  <1>5. CASE \/ \E d \in Calls : Progress(d)
             \/ \E topic \in Topics : Publish(topic)
             \/ \E e \in outbound : Poll(e)
             \/ \E s \in Sessions : SocketDrop(s) \/ SocketSweep(s)
             \/ UNCHANGED vars
    BY <1>4, <1>5 DEF Progress, Publish, Poll, SocketDrop, SocketSweep, vars
  <1>6. CASE \E d \in Calls : Thread(d)
    BY <1>2, <1>3, <1>6
  <1>7. CASE \E d \in Calls, m \in Traffic : Begin(d, m)
    BY <1>1, <1>7
  <1>8. QED
    BY <1>5, <1>6, <1>7 DEF Next

\* The outbound queue takes in nothing but younger entries, of calls that ran.
LEMMA QueueFlow ==
    ASSUME TypeOK, SubscribersDone, [Next]_vars
    PROVE  /\ stamp' \in Nat /\ stamp' >= stamp
           /\ \A e \in outbound' : e \notin outbound =>
                e \in Entry /\ e.stamp = stamp + 1 /\ stamp' = stamp + 1 /\ pc[e.origin] \in Past
  <1>1. stamp \in Nat
    BY DEF TypeOK
  <1>2. ASSUME NEW c \in Calls, Progress(c)
        PROVE  /\ stamp' = stamp + 1
               /\ \A e \in outbound' : e \notin outbound =>
                     e \in Entry /\ e.stamp = stamp + 1 /\ pc[e.origin] \in Past
    <2>1. msg[c] \in Message /\ msg[c].rid \in Ids /\ pc[c] \in Past
      BY <1>2 DEF Progress, Emitting, TypeOK, Message, IsNote, Past
    <2>2. QED
      BY <1>1, <1>2, <2>1 DEF Progress, Entry
  <1>3. ASSUME NEW topic \in Topics, Publish(topic)
        PROVE  /\ stamp' = stamp + 1
               /\ \A e \in outbound' : e \notin outbound =>
                     e \in Entry /\ e.stamp = stamp + 1 /\ pc[e.origin] \in Past
    BY <1>1, <1>3 DEF Publish, Entry, SubscribersDone, TypeOK, Past
  <1>4. CASE stamp' = stamp /\ outbound' \subseteq outbound
    BY <1>1, <1>4
  <1>5. ASSUME NEW c \in Calls, Thread(c) PROVE stamp' = stamp /\ outbound' \subseteq outbound
    <2>1. CASE Complete(c)
      BY <2>1 DEF Complete, Purged
    <2>2. CASE Register(c)
      BY <2>2 DEF Register
    <2>3. CASE ~Complete(c) /\ ~Register(c)
      BY <1>5, <2>3, OffRegistry, ThreadFrame
    <2>4. QED
      BY <2>1, <2>2, <2>3
  <1>6. CASE \/ \E e \in outbound : Poll(e)
             \/ \E s \in Sessions : SocketDrop(s) \/ SocketSweep(s)
             \/ \E c \in Calls, m \in Traffic : Begin(c, m)
             \/ UNCHANGED vars
    BY <1>4, <1>6, ProtocolFrame DEF Poll, SocketDrop, SocketSweep, Begin, queueVars
  <1>7. QED
    BY <1>1, <1>2, <1>3, <1>4, <1>5, <1>6 DEF Next

LEMMA LineTypes ==
    ASSUME ServerSound
    PROVE  /\ ready \in Seq(Callback) /\ Range(ready) \subseteq Callback
           /\ hand \in Entry \cup {None} /\ outbound \subseteq Entry
           /\ \A s \in Sessions :
                /\ wire[s] \in Seq(Packet) /\ out[s] \in Seq(Packet)
                /\ Range(wire[s]) \subseteq Packet /\ Range(out[s]) \subseteq Packet
  <1>1. ASSUME NEW S, NEW q \in Seq(S) PROVE Range(q) \subseteq S
    BY DEF Range
  <1>2. /\ ready \in Seq(Callback) /\ hand \in Entry \cup {None} /\ outbound \subseteq Entry
        /\ \A s \in Sessions : wire[s] \in Seq(Packet) /\ out[s] \in Seq(Packet)
    BY DEF ServerSound, IInv, TypeOK, ServerTypeInv, ServerTypeOK
  <1>3. QED
    BY <1>1, <1>2

\* Packet p is queued behind all a connection has sent or queued.
LEMMA SendOrdered ==
    ASSUME ServerSound, NEW s, NEW p \in Packet, Send(s, p), wire' = wire,
           \A t \in Sessions : conn[t] = "closed" => conn'[t] = "closed",
           \A t \in Sessions : SessionOrdered(t),
           s \in Sessions => \A q \in OnLine(s) : <<q, p>> \in PacketOrder,
           p = Stop /\ s \in Sessions => conn'[s] = "closed"
    PROVE  \A t \in Sessions :
             /\ SessionOrdered(t)'
             /\ OnLine(t)' = IF t = s THEN OnLine(t) \cup {p} ELSE OnLine(t)
  <1> SUFFICES ASSUME NEW t \in Sessions
               PROVE  /\ SessionOrdered(t)'
                      /\ OnLine(t)' = IF t = s THEN OnLine(t) \cup {p} ELSE OnLine(t)
    OBVIOUS
  <1>1. SessionOrdered(t) /\ out[t] \in Seq(Packet) /\ wire[t] \in Seq(Packet)
    BY LineTypes
  <1>2. CASE t # s
    <2>1. out'[t] = out[t] /\ wire'[t] = wire[t]
      BY <1>2 DEF Send, ServerSound, ServerTypeInv, ServerTypeOK
    <2>2. QED
      BY <1>1, <1>2, <2>1 DEF SessionOrdered, OnLine
  <1>3. CASE t = s
    <2>1. out'[t] = Append(out[t], p) /\ wire'[t] = wire[t]
      BY <1>3 DEF Send, ServerSound, ServerTypeInv, ServerTypeOK
    <2>2. Range(out'[t]) = Range(out[t]) \cup {p}
      BY <1>1, <2>1, AppendRange
    <2>3. Ordered(out'[t], PacketOrder)
      BY <1>1, <1>3, <2>1, OrderedAppend DEF SessionOrdered, OnLine
    <2>4. Range(wire'[t]) \X Range(out'[t]) \subseteq PacketOrder
      BY <1>1, <1>3, <2>1, <2>2 DEF SessionOrdered, OnLine
    <2>5. QED
      BY <1>1, <1>3, <2>1, <2>2, <2>3, <2>4 DEF SessionOrdered, OnLine
  <1>4. QED
    BY <1>2, <1>3

\* Nothing of a connection changes, or its end.
LEMMA SessionsKept ==
    ASSUME wire' = wire, out' = out, \A s \in Sessions : SessionOrdered(s),
           \A t \in Sessions : conn[t] = "closed" => conn'[t] = "closed"
    PROVE  \A s \in Sessions : SessionOrdered(s)' /\ OnLine(s)' = OnLine(s)
  BY DEF SessionOrdered, OnLine

\* A callback is taken off the head.
LEMMA HeadTaken ==
    ASSUME ServerSound, Ordered(ready, CallbackOrder), ready # <<>>
    PROVE  /\ Head(ready) \in Callback /\ Tail(ready) \in Seq(Callback)
           /\ Range(ready) = Range(Tail(ready)) \cup {Head(ready)}
           /\ Ordered(Tail(ready), CallbackOrder)
           /\ \A a \in Range(Tail(ready)) : <<Head(ready), a>> \in CallbackOrder
  BY LineTypes, HeadRange, OrderedTail

\* What a step adds to the line: entries from the loop's queue to connections and from the
\* notification thread to the loop's queue, replies from the loop's queue to connections,
\* and callbacks of calls that have just ended.
LineEffect ==
    /\ \A e \in Entry :
        /\ Waiting(e)' => Waiting(e) \/ (e = hand /\ hand # None /\ hand' = None)
        /\ \A s \in Sessions : Note(e) \in OnLine(s)' =>
              Note(e) \in OnLine(s) \/ (Waiting(e) /\ Session(e.origin) = s)
    /\ \A c \in Calls :
        /\ Marked(c)' => Marked(c) \/ (pc[c] # "done" /\ pc'[c] = "done")
        /\ \A s \in Sessions : Reply(c) \in OnLine(s)' =>
              Reply(c) \in OnLine(s) \/ (Marked(c) /\ ~Marked(c)' /\ Owner(c) = s)

LEMMA LineKept ==
    ASSUME LineOrdered, wire' = wire, out' = out, ready' = ready,
           \A t \in Sessions : conn[t] = "closed" => conn'[t] = "closed"
    PROVE  LineOrdered' /\ LineEffect
  <1>1. /\ \A s \in Sessions : SessionOrdered(s)' /\ OnLine(s)' = OnLine(s)
        /\ \A e : Waiting(e)' = Waiting(e) /\ Shown(e)' = Shown(e)
        /\ \A c : Marked(c)' = Marked(c)
    BY SessionsKept DEF LineOrdered, Waiting, Marked, Shown, OnLine
  <1>2. QED
    BY <1>1 DEF LineOrdered, LineEffect

LEMMA LinePost ==
    ASSUME ServerSound, LineInv, wire' = wire, out' = out, conn' = conn,
           NEW c \in Calls, pc[c] # "done", pc'[c] = "done",
           ready' = Append(ready, Set(c))
    PROVE  LineOrdered' /\ LineEffect
  <1>1. \A s \in Sessions : SessionOrdered(s)' /\ OnLine(s)' = OnLine(s)
    BY SessionsKept DEF LineInv, LineOrdered
  <1>2. Range(ready') = Range(ready) \cup {Set(c)}
    BY LineTypes, Members, AppendRange
  <1>3. \A e : Waiting(e)' = Waiting(e)
    BY <1>2, Constructors DEF Waiting
  <1>4. \A d \in Calls : Marked(d)' => Marked(d) \/ d = c
    BY <1>2, Constructors DEF Marked
  <1>5. Ordered(ready', CallbackOrder)
    <2>1. ~Marked(c)
      BY DEF LineInv, Sources
    <2>2. \A a \in Range(ready) : <<a, Set(c)>> \in CallbackOrder
      BY <2>1, LineTypes, CallbackPairs DEF Marked
    <2>3. QED
      BY <2>2, LineTypes, Members, OrderedAppend DEF LineInv, LineOrdered
  <1>6. \A e \in Entry : Shown(e)' = Shown(e)
    BY <1>1 DEF Shown
  <1>7. LineOrdered'
    BY <1>1, <1>3, <1>5, <1>6 DEF LineInv, LineOrdered
  <1>8. QED
    BY <1>1, <1>3, <1>4, <1>7 DEF LineEffect

LEMMA LineRoute ==
    ASSUME ServerSound, LineInv, DrainRoute
    PROVE  LineOrdered' /\ LineEffect
  <1>1. /\ hand # None /\ hand' = None /\ UNCHANGED <<conn, out, wire>>
        /\ ready' = Append(ready, Posted(hand)) \/ ready' = ready
    BY DEF DrainRoute, Later, Posted
  <1>2. hand \in Entry
    BY <1>1, LineTypes
  <1>3. CASE ready' = ready
    BY <1>1, <1>3, LineKept DEF LineInv
  <1>4. CASE ready' = Append(ready, Posted(hand))
    <2>1. \A s \in Sessions : SessionOrdered(s)' /\ OnLine(s)' = OnLine(s)
      BY <1>1, SessionsKept DEF LineInv, LineOrdered
    <2>2. Range(ready') = Range(ready) \cup {Posted(hand)}
      BY <1>2, <1>4, LineTypes, Members, AppendRange
    <2>3. \A e : Waiting(e)' => Waiting(e) \/ e = hand
      BY <2>2, Constructors DEF Waiting
    <2>4. \A d \in Calls : Marked(d)' = Marked(d)
      BY <2>2, Constructors DEF Marked
    <2>5. \A e \in Entry : Passed(e) => Earlier(e, hand)
      BY <1>1 DEF LineInv, DrainOrdered
    <2>6. Ordered(ready', CallbackOrder)
      <3>1. \A a \in Range(ready) : <<a, Posted(hand)>> \in CallbackOrder
        BY <1>2, <2>5, LineTypes, CallbackPairs DEF Passed, Waiting
      <3>2. QED
        BY <1>2, <1>4, <3>1, LineTypes, Members, OrderedAppend DEF LineInv, LineOrdered
    <2>7. \A e \in Entry : Shown(e)' = Shown(e)
      BY <2>1 DEF Shown
    <2>8. \A e, f \in Entry : Shown(e)' /\ Waiting(f)' => Earlier(e, f)
      BY <2>3, <2>5, <2>7 DEF LineInv, LineOrdered, Passed
    <2>9. LineOrdered'
      BY <2>1, <2>6, <2>8 DEF LineOrdered
    <2>10. QED
      BY <1>1, <2>1, <2>3, <2>4, <2>9 DEF LineEffect
  <1>5. QED
    BY <1>1, <1>3, <1>4

\* A callback is taken off the queue and no packet is sent.
LEMMA LineTaken ==
    ASSUME ServerSound, LineInv, ready # <<>>, wire' = wire, out' = out, conn' = conn,
           \/ ready' = Tail(ready)
           \/ \E c \in Calls : Head(ready) = Set(c) /\ ready' = Append(Tail(ready), Done(c))
    PROVE  LineOrdered' /\ LineEffect
  <1>1. \A s \in Sessions : SessionOrdered(s)' /\ OnLine(s)' = OnLine(s)
    BY SessionsKept DEF LineInv, LineOrdered
  <1>2. /\ Head(ready) \in Callback /\ Tail(ready) \in Seq(Callback)
        /\ Range(ready) = Range(Tail(ready)) \cup {Head(ready)}
        /\ Ordered(Tail(ready), CallbackOrder)
        /\ \A a \in Range(Tail(ready)) : <<Head(ready), a>> \in CallbackOrder
    BY HeadTaken DEF LineInv, LineOrdered
  <1>3. \A e \in Entry : Shown(e)' = Shown(e)
    BY <1>1 DEF Shown
  <1>4. CASE ready' = Tail(ready)
    <2>1. /\ \A e : Waiting(e)' => Waiting(e)
          /\ \A c : Marked(c)' => Marked(c)
      BY <1>2, <1>4 DEF Waiting, Marked
    <2>2. LineOrdered'
      BY <1>1, <1>2, <1>3, <1>4, <2>1 DEF LineInv, LineOrdered
    <2>3. QED
      BY <1>1, <2>1, <2>2 DEF LineEffect
  <1>5. ASSUME NEW c \in Calls, Head(ready) = Set(c), ready' = Append(Tail(ready), Done(c))
        PROVE  LineOrdered' /\ LineEffect
    <2>1. Range(ready') = Range(Tail(ready)) \cup {Done(c)}
      <3>1. Done(c) \in Callback
        BY Members
      <3>2. \A q \in Seq(Callback) : Range(Append(q, Done(c))) = Range(q) \cup {Done(c)}
        BY <3>1, AppendRange
      <3>3. QED
        BY <1>2, <1>5, <3>2
    <2>2. \A e : Waiting(e)' => Waiting(e)
      BY <1>2, <2>1, Constructors DEF Waiting
    <2>3. \A d \in Calls : Marked(d)' => Marked(d)
      BY <1>2, <1>5, <2>1, Constructors DEF Marked
    <2>4. Ordered(ready', CallbackOrder)
      <3>1. \A a \in Range(Tail(ready)) : a \in Callback /\ a # Set(c) /\ a # Done(c)
        BY <1>2, <1>5, LineTypes, CallbackPairs
      <3>2. \A a \in Range(Tail(ready)) : <<a, Done(c)>> \in CallbackOrder
        BY <3>1, CallbackPairs
      <3>3. QED
        BY <1>2, <1>5, <3>2, Members, OrderedAppend
    <2>5. LineOrdered'
      BY <1>1, <1>3, <2>2, <2>4 DEF LineInv, LineOrdered
    <2>6. QED
      BY <1>1, <2>2, <2>3, <2>5 DEF LineEffect
  <1>6. QED
    BY <1>4, <1>5

LEMMA LineReply ==
    ASSUME ServerSound, LineInv, ready # <<>>, NEW c \in Calls, Head(ready) = Done(c),
           ready' = Tail(ready), Send(Owner(c), Reply(c)), wire' = wire, conn' = conn
    PROVE  LineOrdered' /\ LineEffect
  <1>1. /\ Tail(ready) \in Seq(Callback)
        /\ Range(ready) = Range(ready') \cup {Done(c)}
        /\ Ordered(ready', CallbackOrder)
        /\ \A a \in Range(ready') : <<Done(c), a>> \in CallbackOrder
    BY HeadTaken DEF LineInv, LineOrdered
  <1>2. Marked(c) /\ ~Marked(c)'
    BY <1>1, CallbackPairs DEF Marked
  <1>3. \A d \in Calls : Marked(d)' => Marked(d)
    BY <1>1 DEF Marked
  <1>4. \A e : Waiting(e)' => Waiting(e)
    BY <1>1 DEF Waiting
  <1>5. \A s \in Sessions : SessionOrdered(s)' /\ OnLine(s)' = IF s = Owner(c)
                                THEN OnLine(s) \cup {Reply(c)} ELSE OnLine(s)
    <2>1. Owner(c) \in Sessions => \A p \in OnLine(Owner(c)) : <<p, Reply(c)>> \in PacketOrder
      <3>1. Owner(c) \in Sessions => OnLine(Owner(c)) \subseteq Packet
        BY LineTypes DEF OnLine
      <3>2. Owner(c) \in Sessions => Reply(c) \notin OnLine(Owner(c))
        BY <1>2 DEF LineInv, Sources
      <3>3. QED
        BY <3>1, <3>2, PacketPairs
    <2>2. QED
      BY <2>1, Members, Constructors, SendOrdered DEF LineInv, LineOrdered
  <1>6. \A e \in Entry : Shown(e)' => Shown(e)
    BY <1>5, Constructors DEF Shown
  <1>7. LineOrdered'
    BY <1>1, <1>4, <1>5, <1>6 DEF LineInv, LineOrdered
  <1>8. \A s \in Sessions : \A e : Note(e) \in OnLine(s)' => Note(e) \in OnLine(s)
    BY <1>5, Constructors
  <1>9. \A s \in Sessions : \A d \in Calls : Reply(d) \in OnLine(s)' =>
            Reply(d) \in OnLine(s) \/ (d = c /\ s = Owner(c))
    BY <1>5, Constructors
  <1>10. QED
    BY <1>2, <1>3, <1>4, <1>7, <1>8, <1>9 DEF LineEffect

LEMMA LineNote ==
    ASSUME ServerSound, LineInv, ready # <<>>, NEW e \in Entry, Head(ready) = Posted(e),
           ready' = Tail(ready), Send(Session(e.origin), Note(e)), wire' = wire, conn' = conn
    PROVE  LineOrdered' /\ LineEffect
  <1>1. /\ Range(ready) = Range(ready') \cup {Posted(e)}
        /\ Ordered(ready', CallbackOrder)
        /\ \A a \in Range(ready') : <<Posted(e), a>> \in CallbackOrder
    BY HeadTaken DEF LineInv, LineOrdered
  <1>2. Waiting(e) /\ \A f \in Entry : Waiting(f)' => Waiting(f) /\ Earlier(e, f)
    BY <1>1, CallbackPairs DEF Waiting
  <1>3. \A d \in Calls : Marked(d)' => Marked(d)
    BY <1>1 DEF Marked
  <1>4. \A s \in Sessions : SessionOrdered(s)' /\ OnLine(s)' = IF s = Session(e.origin)
                                THEN OnLine(s) \cup {Note(e)} ELSE OnLine(s)
    <2> DEFINE t == Session(e.origin)
    <2>1. t \in Sessions => \A p \in OnLine(t) : <<p, Note(e)>> \in PacketOrder
      <3>1. t \in Sessions => OnLine(t) \subseteq Packet
        BY LineTypes DEF OnLine
      <3>2. t \in Sessions => \A f \in Entry : Note(f) \in OnLine(t) => Earlier(f, e)
        BY <1>2 DEF LineInv, LineOrdered, Shown
      <3>3. QED
        BY <3>1, <3>2, PacketPairs
    <2>2. QED
      BY <2>1, Members, Constructors, SendOrdered DEF LineInv, LineOrdered
  <1>5. \A f \in Entry : Shown(f)' => Shown(f) \/ f = e
    BY <1>4, Constructors DEF Shown
  <1>6. LineOrdered'
    BY <1>1, <1>2, <1>4, <1>5 DEF LineInv, LineOrdered
  <1>7. \A s \in Sessions : \A f \in Entry : Note(f) \in OnLine(s)' =>
            Note(f) \in OnLine(s) \/ (f = e /\ s = Session(e.origin))
    BY <1>4, Constructors
  <1>8. \A s \in Sessions : \A d : Reply(d) \in OnLine(s)' => Reply(d) \in OnLine(s)
    BY <1>4, Constructors
  <1>9. QED
    BY <1>2, <1>3, <1>6, <1>7, <1>8 DEF LineEffect

LEMMA LineWrite ==
    ASSUME ServerSound, LineInv, NEW s \in Sessions, Write(s)
    PROVE  LineOrdered' /\ LineEffect
  <1> DEFINE p == Head(out[s])
  <1>1. /\ out[s] # <<>> /\ p.kind # "stop" /\ UNCHANGED <<conn, ready>>
        /\ \A t \in Sessions : out'[t] = IF t = s THEN Tail(out[t]) ELSE out[t]
        /\ \A t \in Sessions : wire'[t] = IF t = s THEN Append(wire[t], p) ELSE wire[t]
    BY DEF Write, ServerSound, ServerTypeInv, ServerTypeOK
  <1>2. /\ SessionOrdered(s) /\ wire[s] \in Seq(Packet) /\ out[s] \in Seq(Packet)
        /\ Range(wire[s]) \subseteq Packet
    BY LineTypes DEF LineInv, LineOrdered
  <1>3. /\ p \in Packet /\ Tail(out[s]) \in Seq(Packet)
        /\ Range(out[s]) = Range(Tail(out[s])) \cup {p}
        /\ Ordered(Tail(out[s]), PacketOrder)
        /\ \A q \in Range(Tail(out[s])) : <<p, q>> \in PacketOrder
    BY <1>1, <1>2, HeadRange, OrderedTail DEF SessionOrdered
  <1>4. /\ Range(Append(wire[s], p)) = Range(wire[s]) \cup {p}
        /\ Ordered(Append(wire[s], p), PacketOrder)
    <2>1. \A q \in Range(wire[s]) : <<q, p>> \in PacketOrder
      BY <1>2, <1>3 DEF SessionOrdered
    <2>2. QED
      BY <1>2, <1>3, <2>1, AppendRange, OrderedAppend DEF SessionOrdered
  <1>5. p # Stop
    BY <1>1, Constructors
  <1>6. SessionOrdered(s)' /\ OnLine(s)' = OnLine(s)
    <2>1. out'[s] = Tail(out[s]) /\ wire'[s] = Append(wire[s], p) /\ conn' = conn
      BY <1>1
    <2>2. Range(wire'[s]) \X Range(out'[s]) \subseteq PacketOrder
      BY <1>2, <1>3, <1>4, <2>1 DEF SessionOrdered
    <2>3. QED
      BY <1>2, <1>3, <1>4, <1>5, <2>1, <2>2 DEF SessionOrdered, OnLine
  <1>7. ASSUME NEW t \in Sessions, t # s PROVE SessionOrdered(t)' /\ OnLine(t)' = OnLine(t)
    BY <1>1, <1>7 DEF LineInv, LineOrdered, SessionOrdered, OnLine
  <1>8. /\ \A t \in Sessions : SessionOrdered(t)' /\ OnLine(t)' = OnLine(t)
        /\ \A e : Waiting(e)' = Waiting(e) /\ Shown(e)' = Shown(e)
        /\ \A c : Marked(c)' = Marked(c)
    BY <1>1, <1>6, <1>7 DEF Waiting, Marked, Shown
  <1>9. QED
    BY <1>1, <1>8 DEF LineInv, LineOrdered, LineEffect

LEMMA LineClose ==
    ASSUME ServerSound, LineInv, NEW s \in Sessions, Close(s)
    PROVE  LineOrdered' /\ LineEffect
  <1>1. PICK callbacks \in SetToSeqs(Cancellations(s)) : ready' = ready \o callbacks
    BY DEF Close
  <1>2. /\ callbacks \in Seq(Callback)
        /\ \A a \in Range(callbacks) : a \in Callback /\ a.run = "cancel"
    <2>1. callbacks \in Seq(Callback) /\ Range(callbacks) \subseteq Cancellations(s)
      BY CancellationsType DEF ServerSound
    <2>2. \A a \in Cancellations(s) : a \in Callback /\ a.run = "cancel"
      BY CallbackTypes DEF Cancellations
    <2>3. QED
      BY <2>1, <2>2
  <1>3. wire' = wire /\ out' = out /\ conn[s] = "bound" /\ conn' = [conn EXCEPT ![s] = "closing"]
    BY DEF Close
  <1>4. \A t \in Sessions : conn[t] = "closed" => conn'[t] = "closed"
    BY <1>3 DEF ServerSound, ServerTypeInv, ServerTypeOK
  <1>5. \A t \in Sessions : SessionOrdered(t)' /\ OnLine(t)' = OnLine(t)
    BY <1>3, <1>4, SessionsKept DEF LineInv, LineOrdered
  <1>6. Range(ready') = Range(ready) \cup Range(callbacks)
    BY <1>1, <1>2, LineTypes, ConcatRange
  <1>7. Ordered(ready', CallbackOrder)
    <2>1. \A a \in Callback, b \in Range(callbacks) : <<a, b>> \in CallbackOrder
      BY <1>2, CallbackPairs
    <2>2. QED
      BY <1>1, <1>2, <2>1, LineTypes, OrderedConcat DEF LineInv, LineOrdered
  <1>8. /\ \A e : Posted(e).run # "cancel"
        /\ \A c : Set(c).run # "cancel" /\ Done(c).run # "cancel"
    BY Constructors
  <1>9. /\ \A e : Waiting(e)' = Waiting(e) /\ Shown(e)' = Shown(e)
        /\ \A c : Marked(c)' = Marked(c)
    BY <1>2, <1>5, <1>6, <1>8 DEF Waiting, Marked, Shown
  <1>10. QED
    BY <1>5, <1>7, <1>9 DEF LineInv, LineOrdered, LineEffect

LEMMA LineStop ==
    ASSUME ServerSound, LineInv, NEW s \in Sessions, StopWriter(s)
    PROVE  LineOrdered' /\ LineEffect
  <1>1. /\ conn[s] = "unregistered" /\ conn' = [conn EXCEPT ![s] = "closed"]
        /\ Send(s, Stop) /\ UNCHANGED <<ready, wire>>
    BY DEF StopWriter, Stop
  <1>2. /\ \A t \in Sessions : conn[t] = "closed" => conn'[t] = "closed"
        /\ conn'[s] = "closed"
    BY <1>1 DEF ServerSound, ServerTypeInv, ServerTypeOK
  <1>3. \A q \in OnLine(s) : <<q, Stop>> \in PacketOrder
    <2>1. OnLine(s) \subseteq Packet
      BY LineTypes DEF OnLine
    <2>2. Stop \notin OnLine(s)
      BY <1>1 DEF LineInv, LineOrdered, SessionOrdered, OnLine
    <2>3. QED
      BY <2>1, <2>2, PacketPairs
  <1>4. \A t \in Sessions : SessionOrdered(t)' /\ OnLine(t)' = IF t = s
                                THEN OnLine(t) \cup {Stop} ELSE OnLine(t)
    BY <1>1, <1>2, <1>3, Members, SendOrdered DEF LineInv, LineOrdered
  <1>5. /\ \A t \in Sessions : \A e : (Note(e) \in OnLine(t)') = (Note(e) \in OnLine(t))
        /\ \A t \in Sessions : \A c : (Reply(c) \in OnLine(t)') = (Reply(c) \in OnLine(t))
    BY <1>4, Constructors
  <1>6. /\ \A e : Waiting(e)' = Waiting(e) /\ Shown(e)' = Shown(e)
        /\ \A c : Marked(c)' = Marked(c)
    BY <1>1, <1>5 DEF Waiting, Marked, Shown
  <1>7. QED
    BY <1>1, <1>4, <1>5, <1>6 DEF LineInv, LineOrdered, LineEffect

LEMMA LineCallback ==
    ASSUME ServerSound, LineInv, RunCallback
    PROVE  LineOrdered' /\ LineEffect
  <1> DEFINE a == Head(ready)
  <1>1. ready # <<>> /\ wire' = wire /\ conn' = conn
    BY DEF RunCallback, CopyResult, OnDispatchDone, CancelDispatch, EnqueueOutbound
  <1>2. a \in Callback
    BY <1>1, LineTypes, HeadRange
  <1>3. CASE CopyResult
    <2>1. a.run = "set" /\ out' = out
      BY <1>3 DEF CopyResult
    <2>2. a.of \in Calls /\ a = Set(a.of)
      BY <1>2, <2>1, Exhausted, Constructors
    <2>3. ready' = Tail(ready) \/ ready' = Append(Tail(ready), Done(a.of))
      BY <1>3 DEF CopyResult, Done
    <2>4. QED
      BY <1>1, <2>1, <2>2, <2>3, LineTaken
  <1>4. CASE OnDispatchDone
    <2>1. a.run = "done" /\ ready' = Tail(ready)
      BY <1>4 DEF OnDispatchDone
    <2>2. a.of \in Calls /\ a = Done(a.of)
      BY <1>2, <2>1, Exhausted, Constructors
    <2>3. out' = out \/ Send(Owner(a.of), Reply(a.of))
      BY <1>4 DEF OnDispatchDone, Reply
    <2>4. QED
      BY <1>1, <2>1, <2>2, <2>3, LineTaken, LineReply
  <1>5. CASE CancelDispatch
    BY <1>1, <1>5, LineTaken DEF CancelDispatch
  <1>6. CASE EnqueueOutbound
    <2>1. a.run = "enqueue" /\ ready' = Tail(ready)
      BY <1>6 DEF EnqueueOutbound
    <2>2. a.of \in Entry /\ a = Posted(a.of)
      BY <1>2, <2>1, Exhausted, Constructors
    <2>3. out' = out \/ Send(Session(a.of.origin), Note(a.of))
      BY <1>6 DEF EnqueueOutbound, Note
    <2>4. QED
      BY <1>1, <2>1, <2>2, <2>3, LineTaken, LineNote
  <1>7. QED
    BY <1>3, <1>4, <1>5, <1>6 DEF RunCallback

\* Every step keeps the order and adds no more than that.
LEMMA LineStep ==
    ASSUME ServerSound, LineInv, [ServerNext]_allVars
    PROVE  LineOrdered' /\ LineEffect
  <1>1. ASSUME UNCHANGED <<wire, out, ready>>,
               \A t \in Sessions : conn[t] = "closed" => conn'[t] = "closed"
        PROVE  LineOrdered' /\ LineEffect
    BY <1>1, LineKept DEF LineInv
  <1>2. ASSUME NEW c \in Calls, Start(c) \/ Work(c) PROVE LineOrdered' /\ LineEffect
    <2>1. /\ UNCHANGED <<conn, out, wire>> /\ PostResult(c)
          /\ pc[c] # "done"
      BY <1>2, ThreadFrame DEF Start, Begin, Work, ServerSound, IInv
    <2>2. \/ ready' = ready
          \/ pc'[c] = "done" /\ ready' = Append(ready, Set(c))
      BY <2>1 DEF PostResult, Later, Set
    <2>3. QED
      BY <1>1, <2>1, <2>2, LinePost
  <1>3. CASE Around
    <2>1. ASSUME NEW s \in Sessions, HandleNegotiate(s) \/ Unregister(s)
          PROVE  LineOrdered' /\ LineEffect
      <3>1. /\ UNCHANGED <<wire, out, ready>>
            /\ \A t \in Sessions : conn[t] = "closed" => conn'[t] = "closed"
        BY <2>1 DEF HandleNegotiate, Unregister, ServerSound, ServerTypeInv, ServerTypeOK
      <3>2. QED
        BY <1>1, <3>1
    <2>2. ASSUME NEW c \in Calls, NEW m \in Traffic, Receive(c, m)
          PROVE  LineOrdered' /\ LineEffect
      BY <1>1, <2>2 DEF Receive
    <2>3. QED
      BY <1>3, <2>1, <2>2, LineRoute, LineCallback, LineWrite, LineClose, LineStop DEF Around
  <1>4. ASSUME NEW e \in outbound, DrainPoll(e) PROVE LineOrdered' /\ LineEffect
    BY <1>1, <1>4 DEF DrainPoll
  <1>5. CASE Produce \/ \E s \in Sessions : CloseSession(s)
    BY <1>1, <1>5, ServerFrame DEF Produce, CloseSession
  <1>6. QED
    BY <1>1, <1>2, <1>3, <1>4, <1>5, ServerStepCases, ServerFrame

\* What becomes of the notification thread's hand and of the queue it drains.
LEMMA HandFlow ==
    ASSUME [ServerNext]_allVars
    PROVE  \/ hand' = hand
           \/ hand # None /\ hand' = None /\ UNCHANGED <<outbound, stamp>>
           \/ /\ hand = None /\ hand' \in outbound /\ Oldest(hand')
              /\ outbound' = outbound \ {hand'} /\ stamp' = stamp
              /\ UNCHANGED <<wire, out, ready, pc>>
  <1>1. CASE Around
    BY <1>1, AroundFrame, ProtocolFrame DEF Around, HandleNegotiate, Write, Close, Unregister,
       StopWriter, Receive, DrainRoute, RunCallback, CopyResult, OnDispatchDone, CancelDispatch,
       EnqueueOutbound
  <1>2. ASSUME NEW e \in outbound, DrainPoll(e)
        PROVE  /\ hand = None /\ hand' = e /\ Oldest(e)
               /\ outbound' = outbound \ {e} /\ stamp' = stamp
               /\ UNCHANGED <<wire, out, ready, pc>>
    BY <1>2 DEF DrainPoll, Poll, requestVars
  <1>3. CASE \E c \in Calls : Start(c) \/ Work(c)
    BY <1>3 DEF Start, Work
  <1>4. CASE Produce \/ \E s \in Sessions : CloseSession(s)
    BY <1>4, ServerFrame DEF Produce, CloseSession
  <1>5. QED
    BY <1>1, <1>2, <1>3, <1>4, ServerStepCases, ServerFrame

\* What the order of the line says of the next state, from what a step adds to it.
LEMMA PassedStep ==
    ASSUME LineEffect
    PROVE  \A e \in Entry : Passed(e)' => Passed(e) \/ (e = hand /\ hand # None /\ hand' = None)
  BY DEF LineEffect, Passed, Shown

LEMMA DrainOrderedStep ==
    ASSUME ServerSound, LineInv, LineEffect, [ServerNext]_allVars
    PROVE  DrainOrdered'
  <1>1. /\ TypeOK /\ SubscribersDone /\ [Next]_vars /\ StampsBounded
        /\ hand \in Entry \cup {None} /\ outbound \subseteq Entry
    BY NextDone, LineTypes DEF ServerSound, IInv
  <1>2. /\ stamp \in Nat /\ stamp' \in Nat /\ stamp' >= stamp
        /\ \A e \in outbound' : e \notin outbound => e \in Entry /\ e.stamp = stamp + 1
                                                     /\ stamp' = stamp + 1
    BY <1>1, QueueFlow DEF TypeOK
  <1>3. /\ \A e \in Entry : e.stamp \in Nat
        /\ \A f \in outbound : f.stamp <= stamp
    BY <1>1, <1>2 DEF Entry, StampsBounded
  <1>4. DrainOrdered
    BY DEF LineInv
  <1>5. \A e \in Entry : Passed(e)' => Passed(e) \/ (e = hand /\ hand # None /\ hand' = None)
    BY PassedStep
  <1>6. CASE hand' = hand
    <2>1. \A e \in Entry : Passed(e)' => Passed(e)
      BY <1>5, <1>6
    <2>2. hand' # None => \A e \in Entry : Passed(e)' => Earlier(e, hand')
      BY <1>4, <1>6, <2>1 DEF DrainOrdered
    <2>3. ASSUME NEW f \in outbound'
          PROVE  /\ \A e \in Entry : Passed(e)' => Earlier(e, f)
                 /\ hand' # None => Earlier(hand', f)
      <3>1. CASE f \in outbound
        BY <1>4, <1>6, <2>1, <3>1 DEF DrainOrdered
      <3>2. CASE f \notin outbound
        <4>1. f.stamp = stamp + 1
          BY <1>2, <2>3, <3>2
        <4>2. ASSUME NEW e \in Entry, e.stamp <= stamp PROVE Earlier(e, f)
          BY <1>2, <1>3, <4>1, <4>2 DEF Earlier
        <4>3. hand # None => hand \in Entry /\ hand.stamp <= stamp
          BY <1>1, <1>4 DEF DrainOrdered
        <4>4. QED
          BY <1>4, <1>6, <2>1, <4>2, <4>3 DEF DrainOrdered
      <3>3. QED
        BY <3>1, <3>2
    <2>4. \A e \in Entry : Passed(e)' => e.stamp <= stamp'
      BY <1>2, <1>3, <1>4, <2>1 DEF DrainOrdered
    <2>5. hand' # None => hand'.stamp <= stamp'
      BY <1>1, <1>2, <1>3, <1>4, <1>6 DEF DrainOrdered
    <2>6. QED
      BY <2>2, <2>3, <2>4, <2>5 DEF DrainOrdered
  <1>7. CASE hand # None /\ hand' = None /\ UNCHANGED <<outbound, stamp>>
    BY <1>4, <1>5, <1>7 DEF DrainOrdered
  <1>8. CASE /\ hand = None /\ hand' \in outbound /\ Oldest(hand')
             /\ outbound' = outbound \ {hand'} /\ stamp' = stamp
    <2>1. \A e \in Entry : Passed(e)' => Passed(e)
      BY <1>5, <1>8
    <2>2. \A f \in outbound' : Earlier(hand', f)
      BY <1>8 DEF Oldest, Earlier
    <2>3. hand'.stamp <= stamp'
      BY <1>3, <1>8
    <2>4. QED
      BY <1>4, <1>8, <2>1, <2>2, <2>3 DEF DrainOrdered
  <1>9. QED
    BY <1>6, <1>7, <1>8, HandFlow

LEMMA SourcesStep ==
    ASSUME ServerSound, LineInv, LineEffect, [ServerNext]_allVars
    PROVE  Sources'
  <1>1. /\ TypeOK /\ SubscribersDone /\ [Next]_vars /\ outbound \subseteq Entry
        /\ Framed /\ Framed'
    BY NextDone, LineTypes, Embedded DEF ServerSound, IInv
  <1>2. \A c \in Calls : /\ pc[c] \in Past => pc'[c] \in Past
                         /\ pc[c] = "done" => pc'[c] = "done"
                         /\ pc[c] # "idle" => msg'[c] = msg[c]
    BY <1>1, PcFlow DEF Past
  <1>3. \A e \in Entry : e.origin \in Calls
    BY DEF Entry
  <1>4. Sources
    BY DEF LineInv
  <1>5. ASSUME NEW e \in Entry, Passed(e)' \/ e \in outbound' \/ (hand' # None /\ e = hand')
        PROVE  pc'[e.origin] \in Past
    <2>1. Passed(e) \/ e \in outbound \/ (hand # None /\ e = hand) \/ e \in outbound' \ outbound
      BY <1>5, PassedStep, HandFlow
    <2>2. CASE Passed(e) \/ e \in outbound \/ (hand # None /\ e = hand)
      BY <1>2, <1>3, <1>4, <2>2 DEF Sources
    <2>3. CASE e \in outbound' \ outbound
      BY <1>1, <1>2, <1>3, <2>3, QueueFlow
    <2>4. QED
      BY <2>1, <2>2, <2>3
  <1>6. ASSUME NEW e \in Entry, NEW s \in Sessions, Note(e) \in OnLine(s)'
        PROVE  Session(e.origin)' = s
    <2>1. Note(e) \in OnLine(s) \/ (Waiting(e) /\ Session(e.origin) = s)
      BY <1>6 DEF LineEffect
    <2>2. Passed(e) /\ Session(e.origin) = s
      BY <1>4, <2>1 DEF Sources, Passed, Shown
    <2>3. pc[e.origin] # "idle"
      BY <1>4, <2>2 DEF Sources, Past
    <2>4. QED
      BY <1>2, <1>3, <2>2, <2>3 DEF Session
  <1>7. ASSUME NEW c \in Calls, Marked(c)' PROVE pc'[c] = "done"
    BY <1>2, <1>4, <1>7 DEF LineEffect, Sources
  <1>8. ASSUME NEW c \in Calls, NEW s \in Sessions, Reply(c) \in OnLine(s)'
        PROVE  pc'[c] = "done" /\ Owner(c)' = s /\ ~Marked(c)'
    <2>1. pc[c] = "done" /\ Owner(c) = s /\ ~Marked(c)'
      BY <1>4, <1>8 DEF LineEffect, Sources
    <2>2. frame'[c] = frame[c]
      BY <1>1, <1>2, <2>1 DEF Framed
    <2>3. QED
      BY <1>2, <2>1, <2>2 DEF Owner
  <1>9. QED
    BY <1>5, <1>6, <1>7, <1>8 DEF Sources

LEMMA LineInvInit == ServerInit => LineInv
  <1> SUFFICES ASSUME ServerInit PROVE LineInv
    OBVIOUS
  <1>1. /\ hand = None /\ outbound = {} /\ ready = <<>>
        /\ \A s \in Sessions : wire[s] = <<>> /\ out[s] = <<>>
    BY DEF ServerInit, Init
  <1>2. Range(<<>>) = {} /\ \A R : Ordered(<<>>, R)
    BY DEF Range, Ordered
  <1>3. /\ \A s \in Sessions : OnLine(s) = {} /\ SessionOrdered(s)
        /\ \A e : ~Passed(e)
        /\ \A c : ~Marked(c)
    BY <1>1, <1>2 DEF OnLine, SessionOrdered, Passed, Shown, Waiting, Marked
  <1>4. LineOrdered
    BY <1>1, <1>2, <1>3 DEF LineOrdered, Passed
  <1>5. DrainOrdered
    BY <1>1, <1>3 DEF DrainOrdered
  <1>6. Sources
    BY <1>1, <1>3 DEF Sources
  <1>7. QED
    BY <1>4, <1>5, <1>6 DEF LineInv

LEMMA LineInvInductive ==
    /\ ServerInit => ServerSound /\ LineInv
    /\ ServerSound /\ LineInv /\ [ServerNext]_allVars => ServerSound' /\ LineInv'
  <1>1. ServerInit => ServerSound /\ LineInv
    BY ServerSoundInductive, LineInvInit
  <1>2. ServerSound /\ [ServerNext]_allVars => ServerSound'
    BY ServerSoundInductive
  <1>3. ServerSound /\ LineInv /\ [ServerNext]_allVars => LineInv'
    <2>1. SUFFICES ASSUME ServerSound, LineInv, [ServerNext]_allVars PROVE LineInv'
      OBVIOUS
    <2>2. LineOrdered' /\ LineEffect
      BY <2>1, LineStep
    <2>3. DrainOrdered' /\ Sources'
      BY <2>1, <2>2, DrainOrderedStep, SourcesStep
    <2>4. QED
      BY <2>2, <2>3 DEF LineInv
  <1>4. QED
    BY <1>1, <1>2, <1>3

\* Whatever thread is slow, and whoever disconnects, a client reads notifications in the
\* order in which they were queued, none of them twice and no second reply: the entry in the
\* notification thread's hand comes after all that is on the line and before all that is
\* still queued, and the line (loop, connection, socket) keeps its order.
THEOREM NoticesInOrder == ServerSpec => []DeliveredInOrder
  <1>1. ServerSound /\ LineInv => DeliveredInOrder
    <2>1. SUFFICES ASSUME ServerSound, LineInv, NEW s \in Sessions,
                          NEW i \in DOMAIN wire[s], NEW j \in DOMAIN wire[s], i < j
                   PROVE  /\ wire[s][i] # wire[s][j]
                          /\ IsNotice(wire[s][i]) /\ IsNotice(wire[s][j]) =>
                                 wire[s][i].of.stamp <= wire[s][j].of.stamp
      BY DEF DeliveredInOrder
    <2>2. wire[s] \in Seq(Packet) /\ Ordered(wire[s], PacketOrder)
      BY <2>1, LineTypes DEF LineInv, LineOrdered, SessionOrdered
    <2>3. <<wire[s][i], wire[s][j]>> \in PacketOrder
      BY <2>1, <2>2 DEF Ordered
    <2>4. QED
      BY <2>3 DEF PacketOrder, IsNotice
  <1>2. QED
    BY <1>1, LineInvInductive, PTL DEF ServerSpec

-----------------------------------------------------------------------------
(* Progress behind its reply.                                              *)

\* The ways the loop's queue moves; a call that ends puts its mark at the end.
ReadyMoves ==
    /\ \/ ready' = ready
       \/ \E d \in Calls : pc[d] # "done" /\ ready' = Append(ready, Set(d))
       \/ hand # None /\ hand \in Entry /\ ready' = Append(ready, Posted(hand))
       \/ ready # <<>> /\ ready' = Tail(ready)
       \/ ready # <<>> /\ \E d \in Calls : ready' = Append(Tail(ready), Done(d))
       \/ \E callbacks \in Seq(Callback) :
            /\ ready' = ready \o callbacks
            /\ \A a \in Range(callbacks) : a.run = "cancel"
    /\ \A c \in Calls : pc[c] # "done" /\ pc'[c] = "done" => ready' = Append(ready, Set(c))

\* The ways connections' queues move.
OutMoves ==
    \/ UNCHANGED <<out, wire>>
    \/ \E s \in Sessions : Write(s)
    \/ /\ wire' = wire
       /\ \E s : \E p \in Packet : /\ Send(s, p)
                                   /\ \A e \in Entry : p = Note(e) => Waiting(e)

LEMMA CallbackMoves ==
    ASSUME ServerSound, RunCallback
    PROVE  /\ wire' = wire /\ ready # <<>>
           /\ \/ ready' = Tail(ready)
              \/ \E d \in Calls : ready' = Append(Tail(ready), Done(d))
           /\ OutMoves
  <1> DEFINE a == Head(ready)
  <1>1. ready # <<>> /\ wire' = wire
    BY DEF RunCallback, CopyResult, OnDispatchDone, CancelDispatch, EnqueueOutbound
  <1>2. a \in Callback /\ a \in Range(ready)
    BY <1>1, LineTypes, HeadRange
  <1>3. CASE CopyResult
    <2>1. a.run = "set" /\ out' = out
      BY <1>3 DEF CopyResult
    <2>2. a.of \in Calls
      BY <1>2, <2>1, CallbackTypes
    <2>3. ready' = Tail(ready) \/ ready' = Append(Tail(ready), Done(a.of))
      BY <1>3 DEF CopyResult, Done
    <2>4. QED
      BY <1>1, <2>1, <2>2, <2>3 DEF OutMoves
  <1>4. CASE OnDispatchDone
    <2>1. a.run = "done" /\ ready' = Tail(ready)
      BY <1>4 DEF OnDispatchDone
    <2>2. a.of \in Calls
      BY <1>2, <2>1, CallbackTypes
    <2>3. out' = out \/ Send(Owner(a.of), Reply(a.of))
      BY <1>4 DEF OnDispatchDone, Reply
    <2>4. Reply(a.of) \in Packet /\ \A e : Reply(a.of) # Note(e)
      BY <2>2, Members, Constructors
    <2>5. QED
      BY <1>1, <2>1, <2>3, <2>4 DEF OutMoves
  <1>5. CASE CancelDispatch
    BY <1>1, <1>5 DEF CancelDispatch, OutMoves
  <1>6. CASE EnqueueOutbound
    <2>1. a.run = "enqueue" /\ ready' = Tail(ready)
      BY <1>6 DEF EnqueueOutbound
    <2>2. a.of \in Entry /\ a = Posted(a.of)
      BY <1>2, <2>1, Exhausted, Constructors
    <2>3. out' = out \/ Send(Session(a.of.origin), Note(a.of))
      BY <1>6 DEF EnqueueOutbound, Note
    <2>4. /\ Note(a.of) \in Packet
          /\ \A e \in Entry : Note(a.of) = Note(e) => Waiting(e)
      BY <1>2, <2>2, Members, Constructors DEF Waiting
    <2>5. QED
      BY <1>1, <2>1, <2>3, <2>4 DEF OutMoves
  <1>7. QED
    BY <1>1, <1>3, <1>4, <1>5, <1>6 DEF RunCallback

LEMMA Moves ==
    ASSUME ServerSound, [ServerNext]_allVars
    PROVE  ReadyMoves /\ OutMoves
  <1>1. ASSUME ready' = ready, pc' = pc PROVE ReadyMoves
    BY <1>1 DEF ReadyMoves
  <1>2. ASSUME NEW c \in Calls, Start(c) \/ Work(c) PROVE ReadyMoves /\ OutMoves
    <2>1. /\ UNCHANGED <<out, wire>> /\ PostResult(c) /\ pc[c] # "done"
      BY <1>2, ThreadFrame DEF Start, Begin, Work, ServerSound, IInv
    <2>2. \A d \in Calls \ {c} : pc'[d] = pc[d]
      BY <1>2, ThreadFrame DEF Start, Begin, Work, ServerSound, IInv, TypeOK
    <2>3. \/ ready' = ready /\ pc'[c] # "done"
          \/ pc'[c] = "done" /\ ready' = Append(ready, Set(c))
      BY <2>1 DEF PostResult, Later, Set
    <2>4. ReadyMoves
      BY <2>1, <2>2, <2>3 DEF ReadyMoves
    <2>5. QED
      BY <2>1, <2>4 DEF OutMoves
  <1>3. CASE DrainRoute
    <2>1. /\ hand # None /\ pc' = pc /\ UNCHANGED <<out, wire>>
          /\ ready' = Append(ready, Posted(hand)) \/ ready' = ready
      BY <1>3, ProtocolFrame DEF DrainRoute, Later, Posted
    <2>2. hand \in Entry
      BY <2>1, LineTypes
    <2>3. QED
      BY <2>1, <2>2 DEF ReadyMoves, OutMoves
  <1>4. CASE RunCallback
    <2>1. pc' = pc
      BY <1>4, AroundFrame, ProtocolFrame DEF Around
    <2>2. QED
      BY <1>4, <2>1, CallbackMoves DEF ReadyMoves
  <1>5. ASSUME NEW s \in Sessions, Close(s) PROVE ReadyMoves /\ OutMoves
    <2>1. PICK callbacks \in SetToSeqs(Cancellations(s)) : ready' = ready \o callbacks
      BY <1>5 DEF Close
    <2>2. callbacks \in Seq(Callback) /\ Range(callbacks) \subseteq Cancellations(s)
      BY CancellationsType DEF ServerSound
    <2>3. \A a \in Range(callbacks) : a.run = "cancel"
      BY <2>2 DEF Cancellations
    <2>4. pc' = pc /\ UNCHANGED <<out, wire>>
      BY <1>5, ProtocolFrame DEF Close
    <2>5. QED
      BY <2>1, <2>2, <2>3, <2>4 DEF ReadyMoves, OutMoves
  <1>6. ASSUME NEW s \in Sessions, StopWriter(s) PROVE ReadyMoves /\ OutMoves
    <2>1. ready' = ready /\ pc' = pc /\ wire' = wire /\ Send(s, Stop)
      BY <1>6, ProtocolFrame DEF StopWriter, Stop
    <2>2. Stop \in Packet /\ \A e : Stop # Note(e)
      BY Members, Constructors
    <2>3. QED
      BY <1>1, <2>1, <2>2 DEF OutMoves
  <1>7. ASSUME NEW s \in Sessions, Write(s) PROVE ReadyMoves /\ OutMoves
    BY <1>1, <1>7, ProtocolFrame DEF Write, OutMoves
  <1>8. ASSUME ready' = ready, pc' = pc, UNCHANGED <<out, wire>> PROVE ReadyMoves /\ OutMoves
    BY <1>1, <1>8 DEF OutMoves
  <1>9. CASE Around
    <2>1. \/ DrainRoute \/ RunCallback
          \/ \E s \in Sessions : Close(s) \/ StopWriter(s) \/ Write(s)
          \/ ready' = ready /\ pc' = pc /\ UNCHANGED <<out, wire>>
      BY <1>9, AroundFrame, ProtocolFrame DEF Around, HandleNegotiate, Unregister, Receive
    <2>2. QED
      BY <1>3, <1>4, <1>5, <1>6, <1>7, <1>8, <2>1
  <1>10. ASSUME NEW e \in outbound, DrainPoll(e) PROVE ReadyMoves /\ OutMoves
    BY <1>8, <1>10 DEF DrainPoll, Poll, requestVars
  <1>11. CASE Produce
    BY <1>8, <1>11, ServerFrame DEF Produce, Progress, Publish, requestVars
  <1>12. ASSUME NEW s \in Sessions, CloseSession(s) PROVE ReadyMoves /\ OutMoves
    BY <1>8, <1>12, ServerFrame DEF CloseSession, SocketDrop, SocketSweep, requestVars
  <1>13. QED
    BY <1>2, <1>8, <1>9, <1>10, <1>11, <1>12, ServerStepCases, ServerFrame, ProtocolFrame

\* Progress in the notification thread's hand, on the loop or on a connection comes too
\* late for its reply only by the end of the call, and then it is the one in hand.
LEMMA LateOnLoop ==
    ASSUME ServerSound, ReadyMoves, NEW c \in Calls, NEW e \in Entry,
           e.origin = c, e.rid # None, pc[c] \in {"returned", "done"}, pc'[c] = "done",
           Behind(ready', {Set(c), Done(c)}, Posted(e))
    PROVE  Late(c, e)
  <1> DEFINE marks == {Set(c), Done(c)}
             x == Posted(e)
  <1>1. ready \in Seq(Callback) /\ x \in Callback
    BY LineTypes, Members
  <1>2. x \notin marks /\ x.run = "enqueue"
    BY Constructors
  <1>3. Behind(ready', marks, x)
    OBVIOUS
  <1> HIDE DEF x
  <1>4. \A d \in Calls : Set(d) \in Callback /\ Done(d) \in Callback /\ x # Set(d) /\ x # Done(d)
    BY Members, Constructors DEF x
  <1>5. pc[c] = "done"
    <2>1. CASE ready' = Append(ready, Set(c))
      BY <1>1, <1>3, <1>4, <2>1, BehindAppend
    <2>2. QED
      BY <2>1 DEF ReadyMoves
  <1>6. Behind(ready, marks, x) \/ (hand # None /\ hand = e)
    <2>1. ASSUME NEW d \in Calls, ready' = Append(ready, Set(d)) PROVE Behind(ready, marks, x)
      BY <1>1, <1>3, <1>4, <2>1, BehindAppend
    <2>2. ASSUME hand # None, hand \in Entry, ready' = Append(ready, Posted(hand)), hand # e
          PROVE  Behind(ready, marks, x)
      <3>1. Posted(hand) \in Callback /\ x # Posted(hand)
        BY <2>2, Members, Constructors DEF x
      <3>2. QED
        BY <1>1, <1>3, <2>2, <3>1, BehindAppend
    <2>3. ASSUME ready # <<>>, ready' = Tail(ready) PROVE Behind(ready, marks, x)
      BY <1>1, <1>3, <2>3, BehindTail
    <2>4. ASSUME ready # <<>>, NEW d \in Calls, ready' = Append(Tail(ready), Done(d))
          PROVE  Behind(ready, marks, x)
      <3>1. Tail(ready) \in Seq(Callback)
        BY <1>1, <2>4, HeadRange
      <3>2. \A q \in Seq(Callback) :
                Behind(Append(q, Done(d)), marks, x) => Behind(q, marks, x)
        BY <1>4, BehindAppend
      <3>3. Behind(Tail(ready), marks, x)
        BY <1>3, <2>4, <3>1, <3>2
      <3>4. QED
        BY <1>1, <2>4, <3>3, BehindTail
    <2>5. ASSUME NEW callbacks \in Seq(Callback), ready' = ready \o callbacks,
                 \A a \in Range(callbacks) : a.run = "cancel"
          PROVE  Behind(ready, marks, x)
      <3>1. x \notin Range(callbacks)
        BY <1>2, <2>5
      <3>2. QED
        BY <1>1, <1>3, <2>5, <3>1, BehindConcat
    <2>6. QED
      BY <1>3, <2>1, <2>2, <2>3, <2>4, <2>5 DEF ReadyMoves
  <1>7. QED
    BY <1>5, <1>6 DEF Late, x

LEMMA LateOnConnection ==
    ASSUME ServerSound, LineInv, OutMoves, NEW c \in Calls, NEW e \in Entry, NEW s \in Sessions,
           e.origin = c, e.rid # None, Reply(c) \in OnLine(s) => pc[c] = "done" /\ ~Marked(c),
           \/ Trails(out'[s], Reply(c), Note(e))
           \/ Reply(c) \in Range(wire'[s]) /\ Note(e) \in Range(out'[s])
           \/ Trails(wire'[s], Reply(c), Note(e))
    PROVE  Late(c, e)
  <1> DEFINE m == Reply(c)
             x == Note(e)
  <1>1. /\ wire[s] \in Seq(Packet) /\ out[s] \in Seq(Packet)
        /\ m \in Packet /\ x \in Packet /\ m # x
    BY LineTypes, Members, Constructors
  <1>2. \/ Trails(out'[s], m, x)
        \/ m \in Range(wire'[s]) /\ x \in Range(out'[s])
        \/ Trails(wire'[s], m, x)
    OBVIOUS
  <1>3. \/ Trails(out[s], m, x)
        \/ m \in Range(wire[s]) /\ x \in Range(out[s])
        \/ Trails(wire[s], m, x)
        => Late(c, e)
    BY DEF Late
  <1> HIDE DEF m, x
  <1>4. CASE out'[s] = out[s] /\ wire'[s] = wire[s]
    BY <1>2, <1>3, <1>4
  <1>5. CASE Write(s)
    <2> DEFINE p == Head(out[s])
    <2>1. /\ out[s] # <<>> /\ out'[s] = Tail(out[s]) /\ wire'[s] = Append(wire[s], p)
      BY <1>5 DEF Write, ServerSound, ServerTypeInv, ServerTypeOK
    <2>2. p \in Packet /\ Range(out[s]) = Range(out'[s]) \cup {p}
      BY <1>1, <2>1, HeadRange
    <2>3. Range(wire'[s]) = Range(wire[s]) \cup {p}
      BY <1>1, <2>1, <2>2, AppendRange
    <2>4. CASE Trails(out'[s], m, x)
      BY <1>1, <1>3, <2>1, <2>4, TrailsTail
    <2>5. CASE m \in Range(wire'[s]) /\ x \in Range(out'[s])
      <3>1. CASE m = p
        <4>1. Trails(out[s], p, x)
          BY <1>1, <2>1, <2>5, TrailsHead
        <4>2. QED
          BY <1>3, <3>1, <4>1
      <3>2. CASE m # p
        BY <1>3, <2>2, <2>3, <2>5, <3>2
      <3>3. QED
        BY <3>1, <3>2
    <2>6. CASE Trails(wire'[s], m, x)
      <3>1. Trails(wire[s], m, x) \/ (x = p /\ m \in Range(wire[s]))
        BY <1>1, <2>1, <2>2, <2>6, TrailsAppend
      <3>2. QED
        BY <1>3, <2>2, <3>1
    <2>7. QED
      BY <1>2, <2>4, <2>5, <2>6
  <1>6. ASSUME wire' = wire, NEW p \in Packet, Send(s, p), p = x => Waiting(e)
        PROVE  Late(c, e)
    <2>1. out'[s] = Append(out[s], p) /\ wire'[s] = wire[s]
      BY <1>6 DEF Send, ServerSound, ServerTypeInv, ServerTypeOK
    <2>2. Range(out'[s]) = Range(out[s]) \cup {p}
      BY <1>1, <2>1, AppendRange
    <2>3. ASSUME m \in Range(out[s]) \cup Range(wire[s]), p = x PROVE Late(c, e)
      <3>1. pc[c] = "done" /\ ~Marked(c)
        BY <2>3 DEF OnLine, m
      <3>2. /\ ready \in Seq(Callback) /\ Posted(e) \in Range(ready)
            /\ \A y \in {Set(c), Done(c)} : y \notin Range(ready)
        BY <1>6, <2>3, <3>1, LineTypes DEF Waiting, Marked
      <3>3. Behind(ready, {Set(c), Done(c)}, Posted(e))
        BY <3>2, BehindNone
      <3>4. QED
        BY <3>1, <3>3 DEF Late
    <2>4. CASE Trails(out'[s], m, x)
      <3>1. Trails(out[s], m, x) \/ (x = p /\ m \in Range(out[s]))
        BY <1>1, <2>1, <2>4, TrailsAppend
      <3>2. QED
        BY <1>3, <2>3, <3>1
    <2>5. CASE m \in Range(wire'[s]) /\ x \in Range(out'[s])
      BY <1>3, <2>1, <2>2, <2>3, <2>5
    <2>6. CASE Trails(wire'[s], m, x)
      BY <1>3, <2>1, <2>6
    <2>7. QED
      BY <1>2, <2>4, <2>5, <2>6
  <1>7. ASSUME NEW t \in Sessions, Write(t), t # s PROVE out'[s] = out[s] /\ wire'[s] = wire[s]
    BY <1>7 DEF Write, ServerSound, ServerTypeInv, ServerTypeOK
  <1>8. ASSUME NEW t, NEW p \in Packet, Send(t, p), t # s PROVE out'[s] = out[s]
    BY <1>8 DEF Send, ServerSound, ServerTypeInv, ServerTypeOK
  <1>9. CASE \E t \in Sessions : Write(t)
    BY <1>4, <1>5, <1>7, <1>9
  <1>10. ASSUME wire' = wire, NEW t, NEW p \in Packet, Send(t, p), p = x => Waiting(e)
         PROVE  Late(c, e)
    BY <1>4, <1>6, <1>8, <1>10
  <1>11. QED
    BY <1>4, <1>9, <1>10 DEF OutMoves, x

LEMMA LateStep ==
    ASSUME ~(ReuseIds /\ BackgroundProgress), ServerSound, LineInv, Sources', Framed',
           ReadyMoves, OutMoves, LineEffect, [ServerNext]_allVars,
           NEW c \in Calls, NEW e \in Entry, Late(c, e)'
    PROVE  Late(c, e) \/ (pc[c] \notin {"returned", "done"} /\ e = hand')
  <1>1. /\ e.origin = c /\ e.rid # None
        /\ \/ hand' # None /\ hand' = e /\ pc'[c] \in {"returned", "done"}
           \/ pc'[c] = "done" /\ Behind(ready', {Set(c), Done(c)}, Posted(e))
           \/ \E s \in Sessions :
                \/ Trails(out'[s], Reply(c), Note(e))
                \/ Reply(c) \in Range(wire'[s]) /\ Note(e) \in Range(out'[s])
                \/ Trails(wire'[s], Reply(c), Note(e))
    BY DEF Late
  <1>2. /\ TypeOK /\ SubscribersDone /\ [Next]_vars
        /\ \A f \in outbound : f.rid # None => pc[f.origin] = "running"
    BY NextDone DEF ServerSound, IInv, QueuedProgressCounted
  <1>3. pc[c] \in Past => (pc[c] = "running" /\ pc'[c] # "done") \/ pc[c] \in {"returned", "done"}
    BY <1>2, PcFlow DEF Past
  <1>4. CASE hand' # None /\ hand' = e /\ pc'[c] \in {"returned", "done"}
    <2>1. CASE pc[c] \in {"returned", "done"}
      <3>1. hand' = hand
        BY <1>1, <1>2, <1>4, <2>1, HandFlow
      <3>2. QED
        BY <1>1, <1>4, <2>1, <3>1 DEF Late
    <2>2. QED
      BY <1>4, <2>1
  <1>5. CASE pc'[c] = "done" /\ Behind(ready', {Set(c), Done(c)}, Posted(e))
    <2>1. Waiting(e)'
      BY <1>5, LineTypes DEF Behind, Waiting, Range
    <2>2. Waiting(e) \/ (hand # None /\ e = hand)
      BY <2>1 DEF LineEffect
    <2>3. pc[c] \in Past
      BY <1>1, <2>2 DEF LineInv, Sources, Passed
    <2>4. QED
      BY <1>1, <1>3, <1>5, <2>3, LateOnLoop
  <1>6. ASSUME NEW s \in Sessions,
               \/ Trails(out'[s], Reply(c), Note(e))
               \/ Reply(c) \in Range(wire'[s]) /\ Note(e) \in Range(out'[s])
               \/ Trails(wire'[s], Reply(c), Note(e))
        PROVE  Late(c, e)
    BY <1>1, <1>6, LateOnConnection DEF LineInv, Sources
  <1>7. QED
    BY <1>1, <1>4, <1>5, <1>6

LEMMA OneLateStep ==
    ASSUME ~(ReuseIds /\ BackgroundProgress), ServerSound, LineInv, OneLate,
           [ServerNext]_allVars
    PROVE  OneLate'
  <1> SUFFICES ASSUME NEW c \in Calls, NEW e \in Entry, NEW f \in Entry,
                      Late(c, e)', Late(c, f)'
               PROVE  e = f
    BY DEF OneLate
  <1>1. /\ Sources' /\ Framed' /\ ReadyMoves /\ OutMoves /\ LineEffect
    BY LineInvInductive, Moves, LineStep DEF ServerSound, LineInv
  <1>2. /\ Late(c, e) \/ (pc[c] \notin {"returned", "done"} /\ e = hand')
        /\ Late(c, f) \/ (pc[c] \notin {"returned", "done"} /\ f = hand')
    BY <1>1, LateStep
  <1>3. ASSUME NEW g \in Entry, Late(c, g) PROVE pc[c] \in {"returned", "done"}
    <2>1. ASSUME NEW s \in Sessions,
                 \/ Trails(out[s], Reply(c), Note(g))
                 \/ Reply(c) \in Range(wire[s]) /\ Note(g) \in Range(out[s])
                 \/ Trails(wire[s], Reply(c), Note(g))
          PROVE  pc[c] = "done"
      <3>1. Reply(c) \in OnLine(s)
        BY <2>1, LineTypes DEF Trails, OnLine, Range
      <3>2. QED
        BY <3>1 DEF LineInv, Sources
    <2>2. QED
      BY <1>3, <2>1 DEF Late
  <1>4. QED
    BY <1>2, <1>3 DEF OneLate

LEMMA OneLateInit == ServerInit => OneLate
  <1> SUFFICES ASSUME ServerInit, NEW c \in Calls, NEW e \in Entry PROVE ~Late(c, e)
    BY DEF OneLate
  <1>1. /\ hand = None /\ pc[c] = "idle"
        /\ \A s \in Sessions : wire[s] = <<>> /\ out[s] = <<>>
    BY DEF ServerInit, Init
  <1>2. \A m, x : ~Trails(<<>>, m, x)
    BY DEF Trails
  <1>3. \A x : x \notin Range(<<>>)
    BY DEF Range
  <1>4. QED
    BY <1>1, <1>2, <1>3 DEF Late

\* However many times a handler reports progress, and however late the notification thread
\* comes, no more than one of its reports follows its reply to the client: the one that was
\* in the thread's hand when the handler ended.  Nothing of a call that has ended is taken
\* into the hand any more, for the purge has emptied the queue of it.
THEOREM OneTrails ==
    ASSUME ~(ReuseIds /\ BackgroundProgress)
    PROVE  ServerSpec => []OneTrailingProgress
  <1>1. ServerSound /\ LineInv /\ OneLate => OneTrailingProgress
    <2> SUFFICES ASSUME ServerSound, LineInv, OneLate, NEW c \in Calls
                 PROVE  Cardinality(Trailing(c)) <= 1
      BY DEF OneTrailingProgress
    <2>1. ASSUME NEW j \in Trailing(c)
          PROVE  \E s \in Sessions, e \in Entry :
                   j \in DOMAIN wire[s] /\ wire[s][j] = Note(e) /\ Late(c, e)
      <3>1. PICK s \in Sessions : /\ j \in DOMAIN wire[s] /\ IsProgress(wire[s][j], c)
                                  /\ \E i \in 1 .. (j - 1) : IsReply(wire[s][i], c)
        BY <2>1 DEF Trailing
      <3>2. PICK i \in 1 .. (j - 1) : IsReply(wire[s][i], c)
        BY <3>1
      <3>3. wire[s] \in Seq(Packet) /\ DOMAIN wire[s] = 1 .. Len(wire[s]) /\ Len(wire[s]) \in Nat
        BY LineTypes
      <3>4. wire[s][j] \in Packet /\ i \in 1 .. Len(wire[s]) /\ j \in 1 .. Len(wire[s]) /\ i < j
        BY <3>1, <3>2, <3>3
      <3>5. PICK e \in Entry : wire[s][j] = Note(e) /\ e.rid # None /\ e.origin = c
        <4>1. wire[s][j].kind = "note" /\ wire[s][j].of.rid # None /\ wire[s][j].of.origin = c
          BY <3>1 DEF IsProgress
        <4>2. PICK e \in Entry : wire[s][j] = Note(e)
          BY <3>4, <4>1, Exhausted, Constructors
        <4>3. QED
          BY <4>1, <4>2, Constructors
      <3>6. wire[s][i] = Reply(c)
        BY <3>2 DEF IsReply, Reply
      <3>7. Trails(wire[s], Reply(c), Note(e))
        BY <3>4, <3>5, <3>6 DEF Trails
      <3>8. Late(c, e)
        BY <3>5, <3>7 DEF Late
      <3>9. QED
        BY <3>1, <3>5, <3>8
    <2>2. ASSUME NEW j \in Trailing(c), NEW k \in Trailing(c) PROVE j = k
      <3>1. PICK s \in Sessions, e \in Entry :
                j \in DOMAIN wire[s] /\ wire[s][j] = Note(e) /\ Late(c, e)
        BY <2>1
      <3>2. PICK t \in Sessions, f \in Entry :
                k \in DOMAIN wire[t] /\ wire[t][k] = Note(f) /\ Late(c, f)
        BY <2>1
      <3>3. e = f
        BY <3>1, <3>2 DEF OneLate
      <3>4. s = t
        <4>1. Note(e) \in OnLine(s) /\ Note(f) \in OnLine(t)
          BY <3>1, <3>2 DEF OnLine, Range
        <4>2. QED
          BY <3>3, <4>1 DEF LineInv, Sources
      <3>5. /\ wire[s] \in Seq(Packet) /\ Ordered(wire[s], PacketOrder)
            /\ DOMAIN wire[s] = 1 .. Len(wire[s]) /\ Len(wire[s]) \in Nat
        BY LineTypes DEF LineInv, LineOrdered, SessionOrdered
      <3>6. j \in 1 .. Len(wire[s]) /\ k \in 1 .. Len(wire[s]) /\ wire[s][j] = wire[s][k]
        BY <3>1, <3>2, <3>3, <3>4, <3>5
      <3>7. ASSUME NEW i1 \in 1 .. Len(wire[s]), NEW i2 \in 1 .. Len(wire[s]), i1 < i2
            PROVE  wire[s][i1] # wire[s][i2]
        <4>1. <<wire[s][i1], wire[s][i2]>> \in PacketOrder
          BY <3>5, <3>7 DEF Ordered
        <4>2. QED
          BY <4>1 DEF PacketOrder
      <3>8. QED
        BY <3>5, <3>6, <3>7
    <2>3. CASE Trailing(c) = {}
      BY <2>3, FS_EmptySet
    <2>4. ASSUME NEW j \in Trailing(c) PROVE Cardinality(Trailing(c)) <= 1
      <3>1. Trailing(c) = {j}
        BY <2>2, <2>4
      <3>2. Cardinality({j}) = 1
        BY FS_Singleton
      <3>3. QED
        BY <3>1, <3>2
    <2>5. QED
      BY <2>3, <2>4
  <1>2. ServerSound /\ LineInv /\ OneLate /\ [ServerNext]_allVars => OneLate'
    BY OneLateStep
  <1>3. QED
    BY <1>1, <1>2, OneLateInit, LineInvInductive, PTL DEF ServerSpec

-----------------------------------------------------------------------------
(* No request of an open connection is lost.                               *)

Cancel(c) == [run |-> "cancel", of |-> c]

\* Where a call is while its connection is open, and that nothing of a close reaches it then.
Placed(c) ==
    /\ frame[c] = None => future[c] = "none"
    /\ frame[c] # None => conn[Owner(c)] # "negotiating"
    /\ future[c] = "cancelled" \/ Cancel(c) \in Range(ready) =>
          frame[c] # None /\ conn[Owner(c)] # "bound"
    /\ frame[c] # None /\ conn[Owner(c)] = "bound" =>
          /\ pc[c] = "idle" => c \in Range(work)
          /\ pc[c] = "done" => IsNote(c) \/ Marked(c) \/ Reply(c) \in OnLine(Owner(c))

\* Only notifications are answered with silence.
Silence == \A c \in Calls : pc[c] = "done" /\ reply[c] = "SILENT" => IsNote(c)

LEMMA SilenceThread ==
    ASSUME TypeOK, NEW c \in Calls, Thread(c)
    PROVE  /\ \A d \in Calls : d # c => reply'[d] = reply[d]
           /\ pc'[c] = "done" /\ reply'[c] = "SILENT" => IsNote(c)
  <1>1. CASE Gate(c) \/ SetupGate(c) \/ CloseGate(c) \/ ServerInfo(c) \/ CancelLookup(c)
    BY <1>1 DEF Gate, SetupGate, CloseGate, ServerInfo, CancelLookup, GoTo, Return, Wire, IsNote,
                TypeOK
  <1>2. CASE Authorize(c) \/ NoHandler(c) \/ Finish(c) \/ Negotiate(c) \/ RunTransfer(c)
             \/ CancelAuthorize(c) \/ Subscribe(c)
    BY <1>2 DEF Authorize, NoHandler, Finish, Negotiate, FailTransfer, RunTransfer,
                CancelAuthorize, Subscribe, GoTo, AuditAndReturn, Wire, IsNote, TypeOK
  <1>3. CASE Register(c) \/ Complete(c) \/ CancelAct(c) \/ SetupReturn(c) \/ CloseMark(c)
             \/ CloseSweep(c)
    BY <1>3 DEF Register, Complete, CancelAct, SetupReturn, CloseMark, CloseSweep, GoTo,
                AuditAndReturn, Wire, IsNote, TypeOK
  <1>4. QED
    BY <1>1, <1>2, <1>3 DEF Thread

LEMMA SilenceStep ==
    ASSUME TypeOK, Silence, [Next]_vars
    PROVE  Silence'
  <1>1. ASSUME NEW c \in Calls, reply'[c] = reply[c], pc'[c] = pc[c],
               pc'[c] = "done", reply'[c] = "SILENT"
        PROVE  IsNote(c)'
    <2>1. msg'[c] = msg[c]
      BY <1>1, PcFlow
    <2>2. QED
      BY <1>1, <2>1 DEF Silence, IsNote
  <1>2. CASE reply' = reply /\ pc' = pc
    BY <1>1, <1>2 DEF Silence
  <1>3. ASSUME NEW d \in Calls, NEW m \in Traffic, Begin(d, m) PROVE Silence'
    <2>1. pc'[d] = "done" /\ reply'[d] = "SILENT" => IsNote(d)'
      BY <1>3 DEF Begin, IsNote, TypeOK
    <2>2. \A c \in Calls : c # d => reply'[c] = reply[c] /\ pc'[c] = pc[c]
      BY <1>3 DEF Begin, TypeOK
    <2>3. QED
      BY <1>1, <2>1, <2>2 DEF Silence
  <1>4. ASSUME NEW d \in Calls, Thread(d) PROVE Silence'
    <2>1. msg' = msg /\ \A c \in Calls : c # d => reply'[c] = reply[c] /\ pc'[c] = pc[c]
      BY <1>4, ThreadFrame, SilenceThread DEF TypeOK
    <2>2. pc'[d] = "done" /\ reply'[d] = "SILENT" => IsNote(d)'
      BY <1>4, <2>1, SilenceThread DEF IsNote
    <2>3. QED
      BY <1>1, <2>1, <2>2 DEF Silence
  <1>5. CASE \/ \E d \in Calls : Progress(d)
             \/ \E topic \in Topics : Publish(topic)
             \/ \E e \in outbound : Poll(e)
             \/ \E s \in Sessions : SocketDrop(s) \/ SocketSweep(s)
             \/ UNCHANGED vars
    BY <1>2, <1>5 DEF Progress, Publish, Poll, SocketDrop, SocketSweep, vars, requestVars
  <1>6. QED
    BY <1>3, <1>4, <1>5 DEF Next

\* What is on a connection's line stays on it.
LEMMA LineGrows ==
    ASSUME ServerSound, [ServerNext]_allVars, NEW s \in Sessions
    PROVE  OnLine(s) \subseteq OnLine(s)'
  <1>1. out[s] \in Seq(Packet) /\ wire[s] \in Seq(Packet)
    BY LineTypes
  <1>2. out \in [Sessions -> Seq(Packet)] /\ wire \in [Sessions -> Seq(Packet)]
    BY DEF ServerSound, ServerTypeInv, ServerTypeOK
  <1>3. CASE UNCHANGED <<out, wire>>
    BY <1>3 DEF OnLine
  <1>4. ASSUME NEW t \in Sessions, Write(t) PROVE OnLine(s) \subseteq OnLine(s)'
    <2>1. CASE t # s
      <3>1. out'[s] = out[s] /\ wire'[s] = wire[s]
        BY <1>2, <1>4, <2>1 DEF Write
      <3>2. QED
        BY <3>1 DEF OnLine
    <2>2. CASE t = s
      <3>1. /\ out[s] # <<>> /\ out'[s] = Tail(out[s])
            /\ wire'[s] = Append(wire[s], Head(out[s]))
        BY <1>2, <1>4, <2>2 DEF Write
      <3>2. Head(out[s]) \in Packet /\ Range(out[s]) = Range(out'[s]) \cup {Head(out[s])}
        BY <1>1, <3>1, HeadRange
      <3>3. Range(wire'[s]) = Range(wire[s]) \cup {Head(out[s])}
        BY <1>1, <3>1, <3>2, AppendRange
      <3>4. QED
        BY <3>2, <3>3 DEF OnLine
    <2>3. QED
      BY <2>1, <2>2
  <1>5. ASSUME wire' = wire, NEW t, NEW p \in Packet, Send(t, p)
        PROVE  OnLine(s) \subseteq OnLine(s)'
    <2>1. out'[s] = out[s] \/ out'[s] = Append(out[s], p)
      BY <1>2, <1>5 DEF Send
    <2>2. \A q \in Seq(Packet) : Range(Append(q, p)) = Range(q) \cup {p}
      BY <1>5, AppendRange
    <2>3. Range(out[s]) \subseteq Range(out'[s])
      BY <1>1, <2>1, <2>2
    <2>4. QED
      BY <1>5, <2>3 DEF OnLine
  <1>6. QED
    BY <1>3, <1>4, <1>5, Moves DEF OutMoves

\* A step in which c stays where it is, or moves on towards its reply.
LEMMA PlacedKept ==
    ASSUME NEW c \in Calls, Placed(c),
           frame'[c] = frame[c], pc'[c] = pc[c], pc[c] # "idle" => msg'[c] = msg[c],
           future'[c] = future[c] \/ (future[c] = "pending" /\ future'[c] = "done"),
           frame[c] # None => \/ conn'[Owner(c)] = conn[Owner(c)]
                              \/ conn'[Owner(c)] \notin {"bound", "negotiating"},
           Cancel(c) \in Range(ready') => Cancel(c) \in Range(ready),
           frame[c] # None /\ conn[Owner(c)] = "bound" =>
               /\ c \in Range(work) => c \in Range(work')
               /\ OnLine(Owner(c)) \subseteq OnLine(Owner(c))'
               /\ Marked(c) => IsNote(c) \/ Marked(c)' \/ Reply(c) \in OnLine(Owner(c))'
    PROVE  Placed(c)'
  <1>1. Owner(c)' = Owner(c) /\ (pc[c] # "idle" => (IsNote(c)' <=> IsNote(c)))
    BY DEF Owner, IsNote
  <1>2. frame'[c] = None => future'[c] = "none"
    BY DEF Placed
  <1>3. frame'[c] # None => conn'[Owner(c)] # "negotiating"
    BY DEF Placed
  <1>4. future'[c] = "cancelled" \/ Cancel(c) \in Range(ready') =>
            frame'[c] # None /\ conn'[Owner(c)] # "bound"
    BY DEF Placed
  <1>5. ASSUME frame'[c] # None, conn'[Owner(c)] = "bound"
        PROVE  /\ pc'[c] = "idle" => c \in Range(work')
               /\ pc'[c] = "done" => IsNote(c)' \/ Marked(c)' \/ Reply(c) \in OnLine(Owner(c))'
    BY <1>1, <1>5 DEF Placed
  <1>6. QED
    BY <1>1, <1>2, <1>3, <1>4, <1>5 DEF Placed, Cancel

LEMMA PlacedReceive ==
    ASSUME ServerSound, NEW c \in Calls, Placed(c), NEW d \in Calls, NEW m \in Traffic,
           Receive(d, m)
    PROVE  Placed(c)'
  <1>1. /\ conn[m.session] = "bound" /\ frame[d] = None
        /\ frame' = [frame EXCEPT ![d] = m] /\ work' = Append(work, d)
        /\ future' = [future EXCEPT ![d] = "pending"]
        /\ UNCHANGED <<conn, ready, out, wire>> /\ pc' = pc /\ msg' = msg
    BY ProtocolFrame DEF Receive
  <1>2. /\ frame' \in [Calls -> Message \cup {None}] /\ frame'[d] = m /\ future'[d] = "pending"
        /\ c # d => frame'[c] = frame[c] /\ future'[c] = future[c]
        /\ Range(work') = Range(work) \cup {d} /\ m # None
    BY <1>1, AppendRange, DispatchAssumption DEF ServerSound, ServerTypeInv, ServerTypeOK
  <1>3. CASE c = d
    <2>1. pc'[c] = "idle" /\ Cancel(c) \notin Range(ready')
      BY <1>1, <1>3 DEF ServerSound, Framed, Placed
    <2>2. Owner(c)' = m.session
      BY <1>2, <1>3 DEF Owner
    <2>3. QED
      BY <1>1, <1>2, <1>3, <2>1, <2>2 DEF Placed, Cancel
  <1>4. CASE c # d
    <2>1. OnLine(Owner(c))' = OnLine(Owner(c)) /\ (Marked(c) => Marked(c)')
      BY <1>1, <1>2, <1>4 DEF OnLine, Marked, Owner
    <2>2. QED
      BY <1>1, <1>2, <1>4, <2>1, PlacedKept
  <1>5. QED
    BY <1>3, <1>4

\* A worker goes on with d.
LEMMA PlacedThread ==
    ASSUME ServerSound, [Next]_vars, NEW c \in Calls, Placed(c), NEW d \in Calls,
           PostResult(d), UNCHANGED <<conn, frame, future, out, wire>>,
           pc'[d] # "idle", \A e \in Calls : e # d => pc'[e] = pc[e],
           c # d /\ c \in Range(work) => c \in Range(work')
    PROVE  Placed(c)'
  <1>1. ready' = ready \/ ready' = Append(ready, Set(d))
    BY DEF PostResult, Later, Set
  <1>2. Range(ready') = Range(ready) \/ Range(ready') = Range(ready) \cup {Set(d)}
    <2>1. \A q \in Seq(Callback) : Range(Append(q, Set(d))) = Range(q) \cup {Set(d)}
      BY Members, AppendRange
    <2>2. QED
      BY <1>1, <2>1, LineTypes
  <1>3. pc'[d] = "done" => Marked(d)'
    <2>1. pc'[d] = "done" => ready' = Append(ready, Set(d))
      BY DEF PostResult, Later, Set
    <2>2. Set(d) \in Range(Append(ready, Set(d)))
      BY LineTypes, Members, AppendRange
    <2>3. QED
      BY <2>1, <2>2 DEF Marked
  <1>4. Cancel(c) \in Range(ready') => Cancel(c) \in Range(ready)
    BY <1>2 DEF Cancel, Set
  <1>5. /\ Marked(c) => Marked(c)'
        /\ OnLine(Owner(c))' = OnLine(Owner(c)) /\ Owner(c)' = Owner(c)
    BY <1>2 DEF Marked, OnLine, Owner
  <1>6. CASE c = d
    BY <1>3, <1>4, <1>5, <1>6 DEF Placed, Cancel
  <1>7. CASE c # d
    <2>1. pc[c] # "idle" => msg'[c] = msg[c]
      BY PcFlow DEF ServerSound, IInv
    <2>2. QED
      BY <1>4, <1>5, <1>7, <2>1, PlacedKept
  <1>8. QED
    BY <1>6, <1>7

\* The loop runs a callback.
LEMMA PlacedCallback ==
    ASSUME ServerSound, LineInv, Silence, [ServerNext]_allVars, NEW c \in Calls, Placed(c),
           RunCallback
    PROVE  Placed(c)'
  <1> DEFINE a == Head(ready)
  <1>1. /\ ready # <<>> /\ pc' = pc /\ msg' = msg /\ UNCHANGED <<conn, frame, wire>>
        /\ CopyResult \/ OnDispatchDone \/ CancelDispatch \/ EnqueueOutbound
    BY ProtocolFrame DEF RunCallback, CopyResult, OnDispatchDone, CancelDispatch, EnqueueOutbound
  <1>2. /\ a \in Callback /\ Tail(ready) \in Seq(Callback)
        /\ Range(ready) = Range(Tail(ready)) \cup {a}
    BY <1>1, HeadTaken DEF LineInv, LineOrdered
  <1>3. frame[c] # None => Owner(c) \in Sessions
    BY DispatchAssumption DEF ServerSound, Framed, Owner, Message
  <1>4. frame[c] # None => OnLine(Owner(c)) \subseteq OnLine(Owner(c))'
    <2>1. \A s \in Sessions : OnLine(s) \subseteq OnLine(s)'
      BY LineGrows
    <2>2. PICK s : s = Owner(c)
      OBVIOUS
    <2>3. Owner(c)' = s
      BY <1>1, <2>2 DEF Owner
    <2>4. QED
      BY <1>3, <2>1, <2>2, <2>3 DEF OnLine
  <1>5. CASE CopyResult
    <2>1. a.run = "set" /\ work' = work /\ out' = out
      BY <1>5 DEF CopyResult
    <2>2. PICK d \in Calls : a = Set(d) /\ a.of = d
      BY <1>2, <2>1, Exhausted, Constructors
    <2>3. CASE future[d] = "pending" /\ future' = [future EXCEPT ![d] = "done"]
               /\ ready' = Append(Tail(ready), Done(d))
      <3>1. Range(ready') = Range(Tail(ready)) \cup {Done(d)}
        <4>1. \A q \in Seq(Callback) : Range(Append(q, Done(d))) = Range(q) \cup {Done(d)}
          BY Members, AppendRange
        <4>2. QED
          BY <1>2, <2>3, <4>1
      <3>2. Cancel(c) \in Range(ready') => Cancel(c) \in Range(ready)
        BY <1>2, <3>1 DEF Cancel, Done
      <3>3. Marked(c) => Marked(c)'
        BY <1>2, <2>2, <3>1, Constructors DEF Marked
      <3>4. future'[c] = future[c] \/ (future[c] = "pending" /\ future'[c] = "done")
        BY <2>3 DEF ServerSound, ServerTypeInv, ServerTypeOK
      <3>5. QED
        BY <1>1, <1>4, <2>1, <3>2, <3>3, <3>4, PlacedKept
    <2>4. CASE future[d] = "cancelled" /\ ready' = Tail(ready) /\ future' = future
      <3>1. Cancel(c) \in Range(ready') => Cancel(c) \in Range(ready)
        BY <1>2, <2>4
      <3>2. c # d => (Marked(c) => Marked(c)')
        BY <1>2, <2>2, <2>4, Constructors DEF Marked
      <3>3. c = d => conn[Owner(c)] # "bound"
        BY <2>4 DEF Placed
      <3>4. QED
        BY <1>1, <1>4, <2>1, <2>4, <3>1, <3>2, <3>3, PlacedKept
    <2>5. QED
      BY <1>5, <2>2, <2>3, <2>4 DEF CopyResult, Done
  <1>6. ASSUME ready' = Tail(ready), future' = future,
               frame[c] # None /\ conn[Owner(c)] = "bound" =>
                   /\ c \in Range(work) => c \in Range(work')
                   /\ a \in {Set(c), Done(c)} => IsNote(c) \/ Reply(c) \in OnLine(Owner(c))'
        PROVE  Placed(c)'
    <2>1. Cancel(c) \in Range(ready') => Cancel(c) \in Range(ready)
      BY <1>2, <1>6
    <2>2. Marked(c) => Marked(c)' \/ a \in {Set(c), Done(c)}
      BY <1>2, <1>6 DEF Marked
    <2>3. QED
      BY <1>1, <1>4, <1>6, <2>1, <2>2, PlacedKept
  <1>7. CASE OnDispatchDone
    <2>1. /\ a.run = "done" /\ ready' = Tail(ready) /\ future' = future /\ work' = work
          /\ IF reply[a.of] = "SILENT" THEN UNCHANGED out
             ELSE Send(Owner(a.of), [kind |-> "reply", of |-> a.of])
      BY <1>7 DEF OnDispatchDone
    <2>2. PICK d \in Calls : a = Done(d) /\ a.of = d
      BY <1>2, <2>1, Exhausted, Constructors
    <2>3. ASSUME frame[c] # None, c = d PROVE IsNote(c) \/ Reply(c) \in OnLine(Owner(c))'
      <3>1. CASE reply[c] = "SILENT"
        <4>1. Marked(c)
          BY <1>2, <2>2, <2>3 DEF Marked
        <4>2. QED
          BY <3>1, <4>1 DEF Silence, LineInv, Sources
      <3>2. CASE reply[c] # "SILENT"
        <4>1. PICK s : s = Owner(c)
          OBVIOUS
        <4>2. Send(s, Reply(c)) /\ s \in Sessions /\ Owner(c)' = s
          BY <1>1, <1>3, <2>1, <2>2, <2>3, <3>2, <4>1 DEF Reply, Owner
        <4>3. out'[s] = Append(out[s], Reply(c)) /\ out[s] \in Seq(Packet) /\ Reply(c) \in Packet
          BY <4>2, Members, LineTypes DEF Send, ServerSound, ServerTypeInv, ServerTypeOK
        <4>4. Reply(c) \in Range(out'[s])
          BY <4>3, AppendRange
        <4>5. QED
          BY <4>2, <4>4 DEF OnLine
      <3>3. QED
        BY <3>1, <3>2
    <2>4. a \in {Set(c), Done(c)} => c = d
      BY <2>2, Constructors
    <2>5. QED
      BY <1>6, <2>1, <2>3, <2>4
  <1>8. CASE CancelDispatch
    <2>1. /\ a.run = "cancel" /\ ready' = Tail(ready) /\ future' = future
          /\ \/ \E i \in 1..Len(work) : work[i] = a.of /\ work' = RemoveAt(work, i)
             \/ work' = work
      BY <1>8 DEF CancelDispatch
    <2>2. a.of \in Calls /\ a = Cancel(a.of)
      BY <1>2, <2>1 DEF Callback, Cancel
    <2>3. a \notin {Set(c), Done(c)}
      BY <2>1, Constructors
    <2>4. a.of = c => frame[c] # None /\ conn[Owner(c)] # "bound"
      BY <1>2, <2>2 DEF Placed
    <2>5. a.of # c /\ c \in Range(work) => c \in Range(work')
      <3>1. work \in Seq(Calls)
        BY DEF ServerSound, ServerTypeInv, ServerTypeOK
      <3>2. QED
        BY <2>1, <3>1, RemoveOther
    <2>6. QED
      BY <1>6, <2>1, <2>3, <2>4, <2>5
  <1>9. CASE EnqueueOutbound
    <2>1. a.run = "enqueue" /\ ready' = Tail(ready) /\ future' = future /\ work' = work
      BY <1>9 DEF EnqueueOutbound
    <2>2. QED
      BY <1>6, <2>1, Constructors
  <1>10. QED
    BY <1>1, <1>5, <1>7, <1>8, <1>9

\* A connection closes: what it cancels is its own.
LEMMA PlacedClose ==
    ASSUME ServerSound, NEW c \in Calls, Placed(c), NEW s \in Sessions, Close(s)
    PROVE  Placed(c)'
  <1>1. /\ conn[s] = "bound" /\ conn' = [conn EXCEPT ![s] = "closing"]
        /\ future'[c] = IF future[c] = "pending" /\ Owner(c) = s THEN "cancelled" ELSE future[c]
        /\ UNCHANGED <<frame, work, out, wire>> /\ pc' = pc /\ msg' = msg
    BY ProtocolFrame DEF Close
  <1>2. PICK callbacks \in SetToSeqs(Cancellations(s)) : ready' = ready \o callbacks
    BY DEF Close
  <1>3. callbacks \in Seq(Callback) /\ Range(callbacks) \subseteq Cancellations(s)
    BY CancellationsType DEF ServerSound
  <1>4. Range(ready') = Range(ready) \cup Range(callbacks)
    BY <1>2, <1>3, LineTypes, ConcatRange
  <1>5. Cancel(c) \in Range(ready') =>
            Cancel(c) \in Range(ready) \/ (future[c] = "pending" /\ Owner(c) = s)
    BY <1>3, <1>4 DEF Cancellations, Cancel
  <1>6. Owner(c)' = Owner(c) /\ OnLine(Owner(c))' = OnLine(Owner(c))
    BY <1>1 DEF Owner, OnLine
  <1>7. conn' \in [Sessions -> {"negotiating", "bound", "closing", "unregistered", "closed"}]
        /\ conn'[s] = "closing" /\ \A t : t # s => conn'[t] = conn[t]
    BY <1>1 DEF ServerSound, ServerTypeInv, ServerTypeOK
  <1>8. CASE frame[c] # None /\ Owner(c) = s
    BY <1>1, <1>6, <1>7, <1>8 DEF Placed, Cancel
  <1>9. CASE frame[c] = None \/ Owner(c) # s
    <2>1. ~(future[c] = "pending" /\ Owner(c) = s)
      BY <1>9 DEF Placed
    <2>2. Marked(c) => Marked(c)'
      BY <1>4 DEF Marked
    <2>3. frame[c] # None => conn'[Owner(c)] = conn[Owner(c)]
      BY <1>7, <1>9
    <2>4. QED
      BY <1>1, <1>5, <1>6, <2>1, <2>2, <2>3, PlacedKept
  <1>10. QED
    BY <1>8, <1>9

LEMMA PlacedStep ==
    ASSUME ServerSound, LineInv, Silence, [ServerNext]_allVars, NEW c \in Calls, Placed(c)
    PROVE  Placed(c)'
  <1>1. TypeOK /\ Framed /\ [Next]_vars
    BY NextDone DEF ServerSound, IInv
  <1>2. conn \in [Sessions -> {"negotiating", "bound", "closing", "unregistered", "closed"}]
    BY DEF ServerSound, ServerTypeInv, ServerTypeOK
  <1>3. /\ Owner(c) \in Sessions \/ frame[c] = None
        /\ pc[c] # "idle" => msg'[c] = msg[c]
        /\ \A s \in Sessions : OnLine(s) \subseteq OnLine(s)'
    BY <1>1, PcFlow, LineGrows, DispatchAssumption DEF Framed, Owner, Message
  <1>4. ASSUME UNCHANGED <<frame, future, work>>, pc' = pc,
               frame[c] # None => \/ conn'[Owner(c)] = conn[Owner(c)]
                                  \/ conn'[Owner(c)] \notin {"bound", "negotiating"},
               \/ ready' = ready
               \/ hand \in Entry /\ ready' = Append(ready, Posted(hand))
        PROVE  Placed(c)'
    <2>1. Range(ready') = Range(ready) \/ \E e : Range(ready') = Range(ready) \cup {Posted(e)}
      <3>1. hand \in Entry => Range(Append(ready, Posted(hand))) = Range(ready) \cup {Posted(hand)}
        BY LineTypes, Members, AppendRange
      <3>2. QED
        BY <1>4, <3>1
    <2>2. /\ Cancel(c) \in Range(ready') => Cancel(c) \in Range(ready)
          /\ Marked(c) => Marked(c)'
      BY <2>1 DEF Cancel, Posted, Marked
    <2>3. frame[c] # None => OnLine(Owner(c)) \subseteq OnLine(Owner(c))'
      <3>1. PICK s : s = Owner(c)
        OBVIOUS
      <3>2. Owner(c)' = s
        BY <1>4, <3>1 DEF Owner
      <3>3. QED
        BY <1>3, <3>1, <3>2 DEF OnLine
    <2>4. QED
      BY <1>3, <1>4, <2>2, <2>3, PlacedKept
  <1>5. ASSUME NEW d \in Calls, Start(d) PROVE Placed(c)'
    <2>1. /\ work # <<>> /\ d = Head(work) /\ work' = Tail(work) /\ PostResult(d)
          /\ UNCHANGED <<conn, frame, future, out, wire>> /\ Begin(d, frame[d])
      BY <1>5 DEF Start
    <2>2. pc'[d] # "idle" /\ \A e \in Calls : e # d => pc'[e] = pc[e]
      BY <1>1, <2>1 DEF Begin, TypeOK
    <2>3. c # d /\ c \in Range(work) => c \in Range(work')
      BY <2>1, HeadRange DEF ServerSound, ServerTypeInv, ServerTypeOK
    <2>4. QED
      BY <1>1, <2>1, <2>2, <2>3, PlacedThread
  <1>6. ASSUME NEW d \in Calls, Work(d) PROVE Placed(c)'
    <2>1. /\ Thread(d) /\ PostResult(d) /\ UNCHANGED <<conn, frame, work, future, out, wire>>
      BY <1>6 DEF Work
    <2>2. pc'[d] # "idle" /\ \A e \in Calls : e # d => pc'[e] = pc[e]
      BY <1>1, <2>1, ThreadFrame DEF TypeOK
    <2>3. QED
      BY <1>1, <2>1, <2>2, PlacedThread
  <1>7. ASSUME NEW s \in Sessions,
               HandleNegotiate(s) \/ Write(s) \/ Unregister(s) \/ StopWriter(s)
        PROVE  Placed(c)'
    <2>1. UNCHANGED <<frame, future, work, ready>> /\ pc' = pc
      BY <1>7, ProtocolFrame DEF HandleNegotiate, Write, Unregister, StopWriter
    <2>2. \/ conn' = conn
          \/ conn[s] = "negotiating" /\ conn' = [conn EXCEPT ![s] = "bound"]
          \/ conn' = [conn EXCEPT ![s] = "unregistered"]
          \/ conn' = [conn EXCEPT ![s] = "closed"]
      BY <1>7 DEF HandleNegotiate, Write, Unregister, StopWriter
    <2>3. frame[c] # None => conn[Owner(c)] # "negotiating"
      BY DEF Placed
    <2>4. frame[c] # None => \/ conn'[Owner(c)] = conn[Owner(c)]
                             \/ conn'[Owner(c)] \notin {"bound", "negotiating"}
      BY <1>2, <1>3, <2>2, <2>3
    <2>5. QED
      BY <1>4, <2>1, <2>4
  <1>8. CASE DrainRoute
    <2>1. /\ UNCHANGED <<conn, frame, future, work>> /\ pc' = pc
          /\ \/ ready' = ready
             \/ hand \in Entry /\ ready' = Append(ready, Posted(hand))
      BY <1>8, LineTypes, ProtocolFrame DEF DrainRoute, Later, Posted
    <2>2. QED
      BY <1>4, <2>1
  <1>9. CASE Produce \/ (\E e \in outbound : DrainPoll(e)) \/ \E s \in Sessions : CloseSession(s)
    <2>1. UNCHANGED <<conn, frame, future, work, ready>> /\ pc' = pc
      BY <1>9, ServerFrame DEF Produce, Progress, Publish, DrainPoll, Poll, CloseSession,
                               SocketDrop, SocketSweep, requestVars
    <2>2. QED
      BY <1>4, <2>1
  <1>10. CASE UNCHANGED vars /\ UNCHANGED serverVars
    BY <1>4, <1>10, ProtocolFrame, ServerFrame
  <1>11. CASE Around
    BY <1>7, <1>8, <1>11, PlacedReceive, PlacedClose, PlacedCallback DEF Around
  <1>12. QED
    BY <1>5, <1>6, <1>9, <1>10, <1>11, ServerStepCases

\* A request read from a connection that is still open is at every moment with the
\* executor, with a worker, on its way through the loop, or answered.  Callbacks take
\* dispatches back only for connections that are closed, and silence answers nothing but
\* notifications.
THEOREM RequestsKept == ServerSpec => []NoRequestLost
  <1> DEFINE AllPlaced == \A c \in Calls : Placed(c)
  <1>1. ServerInit => Silence /\ AllPlaced
    <2> SUFFICES ASSUME ServerInit PROVE Silence /\ AllPlaced
      OBVIOUS
    <2>1. \A c : Cancel(c) \notin Range(ready)
      BY DEF ServerInit, Range
    <2>2. Silence
      BY DEF ServerInit, Init, Silence
    <2>3. AllPlaced
      BY <2>1 DEF ServerInit, Placed
    <2>4. QED
      BY <2>2, <2>3
  <1>2. ServerSound /\ Silence /\ [ServerNext]_allVars => Silence'
    BY NextDone, SilenceStep DEF ServerSound, IInv
  <1>3. ServerSound /\ LineInv /\ Silence /\ AllPlaced /\ [ServerNext]_allVars => AllPlaced'
    BY PlacedStep
  <1>4. ServerSound /\ AllPlaced => NoRequestLost
    <2> SUFFICES ASSUME ServerSound, NEW c \in Calls, Placed(c), frame[c] # None,
                        frame[c].rid # None, conn[Owner(c)] = "bound"
                 PROVE  \/ c \in Range(work) \cup Busy
                        \/ \E run \in {"set", "done"} : [run |-> run, of |-> c] \in Range(ready)
                        \/ Reply(c) \in OnLine(Owner(c))
      BY DEF NoRequestLost, Reply, OnLine
    <2>1. CASE pc[c] \notin {"idle", "done"}
      BY <2>1 DEF Busy
    <2>2. CASE pc[c] = "idle"
      BY <2>2 DEF Placed
    <2>3. CASE pc[c] = "done"
      <3>1. ~IsNote(c)
        BY <2>3 DEF ServerSound, Framed, IsNote
      <3>2. QED
        BY <2>3, <3>1 DEF Placed, Marked, Set, Done
    <2>4. QED
      BY <2>1, <2>2, <2>3
  <1>5. QED
    BY <1>1, <1>2, <1>3, <1>4, ServerSoundInductive, LineInvInductive, PTL DEF ServerSpec

-----------------------------------------------------------------------------
(* No notification of an open connection is lost.                          *)

\* With the notification thread, on the loop, or with a connection (its own, by Sources).
InTransit(e) == (hand # None /\ hand = e) \/ Waiting(e) \/ Shown(e)

OpenFor(e) == conn[Session(e.origin)] = "bound"

KeptWhileOpen == \A e \in Entry : InTransit(e) /\ OpenFor(e) => InTransit(e)'

\* What is in transit comes from a call that was read, so its connection stays the same.
LEMMA NoticeSource ==
    ASSUME ServerSound, LineInv, [ServerNext]_allVars, NEW e \in Entry, InTransit(e)
    PROVE  Session(e.origin) \in Sessions /\ Session(e.origin)' = Session(e.origin)
  <1>1. e.origin \in Calls /\ TypeOK /\ Framed /\ [Next]_vars
    BY NextDone DEF Entry, ServerSound, IInv
  <1>2. pc[e.origin] # "idle"
    BY DEF InTransit, LineInv, Sources, Passed, Past
  <1>3. msg[e.origin] \in Message /\ msg'[e.origin] = msg[e.origin]
    BY <1>1, <1>2, PcFlow, DispatchAssumption DEF Framed
  <1>4. QED
    BY <1>3 DEF Session, Message

\* The notification thread lets go of an entry by passing it on.
LEMMA NoticeRouted ==
    ASSUME ServerSound, LineInv, [ServerNext]_allVars, NEW e \in Entry,
           hand # None, hand = e, OpenFor(e)
    PROVE  InTransit(e)'
  <1>1. CASE hand' = hand
    BY <1>1 DEF InTransit
  <1>2. CASE DrainRoute
    <2>1. ready' = Append(ready, Posted(e))
      BY <1>2 DEF DrainRoute, OpenFor, Filed, Later, Posted
    <2>2. Posted(e) \in Range(ready')
      BY <2>1, LineTypes, Members, AppendRange
    <2>3. QED
      BY <2>2 DEF InTransit, Waiting
  <1>3. CASE Around /\ ~DrainRoute
    BY <1>1, <1>3 DEF Around, HandleNegotiate, Write, Close, Unregister, StopWriter, Receive,
       RunCallback, CopyResult, OnDispatchDone, CancelDispatch, EnqueueOutbound
  <1>4. CASE \E f \in outbound : DrainPoll(f)
    BY <1>4 DEF DrainPoll
  <1>5. CASE \/ \E c \in Calls : Start(c) \/ Work(c)
             \/ Produce
             \/ \E s \in Sessions : CloseSession(s)
    BY <1>1, <1>5, ServerFrame DEF Start, Work, Produce, CloseSession
  <1>6. QED
    BY <1>1, <1>2, <1>3, <1>4, <1>5, ServerStepCases, ServerFrame

\* The loop takes an entry off its queue by handing it to the connection.
LEMMA NoticeEnqueued ==
    ASSUME ServerSound, LineInv, [ServerNext]_allVars, NEW e \in Entry, Waiting(e), OpenFor(e)
    PROVE  InTransit(e)'
  <1>1. ASSUME Posted(e) \in Range(ready') PROVE InTransit(e)'
    BY <1>1 DEF InTransit, Waiting
  <1>2. /\ Posted(e) \in Range(ready) /\ Posted(e) \in Callback
        /\ ready \in Seq(Callback) /\ Ordered(ready, CallbackOrder)
    BY LineTypes, Members DEF Waiting, LineInv, LineOrdered
  <1>3. ASSUME NEW a \in Callback PROVE Range(ready) \subseteq Range(Append(ready, a))
    BY <1>2, <1>3, AppendRange
  <1>4. CASE \/ ready' = ready
             \/ \E d \in Calls : ready' = Append(ready, Set(d))
             \/ hand \in Entry /\ ready' = Append(ready, Posted(hand))
    BY <1>1, <1>2, <1>3, <1>4, Members
  <1>5. CASE \E callbacks \in Seq(Callback) : ready' = ready \o callbacks
    BY <1>1, <1>2, <1>5, ConcatRange
  <1>6. CASE RunCallback
    <2>1. /\ ready # <<>> /\ Tail(ready) \in Seq(Callback) /\ Head(ready) \in Callback
          /\ Range(ready) = Range(Tail(ready)) \cup {Head(ready)}
      BY <1>2, <1>6, HeadTaken DEF RunCallback
    <2>2. CASE Head(ready) # Posted(e)
      <3>1. Posted(e) \in Range(Tail(ready))
        BY <1>2, <2>1, <2>2
      <3>2. ASSUME NEW d \in Calls PROVE Posted(e) \in Range(Append(Tail(ready), Done(d)))
        <4>1. Done(d) \in Callback /\ Tail(ready) \in Seq(Callback)
          BY <2>1, Members
        <4>2. \A q \in Seq(Callback), a \in Callback : Range(Append(q, a)) = Range(q) \cup {a}
          BY AppendRange
        <4>3. Range(Append(Tail(ready), Done(d))) = Range(Tail(ready)) \cup {Done(d)}
          BY <4>1, <4>2
        <4>4. QED
          BY <3>1, <4>3
      <3>3. ready' = Tail(ready) \/ \E d \in Calls : ready' = Append(Tail(ready), Done(d))
        BY <1>6, CallbackMoves
      <3>4. Posted(e) \in Range(ready')
        BY <3>1, <3>2, <3>3
      <3>5. QED
        BY <1>1, <3>4
    <2>3. CASE Head(ready) = Posted(e)
      <3>1. EnqueueOutbound
        BY <1>6, <2>3, Constructors
           DEF RunCallback, CopyResult, OnDispatchDone, CancelDispatch
      <3>2. Send(Session(e.origin), Note(e)) /\ wire' = wire
        BY <2>3, <3>1, Constructors DEF EnqueueOutbound, OpenFor, Note
      <3>3. Session(e.origin) \in Sessions
        BY NoticeSource DEF InTransit
      <3>4. PICK s \in Sessions : s = Session(e.origin)
        BY <3>3
      <3>5. out'[s] = Append(out[s], Note(e)) /\ out[s] \in Seq(Packet)
        BY <3>2, <3>4 DEF Send, ServerSound, ServerTypeInv, ServerTypeOK
      <3>6. Note(e) \in Range(out'[s])
        BY <3>5, Members, AppendRange
      <3>7. QED
        BY <3>6 DEF InTransit, Shown, OnLine
    <2>4. QED
      BY <2>2, <2>3
  <1>7. CASE DrainRoute
    <2>1. ready' = ready \/ (hand \in Entry /\ ready' = Append(ready, Posted(hand)))
      BY <1>7, LineTypes DEF DrainRoute, Later, Posted
    <2>2. QED
      BY <1>4, <2>1
  <1>8. ASSUME NEW s \in Sessions, Close(s) PROVE InTransit(e)'
    <2>1. PICK callbacks \in SetToSeqs(Cancellations(s)) : ready' = ready \o callbacks
      BY <1>8 DEF Close
    <2>2. callbacks \in Seq(Callback)
      BY CancellationsType DEF ServerSound
    <2>3. QED
      BY <1>5, <2>1, <2>2
  <1>9. ASSUME NEW s \in Sessions, StopWriter(s) \/ Write(s) \/ HandleNegotiate(s) \/ Unregister(s)
        PROVE  InTransit(e)'
    BY <1>4, <1>9 DEF StopWriter, Write, HandleNegotiate, Unregister
  <1>10. CASE Around
    BY <1>4, <1>6, <1>7, <1>8, <1>9, <1>10 DEF Around, Receive
  <1>11. ASSUME NEW c \in Calls, Start(c) \/ Work(c) PROVE InTransit(e)'
    BY <1>4, <1>11 DEF Start, Work, PostResult, Later, Set
  <1>12. CASE Produce \/ (\E f \in outbound : DrainPoll(f)) \/ \E s \in Sessions : CloseSession(s)
    BY <1>4, <1>12, ServerFrame DEF Produce, DrainPoll, CloseSession
  <1>13. QED
    BY <1>4, <1>10, <1>11, <1>12, ServerStepCases, ServerFrame

\* An entry taken from the outbound queue is not lost while its connection stays open: the
\* notification thread passes it to the loop, the loop to the connection, and there it is
\* sent or waits.  Only an end of the connection makes anyone drop it.  This is the safety
\* core of NoticesDelivered.
THEOREM NoticesKept == ServerSpec => [][KeptWhileOpen]_allVars
  <1>1. ServerSound /\ LineInv /\ [ServerNext]_allVars => KeptWhileOpen
    <2> SUFFICES ASSUME ServerSound, LineInv, [ServerNext]_allVars, NEW e \in Entry,
                        InTransit(e), OpenFor(e)
                 PROVE  InTransit(e)'
      BY DEF KeptWhileOpen
    <2>1. CASE Shown(e)
      BY <2>1, LineGrows DEF InTransit, Shown
    <2>2. QED
      BY <2>1, NoticeRouted, NoticeEnqueued DEF InTransit
  <1>2. QED
    BY <1>1, ServerSoundInductive, LineInvInductive, PTL DEF ServerSpec

=============================================================================
