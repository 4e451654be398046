---------------------------- MODULE ClientProofs ----------------------------
(***************************************************************************)
(* The client, proved for any number of calls, threads and topics: what    *)
(* waits on the loop fits the call it is for, a callback is listed before  *)
(* its events can come, and whoever waits has what wakes him on its way,   *)
(* however many threads close the client.                                  *)
(***************************************************************************)
EXTENDS Client, QueueLemmas, FiniteSetTheorems, FunctionTheorems

Cb(run, o) == [run |-> run, of |-> o]

Settled  == {"result", "error", "cancelled"}
Started  == {"waiting", "result", "error", "returned"}

\* No coroutine is started or woken twice.
Apart == {w \in Callback \X Callback : w[1].run \in {"start", "wake"} => w[1] # w[2]}

\* A callback finds its call where it was posted for.
Fits(r) ==
    /\ at[r.of] \notin {"idle", "closing", "posting"}
    /\ r.run = "start" => task[r.of] = "none"
    /\ r.run = "wake" => task[r.of] \in Settled
    /\ r.run = "remove" => at[r.of] = "ended" /\ Kind(r.of) = "unsubscribe"

QueueSound == Ordered(ready, Apart) /\ \A r \in Range(ready) : Fits(r)

\* Only close() comes to its stages; a subscription is kept by a coroutine that has
\* returned.
CallSound(o) ==
    /\ at[o] = "idle" => use[o] = None
    /\ at[o] \in {"idle", "closing", "posting"} => task[o] = "none"
    /\ at[o] \in {"closing", "tearing", "torn", "stopping"} => Kind(o) = "close"
    /\ task[o] = "connecting" => Kind(o) = "connect"
    /\ o \in subIds => task[o] = "returned"
    /\ o \in teardowns => at[o] \notin {"idle", "closing", "posting"}

CallsSound == \A o \in Ops : CallSound(o)

\* The server knows of a subscription only what a started coroutine sent, and that had
\* listed its callback.
SubSound(s) ==
    /\ Kind(s) = "subscribe" /\ use[s].callback /\ task[s] \in Started =>
          s \in subCbs \/ Unsubscribed(s)
    /\ s \in up => task[s] # "none"
    /\ s \in serverSubs => Kind(s) = "subscribe" /\ task[s] # "none"

SubsSound == \A s \in Ops : SubSound(s)

EventsSound ==
    \A p \in Range(down) : p.kind = "event" => Kind(p.of) = "subscribe" /\ task[p.of] # "none"

Finite ==
    /\ IsFiniteSet(pending) /\ IsFiniteSet(subCbs) /\ IsFiniteSet(serverSubs)
    /\ IsFiniteSet(teardowns)

ClientInv ==
    /\ ClientTypeOK /\ Finite
    /\ QueueSound /\ CallsSound /\ SubsSound /\ EventsSound

-----------------------------------------------------------------------------
(* A set as a sequence.                                                    *)

LEMMA FunctionSeq ==
    ASSUME NEW S, NEW n \in Nat, NEW f \in [1 .. n -> S]
    PROVE  f \in Seq(S) /\ Len(f) = n
  OBVIOUS

LEMMA SetToSeqType ==
    ASSUME NEW S, IsFiniteSet(S)
    PROVE  /\ Cardinality(S) \in Nat
           /\ SetToSeq(S) \in [1 .. Cardinality(S) -> S]
           /\ IsInjective(SetToSeq(S))
           /\ SetToSeq(S) \in Seq(S)
           /\ S # {} => SetToSeq(S) # <<>>
  <1>1. Cardinality(S) \in Nat /\ ExistsBijection(1 .. Cardinality(S), S)
    BY FS_CardinalityType
  <1>2. PICK f : f \in Bijection(1 .. Cardinality(S), S)
    BY <1>1 DEF ExistsBijection
  <1>3. f \in [1 .. Cardinality(S) -> S] /\ IsInjective(f)
    BY <1>2 DEF Bijection, Injection
  <1>4. SetToSeq(S) \in [1 .. Cardinality(S) -> S] /\ IsInjective(SetToSeq(S))
    BY <1>3 DEF SetToSeq
  <1>5. SetToSeq(S) \in Seq(S)
    BY <1>1, <1>4
  <1>6. ASSUME S # {} PROVE SetToSeq(S) # <<>>
    <2>1. Cardinality(S) # 0
      BY <1>6, FS_EmptySet
    <2>2. Len(SetToSeq(S)) = Cardinality(S)
      BY <1>1, <1>4
    <2>3. QED
      BY <2>1, <2>2
  <1>7. QED
    BY <1>1, <1>4, <1>5, <1>6

\* SetToSeq leaves nobody out.
LEMMA SetToSeqAll ==
    ASSUME NEW S, IsFiniteSet(S), NEW x \in S
    PROVE  Cardinality(S) \in Nat /\ \E i \in 1 .. Cardinality(S) : SetToSeq(S)[i] = x
  <1>1. /\ Cardinality(S) \in Nat
        /\ SetToSeq(S) \in [1 .. Cardinality(S) -> S] /\ IsInjective(SetToSeq(S))
    BY SetToSeqType
  <1>2. SetToSeq(S) \in Injection(1 .. Cardinality(S), S)
    BY <1>1 DEF Injection, IsInjective
  <1>3. Cardinality(1 .. Cardinality(S)) = Cardinality(S)
    BY <1>1, FS_Interval
  <1>4. SetToSeq(S) \in Surjection(1 .. Cardinality(S), S)
    BY <1>2, <1>3, FS_Injection
  <1>5. QED
    BY <1>1, <1>4 DEF Surjection

-----------------------------------------------------------------------------
(* The loop's queue.                                                       *)

LEMMA CbFacts ==
    /\ \A run \in {"start", "cancel", "wake", "copy", "remove",
                   "teardown", "reaped", "torn", "stop"}, o \in Ops : Cb(run, o) \in Callback
    /\ \A run, o : Cb(run, o).run = run /\ Cb(run, o).of = o
    /\ \A r \in Callback : r = Cb(r.run, r.of) /\ r.of \in Ops
    /\ \A q \in Seq(Callback) : \A r \in Range(q) : r \in Callback
  <1>1. \A q \in Seq(Callback) : \A r \in Range(q) : r \in Callback
    BY DEF Range
  <1>2. ASSUME NEW r \in Callback PROVE r = Cb(r.run, r.of) /\ r.of \in Ops
    BY DEF Cb, Callback
  <1>3. \A run, o : Cb(run, o).run = run /\ Cb(run, o).of = o
    BY DEF Cb
  <1>4. \A run \in {"start", "cancel", "wake", "copy", "remove",
                   "teardown", "reaped", "torn", "stop"}, o \in Ops : Cb(run, o) \in Callback
    BY DEF Cb, Callback
  <1>5. QED
    BY <1>1, <1>2, <1>3, <1>4

LEMMA ApartFacts ==
    ASSUME NEW x \in Callback, NEW y \in Callback
    PROVE  <<x, y>> \in Apart <=> (x.run \in {"start", "wake"} => x # y)
  BY DEF Apart

\* What a step takes from the queue it takes for good.
LEMMA Taken ==
    ASSUME ready \in Seq(Callback), Ordered(ready, Apart), NEW run, NEW o \in Ops, Turn(run, o)
    PROVE  /\ Cb(run, o) \in Range(ready) /\ Cb(run, o) \in Callback
           /\ Tail(ready) \in Seq(Callback) /\ Ordered(Tail(ready), Apart)
           /\ Range(Tail(ready)) \subseteq Range(ready)
           /\ run \in {"start", "wake"} => Cb(run, o) \notin Range(Tail(ready))
  <1>1. ready # <<>> /\ Head(ready) = Cb(run, o)
    BY DEF Turn, Cb
  <1>2. /\ Head(ready) \in Callback /\ Tail(ready) \in Seq(Callback)
        /\ Range(ready) = Range(Tail(ready)) \cup {Head(ready)}
    BY <1>1, HeadRange
  <1>3. Ordered(Tail(ready), Apart) /\ \A y \in Range(Tail(ready)) : <<Head(ready), y>> \in Apart
    BY <1>1, OrderedTail
  <1>4. Cb(run, o) \in Callback /\ Cb(run, o).run = run
    BY <1>1, <1>2, CbFacts
  <1>5. \A y \in Range(Tail(ready)) : y \in Callback
    BY <1>2 DEF Range
  <1>6. \A y \in Range(Tail(ready)) : <<Cb(run, o), y>> \in Apart
    BY <1>1, <1>3
  <1>7. ASSUME run \in {"start", "wake"} PROVE Cb(run, o) \notin Range(Tail(ready))
    BY <1>7, <1>4, <1>5, <1>6, ApartFacts
  <1>8. QED
    BY <1>1, <1>2, <1>3, <1>4, <1>7

LEMMA ThenNothing ==
    ASSUME ready \in Seq(Callback), NEW run, NEW o \in Ops, Turn(run, o), Then(<<>>, o)
    PROVE  ready' = Tail(ready)
  <1>1. ready # <<>> /\ Tail(ready) \in Seq(Callback)
    BY DEF Turn
  <1>2. DOMAIN <<>> = {}
    OBVIOUS
  <1>3. [i \in DOMAIN <<>> |-> [run |-> <<>>[i], of |-> o]] = <<>>
    BY <1>2
  <1>4. ready' = Tail(ready) \o <<>>
    BY <1>3 DEF Then
  <1>5. QED
    BY <1>1, <1>4

LEMMA ThenOne ==
    ASSUME ready \in Seq(Callback), NEW run, NEW o \in Ops, Turn(run, o),
           NEW next \in {"cancel", "wake", "copy", "reaped", "torn"}, Then(<<next>>, o)
    PROVE  ready' = Append(Tail(ready), Cb(next, o))
  <1>1. ready # <<>> /\ Tail(ready) \in Seq(Callback)
    BY DEF Turn
  <1>2. [i \in DOMAIN <<next>> |-> [run |-> <<next>>[i], of |-> o]] = <<Cb(next, o)>>
    BY DEF Cb
  <1>3. ready' = Tail(ready) \o <<Cb(next, o)>>
    BY <1>2 DEF Then
  <1>4. QED
    BY <1>1, <1>3, CbFacts

\* A callback joins the queue when it may come behind all that is there.
LEMMA Joins ==
    ASSUME NEW q \in Seq(Callback), Ordered(q, Apart), NEW x \in Callback,
           x.run \in {"start", "wake"} => x \notin Range(q)
    PROVE  /\ Append(q, x) \in Seq(Callback) /\ Ordered(Append(q, x), Apart)
           /\ Range(Append(q, x)) = Range(q) \cup {x}
  <1>1. ASSUME NEW y \in Range(q) PROVE <<y, x>> \in Apart
    <2>1. y \in Callback
      BY CbFacts
    <2>2. y.run \in {"start", "wake"} => y # x
      OBVIOUS
    <2>3. QED
      BY <2>1, <2>2, ApartFacts
  <1>2. QED
    BY <1>1, AppendRange, OrderedAppend

\* One callback for each call of a set.
LEMMA EachFacts ==
    ASSUME NEW run \in {"wake", "reaped"}, NEW S, S \subseteq Ops, IsFiniteSet(S)
    PROVE  /\ Each(run, S) \in Seq(Callback) /\ Ordered(Each(run, S), Apart)
           /\ \A r \in Range(Each(run, S)) : r.run = run /\ r.of \in S
           /\ \A o \in S : Cb(run, o) \in Range(Each(run, S))
  <1> DEFINE q == Each(run, S)
  <1>1. /\ Cardinality(S) \in Nat
        /\ SetToSeq(S) \in [1 .. Cardinality(S) -> S]
        /\ IsInjective(SetToSeq(S))
    BY SetToSeqType
  <1>2. /\ DOMAIN SetToSeq(S) = 1 .. Cardinality(S)
        /\ \A i \in 1 .. Cardinality(S) : SetToSeq(S)[i] \in S
        /\ \A i, j \in 1 .. Cardinality(S) : SetToSeq(S)[i] = SetToSeq(S)[j] => i = j
    BY <1>1 DEF IsInjective
  <1>3. \A i \in 1 .. Cardinality(S) : q[i] = Cb(run, SetToSeq(S)[i]) /\ q[i] \in Callback
    BY <1>2, CbFacts DEF Each, Cb
  <1>4. q \in [1 .. Cardinality(S) -> Callback] /\ DOMAIN q = 1 .. Cardinality(S)
    BY <1>3 DEF Each
  <1> HIDE DEF q
  <1>5. q \in Seq(Callback) /\ Len(q) = Cardinality(S)
    BY <1>1, <1>4, FunctionSeq
  <1>6. ASSUME NEW i \in 1 .. Len(q), NEW j \in 1 .. Len(q), i < j
        PROVE  <<q[i], q[j]>> \in Apart
    <2>1. i \in 1 .. Cardinality(S) /\ j \in 1 .. Cardinality(S) /\ i # j
      BY <1>1, <1>5, <1>6
    <2>2. SetToSeq(S)[i] # SetToSeq(S)[j]
      BY <1>2, <2>1
    <2>3. /\ q[i] \in Callback /\ q[j] \in Callback
          /\ q[i].of = SetToSeq(S)[i] /\ q[j].of = SetToSeq(S)[j]
      BY <1>3, <2>1, CbFacts
    <2>4. QED
      BY <2>2, <2>3, ApartFacts
  <1>7. Ordered(q, Apart)
    BY <1>6 DEF Ordered
  <1>8. \A r \in Range(q) : r.run = run /\ r.of \in S
    BY <1>2, <1>3, <1>4, CbFacts DEF Range
  <1>9. ASSUME NEW o \in S PROVE Cb(run, o) \in Range(q)
    <2>1. PICK i \in 1 .. Cardinality(S) : SetToSeq(S)[i] = o
      BY SetToSeqAll
    <2>2. q[i] = Cb(run, o)
      BY <1>3, <2>1
    <2>3. QED
      BY <1>4, <2>2 DEF Range
  <1>10. QED
    BY <1>5, <1>7, <1>8, <1>9 DEF q

\* Where nothing was posted or taken but calls and coroutines have moved on.
LEMMA FitsStill ==
    ASSUME ready \in Seq(Callback), QueueSound,
           Ordered(ready', Apart),
           \A r \in Range(ready') : r \in Range(ready) \/ Fits(r)',
           use' = use,
           \A r \in Range(ready) : r \in Range(ready') =>
              /\ at'[r.of] = at[r.of] \/ (at'[r.of] \notin {"idle", "closing", "posting"}
                                           /\ at[r.of] # "ended")
              /\ r.run = "start" => task'[r.of] = task[r.of]
              /\ r.run = "wake" => task'[r.of] \in Settled
    PROVE  QueueSound'
  <1>1. ASSUME NEW r \in Range(ready'), r \in Range(ready) PROVE Fits(r)'
    <2>1. Fits(r)
      BY <1>1 DEF QueueSound
    <2>2. QED
      BY <1>1, <2>1 DEF Fits, Kind
  <1>2. QED
    BY <1>1 DEF QueueSound

-----------------------------------------------------------------------------
(* What a step leaves sound.                                               *)

\* A coroutine that has started has.
Onward == \A p \in Ops : task[p] # "none" => task'[p] # "none"

LEMMA CallsStill ==
    ASSUME CallsSound, use' = use, at' = at,
           \A p \in Ops : task'[p] = task[p]
                \/ (at[p] \notin {"idle", "closing", "posting"} /\ task'[p] # "connecting"
                    /\ p \notin subIds)
                \/ (at[p] \notin {"idle", "closing", "posting"} /\ Kind(p) = "connect"
                    /\ p \notin subIds),
           \A p \in subIds' : p \in subIds \/ task'[p] = "returned",
           \A p \in teardowns' : p \in teardowns \/ at[p] \notin {"idle", "closing", "posting"}
    PROVE  CallsSound'
  <1>1. ASSUME NEW o \in Ops PROVE CallSound(o)'
    <2>1. CallSound(o)
      BY DEF CallsSound
    <2>2. Kind(o)' = Kind(o)
      BY DEF Kind
    <2>3. QED
      BY <2>1, <2>2 DEF CallSound
  <1>2. QED
    BY <1>1 DEF CallsSound

LEMMA UnsubscribedStill ==
    ASSUME use' = use, \A p \in Ops : at[p] = "ended" => at'[p] = "ended",
           NEW s, Unsubscribed(s)
    PROVE  Unsubscribed(s)'
  BY DEF Unsubscribed, Kind

LEMMA SubsStill ==
    ASSUME SubsSound, use' = use, \A p \in Ops : at[p] = "ended" => at'[p] = "ended",
           Onward,
           \A s \in up' : s \in up \/ task'[s] # "none",
           serverSubs' \subseteq serverSubs,
           \A s \in Ops : Kind(s) = "subscribe" /\ use[s].callback /\ task'[s] \in Started =>
                \/ s \in subCbs'
                \/ task[s] \in Started /\ (s \notin subCbs \/ Unsubscribed(s)')
    PROVE  SubsSound'
  <1>1. ASSUME NEW s \in Ops PROVE SubSound(s)'
    <2>1. SubSound(s)
      BY DEF SubsSound
    <2>2. Kind(s)' = Kind(s)
      BY DEF Kind
    <2>3. Unsubscribed(s) => Unsubscribed(s)'
      BY UnsubscribedStill
    <2>4. /\ (s \in up => task[s] # "none")'
          /\ (s \in serverSubs => Kind(s) = "subscribe" /\ task[s] # "none")'
      BY <2>1, <2>2 DEF SubSound, Onward
    <2>5. ASSUME Kind(s) = "subscribe", use[s].callback, task'[s] \in Started
          PROVE  s \in subCbs' \/ Unsubscribed(s)'
      BY <2>1, <2>3, <2>5 DEF SubSound
    <2>6. QED
      BY <2>2, <2>4, <2>5 DEF SubSound
  <1>2. QED
    BY <1>1 DEF SubsSound

LEMMA EventsStill ==
    ASSUME EventsSound, down \in Seq(Packet), use' = use, Onward,
           \A p \in Range(down') : p \in Range(down) \/ p.kind # "event"
    PROVE  EventsSound'
  <1>1. \A p \in Range(down) : p \in Packet
    BY DEF Range
  <1>2. \A p \in Packet : p.of \in Ops
    BY DEF Packet
  <1>3. QED
    BY <1>1, <1>2 DEF EventsSound, Onward, Kind

-----------------------------------------------------------------------------
(* The calling threads.                                                    *)

\* A thread moves on, with nothing posted or a callback for its call.
Moves(o, stage) ==
    /\ at' = [at EXCEPT ![o] = stage] /\ use' = use /\ closed' \in {closed, TRUE}
    /\ stage = "posting" => at[o] = "closing" /\ ready' = ready
    /\ \/ ready' = ready
       \/ \E run \in {"start", "cancel", "remove", "teardown", "stop"} :
            /\ ready' = Append(ready, Cb(run, o))
            /\ run = "start" => at[o] = "posting"
            /\ run = "remove" => stage = "ended" /\ Kind(o) = "unsubscribe"

LEMMA CallerMoves ==
    ASSUME ClientInv, NEW o \in Ops, NEW stage \in Stages \ {"idle", "closing"}, Moves(o, stage),
           at[o] \notin {"idle", "ended"},
           stage \in {"tearing", "torn", "stopping"} => Kind(o) = "close",
           UNCHANGED <<task, tableVars, readerVars, link, up, down, serverSubs>>
    PROVE  /\ at' \in [Ops -> Stages] /\ ready' \in Seq(Callback)
           /\ Finite' /\ QueueSound' /\ CallsSound' /\ SubsSound' /\ EventsSound'
  <1> USE DEF tableVars, readerVars
  <1>1. /\ at \in [Ops -> Stages] /\ ready \in Seq(Callback) /\ Ordered(ready, Apart)
        /\ down \in Seq(Packet)
        /\ QueueSound /\ CallsSound /\ SubsSound /\ EventsSound /\ Finite
    BY DEF ClientInv, ClientTypeOK, QueueSound
  <1>2. /\ at' \in [Ops -> Stages] /\ at'[o] = stage
        /\ \A p \in Ops : p # o => at'[p] = at[p]
    BY <1>1 DEF Moves
  <1>3. \A r \in Range(ready) : r \in Callback /\ r.of \in Ops /\ Fits(r)
    BY <1>1, CbFacts DEF QueueSound
  <1>4. ASSUME NEW run \in {"start", "cancel", "remove", "teardown", "stop"},
               ready' = Append(ready, Cb(run, o)), stage # "posting",
               run = "start" => at[o] = "posting",
               run = "remove" => stage = "ended" /\ Kind(o) = "unsubscribe"
        PROVE  /\ ready' \in Seq(Callback) /\ Ordered(ready', Apart)
               /\ Range(ready') = Range(ready) \cup {Cb(run, o)}
               /\ Fits(Cb(run, o))'
    <2>1. Cb(run, o) \in Callback /\ Cb(run, o).run = run /\ Cb(run, o).of = o
      BY CbFacts
    <2>2. CallSound(o)
      BY <1>1 DEF CallsSound
    <2>3. run = "start" => task[o] = "none" /\ Cb(run, o) \notin Range(ready)
      BY <1>3, <1>4, <2>1, <2>2 DEF CallSound, Fits
    <2>4. Fits(Cb(run, o))'
      BY <1>2, <1>4, <2>1, <2>3 DEF Fits, Moves, Kind
    <2>5. Cb(run, o).run \in {"start", "wake"} => Cb(run, o) \notin Range(ready)
      BY <2>1, <2>3
    <2>6. QED
      BY <1>1, <1>4, <2>1, <2>4, <2>5, Joins
  <1>5. /\ ready' \in Seq(Callback) /\ Ordered(ready', Apart)
        /\ \A r \in Range(ready') : r \in Range(ready) \/ Fits(r)'
    <2>1. CASE ready' = ready
      BY <1>1, <2>1
    <2>2. CASE ready' # ready
      <3>1. PICK run \in {"start", "cancel", "remove", "teardown", "stop"} :
                /\ ready' = Append(ready, Cb(run, o)) /\ stage # "posting"
                /\ run = "start" => at[o] = "posting"
                /\ run = "remove" => stage = "ended" /\ Kind(o) = "unsubscribe"
        BY <2>2 DEF Moves
      <3>2. QED
        BY <1>4, <3>1
    <2>3. QED
      BY <2>1, <2>2
  <1>6. QueueSound'
    <2>1. ASSUME NEW r \in Range(ready), r \in Range(ready')
          PROVE  /\ at'[r.of] = at[r.of] \/ (at'[r.of] \notin {"idle", "closing", "posting"}
                                           /\ at[r.of] # "ended")
                 /\ r.run = "start" => task'[r.of] = task[r.of]
                 /\ r.run = "wake" => task'[r.of] \in Settled
      BY <1>2, <1>3 DEF Fits, Moves
    <2>2. use' = use
      BY DEF Moves
    <2>3. QED
      BY <1>1, <1>5, <2>1, <2>2, FitsStill
  <1>7. CallsSound'
    <2>1. ASSUME NEW p \in Ops PROVE CallSound(p)'
      <3>1. CallSound(p) /\ CallSound(o)
        BY <1>1 DEF CallsSound
      <3>2. Kind(p)' = Kind(p)
        BY DEF Kind, Moves
      <3>3. QED
        BY <1>2, <3>1, <3>2 DEF CallSound, Moves
    <2>2. QED
      BY <2>1 DEF CallsSound
  <1>8. Onward /\ use' = use /\ \A p \in Ops : at[p] = "ended" => at'[p] = "ended"
    BY <1>2 DEF Onward, Moves
  <1>9. SubsSound'
    <2>1. ASSUME NEW s \in Ops, Kind(s) = "subscribe", use[s].callback, task'[s] \in Started
          PROVE  \/ s \in subCbs'
                 \/ task[s] \in Started /\ (s \notin subCbs \/ Unsubscribed(s)')
      BY <2>1
    <2>2. QED
      BY <1>1, <1>8, <2>1, SubsStill
  <1>10. EventsSound'
    BY <1>1, <1>8, EventsStill
  <1>11. Finite'
    BY <1>1 DEF Finite
  <1>12. QED
    BY <1>2, <1>5, <1>6, <1>7, <1>9, <1>10, <1>11

Outcomes == {None, "RESULT", "ERROR", "TIMEOUT", "RAW_TIMEOUT", "CLOSED"}

LEMMA EndMoves ==
    ASSUME outcome \in [Ops -> Outcomes], NEW o \in Ops, NEW result \in Outcomes, End(o, result)
    PROVE  Moves(o, "ended") /\ outcome' \in [Ops -> Outcomes]
  <1>1. at' = [at EXCEPT ![o] = "ended"] /\ use' = use /\ closed' = closed
    BY DEF End, GoTo
  <1>2. CASE Kind(o) = "unsubscribe" /\ loop # "closed"
    <2>1. ready' = Append(ready, Cb("remove", o)) /\ outcome' = [outcome EXCEPT ![o] = result]
      BY <1>2 DEF End, Post, Cb
    <2>2. QED
      BY <1>1, <1>2, <2>1 DEF Moves, Outcomes
  <1>3. CASE ~(Kind(o) = "unsubscribe" /\ loop # "closed")
    <2>1. ready' = ready
      BY <1>3 DEF End
    <2>2. outcome' = [outcome EXCEPT ![o] = "ERROR"] \/ outcome' = [outcome EXCEPT ![o] = result]
      BY <1>3 DEF End
    <2>3. outcome' \in [Ops -> Outcomes]
      BY <2>2 DEF Outcomes
    <2>4. QED
      BY <1>1, <2>1, <2>3 DEF Moves
  <1>4. QED
    BY <1>2, <1>3

\* A thread's step keeps the invariant when it moves on as Moves says.
LEMMA CallerKeeps ==
    ASSUME ClientInv, NEW o \in Ops, NEW stage \in Stages \ {"idle", "closing"}, Moves(o, stage),
           at[o] \notin {"idle", "ended"},
           stage \in {"tearing", "torn", "stopping"} => Kind(o) = "close",
           UNCHANGED <<task, tableVars, readerVars, backchannel, link, down, serverVars>>,
           outcome' \in [Ops -> Outcomes],
           cf' = cf \/ cf' = [cf EXCEPT ![o] = "pending"] \/ cf' = [cf EXCEPT ![o] = "cancelled"],
           loop' \in {"new", "running", "stopping", "stopped", "closed"}
    PROVE  ClientInv'
  <1>1. ClientTypeOK
    BY DEF ClientInv
  <1>2. /\ at' \in [Ops -> Stages] /\ ready' \in Seq(Callback)
        /\ Finite' /\ QueueSound' /\ CallsSound' /\ SubsSound' /\ EventsSound'
    BY CallerMoves DEF serverVars
  <1>3. cf' \in [Ops -> {"none", "pending", "result", "error", "cancelled"}]
    <2>1. cf \in [Ops -> {"none", "pending", "result", "error", "cancelled"}]
      BY <1>1 DEF ClientTypeOK
    <2>2. QED
      BY <2>1
  <1>4. ClientTypeOK'
    BY <1>1, <1>2, <1>3 DEF ClientTypeOK, Moves, Outcomes, tableVars, readerVars, serverVars
  <1>5. QED
    BY <1>2, <1>4 DEF ClientInv

\* close() goes on to its teardown, or ends on a loop that is closed.
LEMMA TearDownKeeps ==
    ASSUME ClientInv, NEW o \in Ops, TearDown(o), at[o] = "waiting", Kind(o) = "close",
           UNCHANGED <<cf, task, tableVars, loop, readerVars, backchannel, link, down, serverVars>>
    PROVE  ClientInv'
  <1>1. /\ outcome \in [Ops -> Outcomes]
        /\ loop \in {"new", "running", "stopping", "stopped", "closed"}
        /\ "ERROR" \in Outcomes
    BY DEF ClientInv, ClientTypeOK, Outcomes
  <1>2. {"ended", "tearing"} \subseteq Stages \ {"idle", "closing", "posting"}
    BY DEF Stages
  <1>3. CASE GoTo(o, "tearing") /\ Post("teardown", o) /\ UNCHANGED <<use, outcome, closed>>
    <2>1. Moves(o, "tearing")
      BY <1>3 DEF GoTo, Post, Moves, Cb
    <2>2. QED
      BY <1>1, <1>2, <1>3, <2>1, CallerKeeps
  <1>4. CASE End(o, "ERROR")
    <2>1. Moves(o, "ended") /\ outcome' \in [Ops -> Outcomes]
      BY <1>1, <1>4, EndMoves
    <2>2. QED
      BY <1>1, <1>2, <2>1, CallerKeeps
  <1>5. QED
    BY <1>3, <1>4 DEF TearDown

LEMMA CallerSafe ==
    ASSUME ClientInv, NEW o \in Ops, Caller(o)
    PROVE  ClientInv'
  <1>1. /\ ready \in Seq(Callback) /\ outcome \in [Ops -> Outcomes]
        /\ loop \in {"new", "running", "stopping", "stopped", "closed"}
        /\ CallSound(o)
        /\ {"RESULT", "ERROR", "TIMEOUT", "RAW_TIMEOUT", "CLOSED"} \subseteq Outcomes
    BY DEF ClientInv, ClientTypeOK, Outcomes, CallsSound
  <1>2. /\ {"waiting", "ended", "expired", "cancelling", "timedOut", "torn", "stopping"}
               \subseteq Stages \ {"idle", "closing", "posting"}
        /\ "posting" \in Stages \ {"idle", "closing"}
    BY DEF Stages
  <1>3. CASE Connect(o)
    <2>1. Moves(o, "waiting")
      BY <1>3 DEF Connect, GoTo, Post, Moves, Cb
    <2>2. QED
      BY <1>1, <1>2, <1>3, <2>1, CallerKeeps DEF Connect
  <1>4. CASE Submit(o)
    <2>1. CASE loop # "closed" /\ Post("start", o) /\ cf' = [cf EXCEPT ![o] = "pending"]
                   /\ GoTo(o, "waiting") /\ UNCHANGED <<use, outcome, closed>>
      <3>1. Moves(o, "waiting")
        BY <1>4, <2>1 DEF Submit, GoTo, Post, Moves, Cb
      <3>2. QED
        BY <1>1, <1>2, <1>4, <2>1, <3>1, CallerKeeps DEF Submit
    <2>2. CASE (End(o, "ERROR") \/ End(o, "CLOSED")) /\ UNCHANGED cf
      <3>1. Moves(o, "ended") /\ outcome' \in [Ops -> Outcomes]
        BY <1>1, <2>2, EndMoves
      <3>2. QED
        BY <1>1, <1>2, <1>4, <2>2, <3>1, CallerKeeps DEF Submit
    <2>3. QED
      BY <1>4, <2>1, <2>2 DEF Submit
  <1>5. CASE Return(o)
    <2>1. CASE Kind(o) = "close" /\ TearDown(o)
      BY <1>5, <2>1, TearDownKeeps DEF Return
    <2>2. CASE End(o, "RESULT") \/ End(o, "ERROR")
      <3>1. Moves(o, "ended") /\ outcome' \in [Ops -> Outcomes]
        BY <1>1, <2>2, EndMoves
      <3>2. QED
        BY <1>1, <1>2, <1>5, <2>2, <3>1, CallerKeeps DEF Return
    <2>3. QED
      BY <1>5, <2>1, <2>2 DEF Return
  <1>6. CASE Expire(o)
    <2>1. CASE Kind(o) = "close" /\ TearDown(o)
      BY <1>6, <2>1, TearDownKeeps DEF Expire
    <2>2. CASE End(o, "RAW_TIMEOUT")
      <3>1. Moves(o, "ended") /\ outcome' \in [Ops -> Outcomes]
        BY <1>1, <2>2, EndMoves
      <3>2. QED
        BY <1>1, <1>2, <1>6, <2>2, <3>1, CallerKeeps DEF Expire
    <2>3. CASE GoTo(o, "expired") /\ UNCHANGED <<use, outcome, closed, ready>>
      <3>1. Moves(o, "expired")
        BY <2>3 DEF GoTo, Moves
      <3>2. QED
        BY <1>1, <1>2, <1>6, <2>3, <3>1, CallerKeeps DEF Expire
    <2>4. QED
      BY <1>6, <2>1, <2>2, <2>3 DEF Expire
  <1>7. CASE Settle(o)
    <2>1. CASE End(o, "RAW_TIMEOUT")
      <3>1. Moves(o, "ended") /\ outcome' \in [Ops -> Outcomes]
        BY <1>1, <2>1, EndMoves
      <3>2. QED
        BY <1>1, <1>2, <1>7, <2>1, <3>1, CallerKeeps DEF Settle
    <2>2. CASE GoTo(o, "cancelling") /\ UNCHANGED <<use, outcome, closed, ready>>
      <3>1. Moves(o, "cancelling")
        BY <2>2 DEF GoTo, Moves
      <3>2. QED
        BY <1>1, <1>2, <1>7, <2>2, <3>1, CallerKeeps DEF Settle
    <2>3. QED
      BY <1>7, <2>1, <2>2 DEF Settle
  <1>8. CASE GiveUp(o)
    <2>1. ready' = ready \/ ready' = Append(ready, Cb("cancel", o))
      BY <1>8 DEF GiveUp, CancelFuture, Post, Cb
    <2>2. Moves(o, "timedOut")
      BY <1>8, <2>1 DEF GiveUp, GoTo, Moves
    <2>3. cf' = cf \/ cf' = [cf EXCEPT ![o] = "cancelled"]
      <3>1. cf \in [Ops -> {"none", "pending", "result", "error", "cancelled"}]
        BY DEF ClientInv, ClientTypeOK
      <3>2. QED
        BY <1>8, <3>1 DEF GiveUp, CancelFuture
    <2>4. QED
      BY <1>1, <1>2, <1>8, <2>2, <2>3, CallerKeeps DEF GiveUp
  <1>9. CASE RaiseTimeout(o)
    <2>1. Moves(o, "ended") /\ outcome' \in [Ops -> Outcomes]
      BY <1>1, <1>9, EndMoves DEF RaiseTimeout
    <2>2. QED
      BY <1>1, <1>2, <1>9, <2>1, CallerKeeps DEF RaiseTimeout
  <1>10. CASE StopLoop(o)
    <2>1. Kind(o) = "close"
      BY <1>1, <1>10 DEF StopLoop, CallSound
    <2>2. CASE GoTo(o, "stopping") /\ Post("stop", o) /\ UNCHANGED <<use, outcome, closed>>
      <3>1. Moves(o, "stopping")
        BY <2>2 DEF GoTo, Post, Moves, Cb
      <3>2. QED
        BY <1>1, <1>2, <1>10, <2>1, <2>2, <3>1, CallerKeeps DEF StopLoop
    <2>3. CASE End(o, "ERROR")
      <3>1. Moves(o, "ended") /\ outcome' \in [Ops -> Outcomes]
        BY <1>1, <2>3, EndMoves
      <3>2. QED
        BY <1>1, <1>2, <1>10, <3>1, CallerKeeps DEF StopLoop
    <2>4. QED
      BY <1>10, <2>2, <2>3 DEF StopLoop
  <1>11. CASE CloseLoop(o)
    <2>1. Moves(o, "ended") /\ outcome' \in [Ops -> Outcomes]
      BY <1>1, <1>11, EndMoves DEF CloseLoop
    <2>2. QED
      BY <1>1, <1>2, <1>11, <2>1, CallerKeeps DEF CloseLoop
  <1>12. CASE Shut(o)
    <2>1. Moves(o, "posting")
      BY <1>12 DEF Shut, GoTo, Moves, loopVars
    <2>2. QED
      BY <1>1, <1>2, <1>12, <2>1, CallerKeeps DEF Shut, loopVars
  <1>13. CASE Abandon(o)
    <2>1. Moves(o, "torn") /\ Kind(o) = "close"
      BY <1>1, <1>13 DEF Abandon, GoTo, Moves, loopVars, CallSound
    <2>2. QED
      BY <1>1, <1>2, <1>13, <2>1, CallerKeeps DEF Abandon, loopVars
  <1>14. QED
    BY <1>3, <1>4, <1>5, <1>6, <1>7, <1>8, <1>9, <1>10, <1>11, <1>12, <1>13 DEF Caller

LEMMA WantedUse ==
    ASSUME NEW o \in Ops, NEW u \in Wanted(o)
    PROVE  u \in Use /\ u # None
  <1>1. PICK f \in Usage : u = f[o]
    BY DEF Wanted
  <1>2. QED
    BY <1>1, ClientAssumption

\* A call begins: closed as the client may be, or to close it.
LEMMA BeginSafe ==
    ASSUME ClientInv, NEW o \in Ops, NEW u \in Wanted(o), Begin(o, u)
    PROVE  ClientInv'
  <1> USE DEF tableVars, loopVars, readerVars, serverVars
  <1>1. /\ ClientTypeOK /\ Finite /\ QueueSound /\ CallsSound /\ SubsSound
        /\ EventsSound
    BY DEF ClientInv
  <1>2. u \in Use /\ u # None /\ u.kind # "none"
    BY WantedUse DEF Use
  <1>3. /\ use \in [Ops -> Use \cup {None}] /\ at \in [Ops -> Stages] /\ closed \in BOOLEAN
        /\ outcome \in [Ops -> Outcomes] /\ ready \in Seq(Callback) /\ down \in Seq(Packet)
    BY <1>1 DEF ClientTypeOK, Outcomes
  <1>4. PICK stage \in {"ended", "closing", "posting"} :
            /\ at' = [at EXCEPT ![o] = stage] /\ at[o] = "idle" /\ closed' = closed
            /\ stage = "closing" => u.kind = "close"
    BY DEF Begin, GoTo
  <1>5. /\ use' = [use EXCEPT ![o] = u] /\ use[o] = None /\ task[o] = "none"
        /\ UNCHANGED <<task, ready, subIds, subCbs, link, reader, teardowns, up, down, serverSubs>>
    BY <1>1, <1>4 DEF Begin, CallsSound, CallSound
  <1>6. /\ \A p \in Ops : p # o => at'[p] = at[p] /\ use'[p] = use[p] /\ Kind(p)' = Kind(p)
        /\ at'[o] = stage /\ Kind(o)' = u.kind /\ Kind(o) = "none" /\ use'[o] = u
    BY <1>2, <1>3, <1>4, <1>5 DEF Kind
  <1>7. ClientTypeOK'
    <2>1. outcome' \in [Ops -> Outcomes]
      BY <1>3 DEF Begin, Outcomes
    <2>2. use' \in [Ops -> Use \cup {None}] /\ at' \in [Ops -> Stages] /\ closed' \in BOOLEAN
      BY <1>2, <1>3, <1>4, <1>5 DEF Stages
    <2>3. QED
      BY <1>1, <2>1, <2>2 DEF ClientTypeOK, Begin, Outcomes
  <1>8. Finite'
    BY <1>1 DEF Finite, Begin
  <1>9. QueueSound'
    <2>1. ASSUME NEW r \in Range(ready) PROVE Fits(r)'
      <3>1. Fits(r) /\ r \in Callback /\ r.of \in Ops
        BY <1>1, <1>3, CbFacts DEF QueueSound
      <3>2. r.of # o
        BY <1>4, <3>1 DEF Fits
      <3>3. QED
        BY <1>5, <1>6, <3>1, <3>2 DEF Fits
    <2>2. QED
      BY <1>1, <1>5, <2>1 DEF QueueSound
  <1>10. CallsSound'
    <2>1. ASSUME NEW p \in Ops PROVE CallSound(p)'
      <3>1. CallSound(p)
        BY <1>1 DEF CallsSound
      <3>2. CASE p = o
        BY <1>4, <1>5, <1>6, <3>1, <3>2 DEF CallSound
      <3>3. CASE p # o
        BY <1>4, <1>5, <1>6, <3>1, <3>3 DEF CallSound
      <3>4. QED
        BY <3>2, <3>3
    <2>2. QED
      BY <2>1 DEF CallsSound
  <1>11. SubsSound'
    <2>1. ASSUME NEW s \in Ops PROVE SubSound(s)'
      <3>1. SubSound(s)
        BY <1>1 DEF SubsSound
      <3>2. CASE s = o
        BY <1>5, <1>6, <3>1, <3>2 DEF SubSound, Started
      <3>3. CASE s # o
        <4>1. Unsubscribed(s) => Unsubscribed(s)'
          BY <1>4, <1>6 DEF Unsubscribed
        <4>2. QED
          BY <1>5, <1>6, <3>1, <3>3, <4>1 DEF SubSound
      <3>4. QED
        BY <3>2, <3>3
    <2>2. QED
      BY <2>1 DEF SubsSound
  <1>12. EventsSound'
    <2>1. \A p \in Range(down) : p.of \in Ops
      <3>1. \A p \in Range(down) : p \in Packet
        BY <1>3 DEF Range
      <3>2. QED
        BY <3>1 DEF Packet
    <2>2. QED
      BY <1>1, <1>5, <1>6, <2>1 DEF EventsSound
  <1>13. QED
    BY <1>7, <1>8, <1>9, <1>10, <1>11, <1>12 DEF ClientInv

-----------------------------------------------------------------------------
(* The loop's callbacks.                                                   *)

\* What a callback may do to its coroutine, and post behind itself.
Resumes(run, o, t) ==
    /\ task' = [task EXCEPT ![o] = t]
    /\ t # task[o] =>
         /\ t # "none"
         /\ run \in {"start", "wake"} \/ (task[o] \in Settled \cup {"waiting"} /\ t \in Settled)

Posts(run, o) ==
    \/ ready' = Tail(ready)
    \/ \E next \in {"cancel", "wake", "copy", "reaped", "torn"} :
         /\ ready' = Append(Tail(ready), Cb(next, o))
         /\ next = "wake" => task[o] = "waiting" /\ task'[o] \in Settled

LEMMA RunQueue ==
    ASSUME ClientInv, NEW run, NEW o \in Ops, Turn(run, o), NEW t \in TaskStates,
           use' = use, at' = at, Resumes(run, o, t), Posts(run, o)
    PROVE  /\ ready' \in Seq(Callback) /\ QueueSound'
           /\ task' \in [Ops -> TaskStates] /\ task'[o] = t
           /\ \A p \in Ops : p # o => task'[p] = task[p]
           /\ Onward
           /\ Fits(Cb(run, o)) /\ Cb(run, o) \in Range(ready)
  <1>1. /\ ready \in Seq(Callback) /\ Ordered(ready, Apart) /\ QueueSound
        /\ task \in [Ops -> TaskStates]
    BY DEF ClientInv, ClientTypeOK, QueueSound
  <1>2. /\ Cb(run, o) \in Range(ready) /\ Cb(run, o) \in Callback
        /\ Tail(ready) \in Seq(Callback) /\ Ordered(Tail(ready), Apart)
        /\ Range(Tail(ready)) \subseteq Range(ready)
        /\ run \in {"start", "wake"} => Cb(run, o) \notin Range(Tail(ready))
    BY <1>1, Taken
  <1>3. /\ task' \in [Ops -> TaskStates] /\ task'[o] = t
        /\ \A p \in Ops : p # o => task'[p] = task[p]
    BY <1>1 DEF Resumes
  <1>4. Onward
    BY <1>3 DEF Onward, Resumes
  <1>5. /\ \A r \in Range(ready) : Fits(r) /\ r \in Callback /\ r.of \in Ops /\ r = Cb(r.run, r.of)
        /\ Fits(Cb(run, o))
    <2>1. \A r \in Range(ready) : Fits(r) /\ r \in Callback
      BY <1>1, CbFacts DEF QueueSound
    <2>2. QED
      BY <1>2, <2>1, CbFacts
  <1>6. Cb(run, o).run = run /\ Cb(run, o).of = o
    BY CbFacts
  <1>7. ASSUME NEW next \in {"cancel", "wake", "copy", "reaped", "torn"},
               ready' = Append(Tail(ready), Cb(next, o)),
               next = "wake" => task[o] = "waiting" /\ task'[o] \in Settled
        PROVE  /\ ready' \in Seq(Callback) /\ Ordered(ready', Apart)
               /\ Range(ready') = Range(Tail(ready)) \cup {Cb(next, o)}
               /\ Fits(Cb(next, o))'
    <2>1. Cb(next, o) \in Callback /\ Cb(next, o).run = next /\ Cb(next, o).of = o
      BY CbFacts
    <2>2. next = "wake" => Cb(next, o) \notin Range(ready)
      BY <1>5, <1>7, <2>1 DEF Fits, Settled
    <2>3. Cb(next, o).run \in {"start", "wake"} => Cb(next, o) \notin Range(Tail(ready))
      BY <1>2, <2>1, <2>2
    <2>4. /\ Append(Tail(ready), Cb(next, o)) \in Seq(Callback)
          /\ Ordered(Append(Tail(ready), Cb(next, o)), Apart)
          /\ Range(Append(Tail(ready), Cb(next, o))) = Range(Tail(ready)) \cup {Cb(next, o)}
      <3>1. \A q \in Seq(Callback) :
               Ordered(q, Apart)
               /\ (Cb(next, o).run \in {"start", "wake"} => Cb(next, o) \notin Range(q))
               => /\ Append(q, Cb(next, o)) \in Seq(Callback)
                  /\ Ordered(Append(q, Cb(next, o)), Apart)
                  /\ Range(Append(q, Cb(next, o))) = Range(q) \cup {Cb(next, o)}
        BY <2>1, Joins
      <3>2. QED
        BY <1>2, <2>3, <3>1
    <2>5. Fits(Cb(next, o))'
      BY <1>5, <1>6, <1>7, <2>1 DEF Fits
    <2>6. QED
      BY <1>7, <2>4, <2>5
  <1>8. /\ ready' \in Seq(Callback) /\ Ordered(ready', Apart)
        /\ \A r \in Range(ready') :
              \/ r \in Range(Tail(ready))
              \/ /\ Fits(r)' /\ r.run # "start"
                 /\ r.run = "wake" => task[o] = "waiting" /\ task'[o] \in Settled
    <2>1. CASE ready' = Tail(ready)
      BY <1>2, <2>1
    <2>2. CASE ready' # Tail(ready)
      <3>1. PICK next \in {"cancel", "wake", "copy", "reaped", "torn"} :
                /\ ready' = Append(Tail(ready), Cb(next, o))
                /\ next = "wake" => task[o] = "waiting" /\ task'[o] \in Settled
        BY <2>2 DEF Posts
      <3>2. Cb(next, o).run = next
        BY CbFacts
      <3>3. QED
        BY <1>7, <3>1, <3>2
    <2>3. QED
      BY <2>1, <2>2
  <1>9. ASSUME NEW r \in Range(ready), r \in Range(ready')
        PROVE  /\ r.run = "start" => task'[r.of] = task[r.of]
               /\ r.run = "wake" => task'[r.of] \in Settled
    <2>1. CASE r.of # o
      BY <1>3, <1>5, <1>9, <2>1 DEF Fits
    <2>2. CASE r.of = o
      <3>1. r.run = "start" => r \in Range(Tail(ready)) /\ task[o] = "none"
        BY <1>5, <1>8, <1>9, <2>2 DEF Fits
      <3>2. r.run = "wake" => task[o] \in Settled /\ r \in Range(Tail(ready))
        BY <1>5, <1>8, <1>9, <2>2 DEF Fits, Settled
      <3>3. r.run = "start" => run # "start" /\ run # "wake"
        BY <1>2, <1>5, <1>6, <2>2, <3>1 DEF Fits, Settled
      <3>4. r.run = "wake" => run # "start" /\ run # "wake"
        BY <1>2, <1>5, <1>6, <2>2, <3>2 DEF Fits, Settled
      <3>5. QED
        BY <1>3, <2>2, <3>1, <3>2, <3>3, <3>4 DEF Resumes, Settled
    <2>3. QED
      BY <2>1, <2>2
  <1>10. QueueSound'
    BY <1>1, <1>2, <1>8, <1>9, FitsStill
  <1>11. QED
    BY <1>2, <1>3, <1>4, <1>5, <1>8, <1>10

LEMMA RunKeeps ==
    ASSUME ClientInv, NEW run, NEW o \in Ops, Turn(run, o), NEW t \in TaskStates,
           UNCHANGED <<use, at, closed, reader>>, Resumes(run, o, t), Posts(run, o),
           t = "connecting" => Kind(o) = "connect",
           \A s \in subIds' : s \in subIds \/ (s = o /\ t = "returned"),
           teardowns' \subseteq teardowns \cup {o},
           up' \subseteq up \cup {o}, o \in up' => o \in up \/ t # "none",
           serverSubs' \subseteq serverSubs,
           Range(down') \subseteq Range(down),
           \A s \in Ops : Kind(s) = "subscribe" /\ use[s].callback /\ task'[s] \in Started =>
                \/ s \in subCbs'
                \/ task[s] \in Started /\ (s \notin subCbs \/ Unsubscribed(s)')
    PROVE  /\ ready' \in Seq(Callback) /\ task' \in [Ops -> TaskStates]
           /\ QueueSound' /\ CallsSound' /\ SubsSound' /\ EventsSound'
  <1>1. /\ ready' \in Seq(Callback) /\ QueueSound'
        /\ task' \in [Ops -> TaskStates] /\ task'[o] = t
        /\ \A p \in Ops : p # o => task'[p] = task[p]
        /\ Onward
        /\ Fits(Cb(run, o)) /\ Cb(run, o) \in Range(ready)
    BY RunQueue
  <1>2. /\ Cb(run, o).run = run /\ Cb(run, o).of = o
        /\ CallsSound /\ SubsSound /\ EventsSound /\ down \in Seq(Packet)
        /\ CallSound(o)
    BY CbFacts DEF ClientInv, ClientTypeOK, CallsSound
  <1>3. at[o] \notin {"idle", "closing", "posting"} /\ (t # task[o] => o \notin subIds)
    BY <1>1, <1>2 DEF Fits, CallSound, Resumes, Settled
  <1>4. CallsSound'
    <2>1. \A p \in Ops : task'[p] = task[p]
                \/ (at[p] \notin {"idle", "closing", "posting"} /\ task'[p] # "connecting"
                    /\ p \notin subIds)
                \/ (at[p] \notin {"idle", "closing", "posting"} /\ Kind(p) = "connect"
                    /\ p \notin subIds)
      BY <1>1, <1>3
    <2>2. /\ \A p \in subIds' : p \in subIds \/ task'[p] = "returned"
          /\ \A p \in teardowns' : p \in teardowns \/ at[p] \notin {"idle", "closing", "posting"}
      BY <1>1, <1>3
    <2>3. QED
      BY <1>2, <2>1, <2>2, CallsStill
  <1>5. SubsSound'
    <2>1. \A s \in up' : s \in up \/ task'[s] # "none"
      BY <1>1
    <2>2. QED
      BY <1>1, <1>2, <2>1, SubsStill
  <1>6. EventsSound'
    BY <1>1, <1>2, EventsStill
  <1>7. QED
    BY <1>1, <1>4, <1>5, <1>6

\* A callback that leaves its coroutine alone.
LEMMA NotResumed ==
    ASSUME ClientInv, NEW run, NEW o \in Ops, task' = task
    PROVE  task[o] \in TaskStates /\ Resumes(run, o, task[o])
           /\ (task[o] = "connecting" => Kind(o) = "connect")
  BY DEF ClientInv, ClientTypeOK, Resumes, CallsSound, CallSound

LEMMA RunSafe ==
    ASSUME ClientInv, NEW o \in Ops, Run(o)
    PROVE  ClientInv'
  <1> USE DEF callerVars, tableVars, loopVars, readerVars, serverVars
  <1>1. /\ ClientTypeOK /\ Finite /\ ready \in Seq(Callback) /\ task \in [Ops -> TaskStates]
        /\ QueueSound /\ CallsSound /\ SubsSound /\ EventsSound
    BY DEF ClientInv, ClientTypeOK
  <1>2. {"waiting", "raised", "returned", "cancelled", "connecting"} \subseteq TaskStates
    BY DEF TaskStates
  <1>3. ASSUME NEW run, Turn(run, o)
        PROVE  Fits(Cb(run, o)) /\ Cb(run, o).run = run /\ Cb(run, o).of = o
    BY <1>1, <1>3, Taken, CbFacts DEF QueueSound
  <1>4. CASE RunStart(o)
    <2>1. Turn("start", o) /\ task[o] = "none" /\ Kind(o) # "connect" /\ o \notin pending
          /\ UNCHANGED <<use, at, closed, outcome, cf, subIds, loop, reader, teardowns, backchannel,
                         link, down, serverSubs, payloads>>
      <3>1. Turn("start", o)
        BY <1>4 DEF RunStart
      <3>2. task[o] = "none"
        BY <1>3, <3>1 DEF Fits
      <3>3. QED
        BY <1>1, <1>4, <3>1, <3>2 DEF RunStart, ClientTypeOK
    <2>2. CASE /\ task' = [task EXCEPT ![o] = "waiting"]
               /\ pending' = pending \cup {o}
               /\ progressCbs' = IF Kind(o) = "call" /\ use[o].callback THEN progressCbs \cup {o}
                                 ELSE progressCbs
               /\ subCbs' = Registered(o)
               /\ up' = IF link = "up" THEN up \cup {o} ELSE up
               /\ Then(IF cf[o] = "cancelled" THEN <<"cancel">> ELSE <<>>, o)
      <3>1. Posts("start", o)
        <4>1. CASE cf[o] = "cancelled"
          <5>1. ready' = Append(Tail(ready), Cb("cancel", o))
            BY <1>1, <2>1, <2>2, <4>1, ThenOne
          <5>2. QED
            BY <5>1 DEF Posts
        <4>2. CASE cf[o] # "cancelled"
          BY <1>1, <2>1, <2>2, <4>2, ThenNothing DEF Posts
        <4>3. QED
          BY <4>1, <4>2
      <3>2. Resumes("start", o, "waiting")
        BY <2>2 DEF Resumes
      <3>3. subCbs \subseteq subCbs' /\ subCbs' \subseteq subCbs \cup {o}
            /\ (Kind(o) = "subscribe" /\ use[o].callback => o \in subCbs')
        BY <2>2 DEF Registered
      <3>4. ASSUME NEW s \in Ops, Kind(s) = "subscribe", use[s].callback, task'[s] \in Started
            PROVE  \/ s \in subCbs'
                   \/ task[s] \in Started /\ (s \notin subCbs \/ Unsubscribed(s)')
        BY <1>1, <2>2, <3>3, <3>4
      <3>5. /\ ready' \in Seq(Callback) /\ task' \in [Ops -> TaskStates]
            /\ QueueSound' /\ CallsSound' /\ SubsSound' /\ EventsSound'
        BY <1>2, <2>1, <2>2, <3>1, <3>2, <3>4, RunKeeps
      <3>6. Finite'
        BY <1>1, <2>1, <2>2, FS_AddElement DEF Finite, Registered
      <3>7. \A p \in pending' : task'[p] \in {"waiting", "result", "error", "cancelled"}
        BY <1>1, <2>2 DEF ClientTypeOK
      <3>8. ClientTypeOK'
        BY <1>1, <2>1, <2>2, <3>3, <3>5, <3>7 DEF ClientTypeOK
      <3>9. QED
        BY <3>5, <3>6, <3>8 DEF ClientInv
    <2>3. CASE /\ task' = [task EXCEPT ![o] = "raised"]
               /\ Then(<<"copy">>, o)
               /\ UNCHANGED <<pending, progressCbs, subCbs, up>>
      <3>1. Posts("start", o)
        BY <1>1, <2>1, <2>3, ThenOne DEF Posts
      <3>2. Resumes("start", o, "raised")
        BY <2>3 DEF Resumes
      <3>3. ASSUME NEW s \in Ops, Kind(s) = "subscribe", use[s].callback, task'[s] \in Started
            PROVE  \/ s \in subCbs'
                   \/ task[s] \in Started /\ (s \notin subCbs \/ Unsubscribed(s)')
        <4>1. s # o /\ task[s] \in Started
          BY <1>1, <2>3, <3>3 DEF Started
        <4>2. QED
          BY <2>3, <4>1
      <3>4. /\ ready' \in Seq(Callback) /\ task' \in [Ops -> TaskStates]
            /\ QueueSound' /\ CallsSound' /\ SubsSound' /\ EventsSound'
        BY <1>2, <2>1, <2>3, <3>1, <3>2, <3>3, RunKeeps
      <3>5. Finite'
        BY <1>1, <2>1, <2>3 DEF Finite
      <3>6. \A p \in pending' : task'[p] \in {"waiting", "result", "error", "cancelled"}
        BY <1>1, <2>1, <2>3 DEF ClientTypeOK
      <3>7. ClientTypeOK'
        BY <1>1, <2>1, <2>3, <3>4, <3>6 DEF ClientTypeOK
      <3>8. QED
        BY <3>4, <3>5, <3>7 DEF ClientInv
    <2>4. QED
      BY <1>4, <2>2, <2>3 DEF RunStart
  <1>5. CASE RunConnect(o)
    <2>1. /\ Turn("start", o) /\ task[o] = "none" /\ Kind(o) = "connect"
          /\ task' = [task EXCEPT ![o] = "connecting"] /\ ready' = Tail(ready)
      <3>1. Turn("start", o)
        BY <1>5 DEF RunConnect
      <3>2. task[o] = "none"
        BY <1>3, <3>1 DEF Fits
      <3>3. ready' = Tail(ready)
        BY <1>1, <1>5, <3>1, ThenNothing DEF RunConnect
      <3>4. QED
        BY <1>5, <3>1, <3>2, <3>3 DEF RunConnect
    <2>2. Posts("start", o) /\ Resumes("start", o, "connecting")
      BY <2>1 DEF Posts, Resumes
    <2>3. ASSUME NEW s \in Ops, Kind(s) = "subscribe", use[s].callback, task'[s] \in Started
          PROVE  \/ s \in subCbs'
                 \/ task[s] \in Started /\ (s \notin subCbs \/ Unsubscribed(s)')
      <3>1. s # o /\ task[s] \in Started
        BY <1>1, <2>1, <2>3 DEF Started
      <3>2. QED
        BY <1>5, <3>1 DEF RunConnect
    <2>4. /\ ready' \in Seq(Callback) /\ task' \in [Ops -> TaskStates]
          /\ QueueSound' /\ CallsSound' /\ SubsSound' /\ EventsSound'
      BY <1>2, <1>5, <2>1, <2>2, <2>3, RunKeeps DEF RunConnect
    <2>5. Finite'
      BY <1>1, <1>5 DEF Finite, RunConnect
    <2>6. \A p \in pending' : task'[p] \in {"waiting", "result", "error", "cancelled"}
      BY <1>1, <1>5, <2>1 DEF ClientTypeOK, RunConnect
    <2>7. ClientTypeOK'
      BY <1>1, <1>5, <2>4, <2>6 DEF ClientTypeOK, RunConnect
    <2>8. QED
      BY <2>4, <2>5, <2>7 DEF ClientInv
  <1>6. CASE RunCancel(o)
    <2>1. PICK t \in TaskStates :
              /\ t = task[o] \/ (task[o] \in {"waiting", "result", "error"} /\ t = "cancelled")
              /\ task[o] = "waiting" => t = "cancelled"
              /\ task' = [task EXCEPT ![o] = t]
      <3>1. CASE task[o] \in {"waiting", "result", "error"}
        BY <1>2, <1>6, <3>1 DEF RunCancel
      <3>2. CASE task[o] \notin {"waiting", "result", "error"}
        BY <1>1, <1>6, <3>2 DEF RunCancel
      <3>3. QED
        BY <3>1, <3>2
    <2>2. Posts("cancel", o)
      <3>1. CASE task[o] = "waiting"
        <4>1. ready' = Append(Tail(ready), Cb("wake", o))
          BY <1>1, <1>6, <3>1, ThenOne DEF RunCancel
        <4>2. task'[o] \in Settled
          BY <1>1, <2>1, <3>1 DEF Settled
        <4>3. QED
          BY <3>1, <4>1, <4>2 DEF Posts
      <3>2. CASE task[o] # "waiting"
        BY <1>1, <1>6, <3>2, ThenNothing DEF RunCancel, Posts
      <3>3. QED
        BY <3>1, <3>2
    <2>3. Resumes("cancel", o, t)
      BY <2>1 DEF Resumes, Settled
    <2>4. t = "connecting" => Kind(o) = "connect"
      BY <1>1, <2>1 DEF CallsSound, CallSound
    <2>5. ASSUME NEW s \in Ops, Kind(s) = "subscribe", use[s].callback, task'[s] \in Started
          PROVE  \/ s \in subCbs'
                 \/ task[s] \in Started /\ (s \notin subCbs \/ Unsubscribed(s)')
      <3>1. task[s] \in Started
        BY <1>1, <2>1, <2>5 DEF Started
      <3>2. QED
        BY <1>6, <3>1 DEF RunCancel
    <2>6. /\ ready' \in Seq(Callback) /\ task' \in [Ops -> TaskStates]
          /\ QueueSound' /\ CallsSound' /\ SubsSound' /\ EventsSound'
      BY <1>6, <2>2, <2>3, <2>4, <2>5, RunKeeps DEF RunCancel
    <2>7. Finite'
      BY <1>1, <1>6 DEF Finite, RunCancel
    <2>8. \A p \in pending' : task'[p] \in {"waiting", "result", "error", "cancelled"}
      BY <1>1, <1>6, <2>1 DEF ClientTypeOK, RunCancel
    <2>9. ClientTypeOK'
      BY <1>1, <1>6, <2>6, <2>8 DEF ClientTypeOK, RunCancel
    <2>10. QED
      BY <2>6, <2>7, <2>9 DEF ClientInv
  <1>7. CASE RunWake(o)
    <2>1. /\ Turn("wake", o) /\ task[o] \in Settled
          /\ ready' = Append(Tail(ready), Cb("copy", o))
      <3>1. Turn("wake", o)
        BY <1>7 DEF RunWake
      <3>2. task[o] \in Settled
        BY <1>3, <3>1 DEF Fits
      <3>3. QED
        BY <1>1, <1>7, <3>1, <3>2, ThenOne DEF RunWake
    <2>2. PICK t \in {"returned", "raised"} :
              /\ t = IF task[o] = "result" THEN "returned" ELSE "raised"
              /\ task' = [task EXCEPT ![o] = t]
      BY <1>1, <1>7 DEF RunWake
    <2>3. \/ /\ subIds' = subIds \cup {o} /\ subCbs' = subCbs \cup {o} /\ t = "returned"
          \/ /\ subIds' = subIds /\ subCbs' = subCbs \ {o}
             /\ ~(Kind(o) = "subscribe" /\ t = "returned" /\ use[o].callback)
      BY <1>7, <2>2 DEF RunWake
    <2>4. Posts("wake", o) /\ Resumes("wake", o, t)
      BY <2>1, <2>2 DEF Posts, Resumes
    <2>5. ASSUME NEW s \in Ops, Kind(s) = "subscribe", use[s].callback, task'[s] \in Started
          PROVE  \/ s \in subCbs'
                 \/ task[s] \in Started /\ (s \notin subCbs \/ Unsubscribed(s)')
      <3>1. CASE s = o
        BY <1>1, <2>2, <2>3, <2>5, <3>1 DEF Started
      <3>2. CASE s # o
        BY <1>1, <2>2, <2>3, <2>5, <3>2
      <3>3. QED
        BY <3>1, <3>2
    <2>6. \A s \in subIds' : s \in subIds \/ (s = o /\ t = "returned")
      BY <2>3
    <2>7. /\ ready' \in Seq(Callback) /\ task' \in [Ops -> TaskStates]
          /\ QueueSound' /\ CallsSound' /\ SubsSound' /\ EventsSound'
      BY <1>2, <1>7, <2>1, <2>2, <2>4, <2>5, <2>6, RunKeeps DEF RunWake
    <2>8. Finite'
      BY <1>1, <1>7, <2>3, FS_AddElement, FS_RemoveElement DEF Finite, RunWake
    <2>9. \A p \in pending' : task'[p] \in {"waiting", "result", "error", "cancelled"}
      BY <1>1, <1>7, <2>2 DEF ClientTypeOK, RunWake
    <2>10. subCbs' \subseteq Ops /\ subIds' \subseteq subCbs'
      <3>1. o \notin subIds /\ subIds \subseteq subCbs /\ subCbs \subseteq Ops
        BY <1>1, <2>1 DEF CallsSound, CallSound, Settled, ClientTypeOK
      <3>2. QED
        BY <2>3, <3>1
    <2>11. ClientTypeOK'
      BY <1>1, <1>7, <2>7, <2>9, <2>10 DEF ClientTypeOK, RunWake
    <2>12. QED
      BY <2>7, <2>8, <2>11 DEF ClientInv
  <1>8. ASSUME NEW run, Turn(run, o), Posts(run, o), task' = task,
               UNCHANGED <<use, at, closed, reader, pending, progressCbs>>,
               subIds' \subseteq subIds, subCbs' \subseteq subCbs, subIds' \subseteq subCbs',
               \A s \in subCbs \ subCbs' : s \in Ops => Unsubscribed(s)',
               up' \subseteq up, serverSubs' \subseteq serverSubs,
               down' \in {down, <<>>},
               outcome' = outcome, backchannel' = backchannel, payloads' = payloads,
               cf' \in [Ops -> {"none", "pending", "result", "error", "cancelled"}],
               loop' \in {"new", "running", "stopping", "stopped", "closed"},
               link' \in {"none", "up", "lost", "closing", "closed"},
               teardowns' \in {teardowns, teardowns \cup {o}}
        PROVE  ClientInv'
    <2>1. task[o] \in TaskStates /\ Resumes(run, o, task[o])
          /\ (task[o] = "connecting" => Kind(o) = "connect")
      BY <1>8, NotResumed
    <2>2. Range(down') \subseteq Range(down) /\ down' \in Seq(Packet)
      <3>1. Range(<<>>) = {}
        BY DEF Range
      <3>2. down \in Seq(Packet) /\ <<>> \in Seq(Packet)
        BY <1>1 DEF ClientTypeOK
      <3>3. QED
        BY <1>8, <3>1, <3>2
    <2>3. ASSUME NEW s \in Ops, Kind(s) = "subscribe", use[s].callback, task'[s] \in Started
          PROVE  \/ s \in subCbs'
                 \/ task[s] \in Started /\ (s \notin subCbs \/ Unsubscribed(s)')
      BY <1>8, <2>3
    <2>4. /\ ready' \in Seq(Callback) /\ task' \in [Ops -> TaskStates]
          /\ QueueSound' /\ CallsSound' /\ SubsSound' /\ EventsSound'
      BY <1>8, <2>1, <2>2, <2>3, RunKeeps
    <2>5. Finite'
      BY <1>1, <1>8, FS_Subset, FS_AddElement DEF Finite
    <2>6. ClientTypeOK'
      BY <1>1, <1>8, <2>2, <2>4 DEF ClientTypeOK
    <2>7. QED
      BY <1>8, <2>4, <2>5, <2>6 DEF ClientInv
  <1>9. /\ cf \in [Ops -> {"none", "pending", "result", "error", "cancelled"}]
        /\ loop \in {"new", "running", "stopping", "stopped", "closed"}
        /\ link \in {"none", "up", "lost", "closing", "closed"} /\ subIds \subseteq subCbs
    BY <1>1 DEF ClientTypeOK
  <1>10. CASE RunCopy(o)
    <2>1. Posts("copy", o)
      BY <1>1, <1>10, ThenNothing DEF RunCopy, Posts
    <2>2. PICK c \in {"result", "error", "cancelled"} : cf' = [cf EXCEPT ![o] = c]
      <3>1. CASE cf[o] = "cancelled"
        BY <1>9, <1>10, <3>1 DEF RunCopy
      <3>2. CASE cf[o] # "cancelled" /\ task[o] = "returned"
        BY <1>9, <1>10, <3>2 DEF RunCopy
      <3>3. CASE cf[o] # "cancelled" /\ task[o] # "returned"
        BY <1>9, <1>10, <3>3 DEF RunCopy
      <3>4. QED
        BY <3>1, <3>2, <3>3
    <2>3. cf' \in [Ops -> {"none", "pending", "result", "error", "cancelled"}]
      BY <1>9, <2>2
    <2>4. QED
      BY <1>8, <1>9, <1>10, <2>1, <2>3 DEF RunCopy
  <1>11. CASE RunRemove(o)
    <2>1. Posts("remove", o) /\ Turn("remove", o)
      BY <1>1, <1>11, ThenNothing DEF RunRemove, Posts
    <2>2. at[o] = "ended" /\ Kind(o) = "unsubscribe"
      BY <1>3, <2>1 DEF Fits
    <2>3. Unsubscribed(use[o].with)'
      BY <1>11, <2>2 DEF Unsubscribed, RunRemove, Kind
    <2>4. /\ subIds' = subIds \ {use[o].with}
          /\ subCbs' = IF use[o].with \in subIds THEN subCbs \ {use[o].with} ELSE subCbs
      BY <1>11 DEF RunRemove, Unlisted
    <2>5. /\ subIds' \subseteq subIds /\ subCbs' \subseteq subCbs /\ subIds' \subseteq subCbs'
          /\ \A s \in subCbs \ subCbs' : s = use[o].with
      BY <1>9, <2>4
    <2>6. QED
      BY <1>8, <1>9, <1>11, <2>1, <2>3, <2>5 DEF RunRemove
  <1>12. CASE RunTeardown(o)
    <2>1. Posts("teardown", o)
      <3>1. CASE reader = "reading"
        BY <1>1, <1>12, <3>1, ThenNothing DEF RunTeardown, Posts
      <3>2. CASE reader # "reading"
        <4>1. ready' = Append(Tail(ready), Cb("reaped", o))
          BY <1>1, <1>12, <3>2, ThenOne DEF RunTeardown
        <4>2. QED
          BY <4>1 DEF Posts
      <3>3. QED
        BY <3>1, <3>2
    <2>2. /\ link' \in {"none", "up", "lost", "closing", "closed"}
          /\ teardowns' \in {teardowns, teardowns \cup {o}}
      BY <1>9, <1>12 DEF RunTeardown
    <2>3. QED
      BY <1>8, <1>9, <1>12, <2>1, <2>2 DEF RunTeardown
  <1>13. CASE RunReaped(o)
    <2>1. ready' = Append(Tail(ready), Cb("torn", o))
      BY <1>1, <1>13, ThenOne DEF RunReaped
    <2>2. Posts("reaped", o)
      BY <2>1 DEF Posts
    <2>3. QED
      BY <1>8, <1>9, <1>13, <2>2 DEF RunReaped
  <1>14. CASE RunStop(o)
    <2>1. Posts("stop", o)
      BY <1>1, <1>14, ThenNothing DEF RunStop, Posts
    <2>2. QED
      BY <1>8, <1>9, <1>14, <2>1 DEF RunStop
  <1>15. CASE RunTorn(o) /\ at[o] # "tearing"
    <2>1. Posts("torn", o) /\ UNCHANGED at
      BY <1>1, <1>15, ThenNothing DEF RunTorn, Posts
    <2>2. QED
      BY <1>8, <1>9, <1>15, <2>1 DEF RunTorn
  <1>16. CASE RunTorn(o) /\ at[o] = "tearing"
    <2>1. /\ Turn("torn", o) /\ ready' = Tail(ready) /\ at' = [at EXCEPT ![o] = "torn"]
          /\ UNCHANGED <<use, outcome, closed, cf, task, tableVars, loop, readerVars, backchannel,
                         link, down, serverVars>>
      BY <1>1, <1>16, ThenNothing DEF RunTorn, GoTo
    <2>2. /\ at' \in [Ops -> Stages] /\ Kind(o) = "close"
          /\ at'[o] = "torn" /\ \A p \in Ops : p # o => at'[p] = at[p]
      <3>1. at \in [Ops -> Stages] /\ CallSound(o)
        BY <1>1 DEF ClientTypeOK, CallsSound
      <3>2. QED
        BY <1>16, <2>1, <3>1 DEF Stages, CallSound
    <2>3. /\ ready' \in Seq(Callback) /\ Ordered(ready', Apart)
          /\ Range(ready') \subseteq Range(ready)
      BY <1>1, <2>1, Taken DEF QueueSound
    <2>4. QueueSound'
      <3>1. ASSUME NEW r \in Range(ready') PROVE Fits(r)'
        <4>1. Fits(r) /\ r.of \in Ops
          BY <1>1, <2>3, CbFacts DEF QueueSound
        <4>2. QED
          BY <1>16, <2>1, <2>2, <4>1 DEF Fits, Kind
      <3>2. QED
        BY <2>3, <3>1 DEF QueueSound
    <2>5. CallsSound'
      <3>1. \A q \in Ops : Kind(q)' = Kind(q)
        BY <2>1 DEF Kind
      <3>2. ASSUME NEW p \in Ops PROVE CallSound(p)'
        <4>1. CallSound(p)
          BY <1>1 DEF CallsSound
        <4>2. QED
          BY <1>16, <2>1, <2>2, <3>1, <4>1 DEF CallSound
      <3>3. QED
        BY <3>2 DEF CallsSound
    <2>6. Onward /\ use' = use /\ down \in Seq(Packet)
          /\ \A p \in Ops : at[p] = "ended" => at'[p] = "ended"
      BY <1>1, <1>16, <2>1, <2>2 DEF Onward, ClientTypeOK
    <2>7. SubsSound'
      <3>1. ASSUME NEW s \in Ops, Kind(s) = "subscribe", use[s].callback, task'[s] \in Started
            PROVE  \/ s \in subCbs'
                   \/ task[s] \in Started /\ (s \notin subCbs \/ Unsubscribed(s)')
        BY <2>1, <3>1
      <3>2. QED
        BY <1>1, <2>1, <2>6, <3>1, SubsStill
    <2>8. EventsSound'
      BY <1>1, <2>1, <2>6, EventsStill
    <2>9. ClientTypeOK' /\ Finite'
      BY <1>1, <2>1, <2>2, <2>3 DEF ClientTypeOK, Finite
    <2>10. QED
      BY <2>4, <2>5, <2>7, <2>8, <2>9 DEF ClientInv
  <1>17. QED
    BY <1>4, <1>5, <1>6, <1>7, <1>10, <1>11, <1>12, <1>13, <1>14, <1>15, <1>16 DEF Run

-----------------------------------------------------------------------------
(* The connection, the reader and the server.                              *)

LEMMA OrderedJoin ==
    ASSUME NEW S, NEW q \in Seq(S), NEW r \in Seq(S), NEW R, Ordered(q, R), Ordered(r, R),
           \A x \in Range(q), y \in Range(r) : <<x, y>> \in R
    PROVE  Ordered(q \o r, R)
  <1>1. /\ Len(q) \in Nat /\ Len(r) \in Nat /\ Len(q \o r) = Len(q) + Len(r)
        /\ DOMAIN q = 1 .. Len(q) /\ DOMAIN r = 1 .. Len(r)
        /\ \A i \in 1 .. Len(q) : (q \o r)[i] = q[i]
        /\ \A i \in 1 .. Len(r) : (q \o r)[Len(q) + i] = r[i]
    OBVIOUS
  <1>2. \A i \in 1 .. Len(q), j \in 1 .. Len(r) : <<q[i], r[j]>> \in R
    BY <1>1 DEF Range
  <1>3. SUFFICES ASSUME NEW i \in 1 .. Len(q) + Len(r), NEW j \in 1 .. Len(q) + Len(r), i < j
                 PROVE  <<(q \o r)[i], (q \o r)[j]>> \in R
    BY <1>1 DEF Ordered
  <1>4. CASE j <= Len(q)
    BY <1>1, <1>3, <1>4 DEF Ordered
  <1>5. CASE i <= Len(q) /\ j > Len(q)
    <2>1. j - Len(q) \in 1 .. Len(r) /\ (q \o r)[j] = r[j - Len(q)] /\ i \in 1 .. Len(q)
      BY <1>1, <1>5
    <2>2. QED
      BY <1>1, <1>2, <2>1
  <1>6. CASE i > Len(q)
    <2>1. /\ j - Len(q) \in 1 .. Len(r) /\ (q \o r)[j] = r[j - Len(q)]
          /\ i - Len(q) \in 1 .. Len(r) /\ (q \o r)[i] = r[i - Len(q)]
          /\ i - Len(q) < j - Len(q)
      BY <1>1, <1>3, <1>6
    <2>2. QED
      BY <2>1 DEF Ordered
  <1>7. j <= Len(q) \/ (i <= Len(q) /\ j > Len(q)) \/ i > Len(q)
    <2>1. i \in Nat /\ j \in Nat /\ Len(q) \in Nat
      BY <1>1
    <2>2. QED
      BY <2>1
  <1>8. QED
    BY <1>4, <1>5, <1>6, <1>7, Zenon

\* What is known of a call that has not been started, or waits.
LEMMA TaskFacts ==
    ASSUME ClientInv, NEW o \in Ops
    PROVE  /\ task[o] # "none" => at[o] \notin {"idle", "closing", "posting"}
           /\ o \in subIds => task[o] = "returned"
           /\ task[o] = "connecting" => Kind(o) = "connect"
           /\ \A r \in Range(ready) : /\ r \in Callback /\ r.of \in Ops /\ Fits(r)
                                      /\ r.run = "start" => task[r.of] = "none"
                                      /\ r.run = "wake" => task[r.of] \in Settled
  <1>1. CallSound(o) /\ ready \in Seq(Callback) /\ QueueSound
    BY DEF ClientInv, CallsSound, ClientTypeOK
  <1>2. \A r \in Range(ready) : r \in Callback /\ r.of \in Ops /\ Fits(r)
    BY <1>1, CbFacts DEF QueueSound
  <1>3. QED
    BY <1>1, <1>2 DEF CallSound, Fits

\* A step that leaves calls and coroutines where they are.
LEMMA OthersKeep ==
    ASSUME ClientInv, UNCHANGED <<use, at, outcome, closed, task, cf, pending, progressCbs, subCbs,
                                  subIds, ready>>,
           loop' \in {"new", "running", "stopping", "stopped", "closed"},
           backchannel' \in Seq([to : Ops \cup {None}, n : Nat]),
           reader' = reader, teardowns' = teardowns,
           link' \in {"none", "up", "lost", "closing", "closed"},
           up' \subseteq up, serverSubs' \subseteq Ops, IsFiniteSet(serverSubs'),
           \A s \in serverSubs' : s \in serverSubs \/ (Kind(s) = "subscribe" /\ task[s] # "none"),
           down' \in Seq(Packet),
           \A p \in Range(down') : \/ p \in Range(down) \/ p.kind # "event"
                                   \/ Kind(p.of) = "subscribe" /\ task[p.of] # "none",
           payloads' \in 0 .. MaxPayloads
    PROVE  ClientInv'
  <1>1. /\ ClientTypeOK /\ Finite /\ QueueSound /\ CallsSound /\ SubsSound
        /\ EventsSound
    BY DEF ClientInv
  <1>2. ClientTypeOK'
    BY <1>1 DEF ClientTypeOK
  <1>3. Finite'
    BY <1>1 DEF Finite
  <1>4. \A p \in Ops : Kind(p)' = Kind(p) /\ Unsubscribed(p)' = Unsubscribed(p)
    BY DEF Kind, Unsubscribed
  <1>5. QueueSound'
    BY <1>1 DEF QueueSound, Fits, Kind
  <1>6. CallsSound'
    BY <1>1, <1>4 DEF CallsSound, CallSound
  <1>7. SubsSound'
    BY <1>1, <1>4 DEF SubsSound, SubSound
  <1>8. EventsSound'
    <2>1. \A p \in Range(down') : Kind(p.of)' = Kind(p.of)
      BY DEF Kind
    <2>2. QED
      BY <1>1, <2>1 DEF EventsSound
  <1>9. QED
    BY <1>2, <1>3, <1>5, <1>6, <1>7, <1>8 DEF ClientInv

LEMMA SendType ==
    ASSUME down \in Seq(Packet), NEW kind \in {"result", "error", "progress"}, NEW o \in Ops,
           NEW n \in Nat, Send(kind, o, n)
    PROVE  /\ down' \in Seq(Packet)
           /\ \A p \in Range(down') : p \in Range(down) \/ p.kind # "event"
  <1>1. [kind |-> kind, of |-> o, n |-> n] \in Packet
    BY DEF Packet
  <1>2. QED
    BY <1>1, AppendRange DEF Send

LEMMA ServerSafe ==
    ASSUME ClientInv, NEW o \in Ops, Accept(o) \/ Answer(o) \/ EmitProgress(o)
    PROVE  ClientInv'
  <1> USE DEF callerVars, tableVars, loopVars, readerVars, serverVars
  <1>1. /\ ClientTypeOK /\ Finite /\ SubSound(o) /\ down \in Seq(Packet)
        /\ loop \in {"new", "running", "stopping", "stopped", "closed"}
        /\ backchannel \in Seq([to : Ops \cup {None}, n : Nat])
        /\ link \in {"none", "up", "lost", "closing", "closed"}
        /\ serverSubs \subseteq Ops /\ IsFiniteSet(serverSubs)
        /\ payloads \in 0 .. MaxPayloads /\ MaxPayloads \in Nat
    BY ClientAssumption DEF ClientInv, ClientTypeOK, Finite, SubsSound
  <1>2. CASE Accept(o)
    <2>1. task[o] # "none" /\ IsFiniteSet(serverSubs')
      BY <1>1, <1>2, FS_AddElement DEF Accept, SubSound
    <2>2. QED
      BY <1>1, <1>2, <2>1, OthersKeep DEF Accept
  <1>3. CASE Answer(o)
    <2>1. Send("error", o, 0) \/ Send("result", o, 0)
      BY <1>3 DEF Answer
    <2>2. /\ down' \in Seq(Packet)
          /\ \A p \in Range(down') : p \in Range(down) \/ p.kind # "event"
      BY <1>1, <2>1, SendType
    <2>3. serverSubs' \subseteq serverSubs
      <3>1. CASE Kind(o) = "unsubscribe"
        BY <1>3, <3>1 DEF Answer
      <3>2. CASE Kind(o) = "close"
        BY <1>3, <3>2 DEF Answer
      <3>3. CASE Kind(o) \notin {"unsubscribe", "close"}
        BY <1>3, <3>3 DEF Answer
      <3>4. QED
        BY <3>1, <3>2, <3>3
    <2>4. IsFiniteSet(serverSubs')
      BY <1>1, <2>3, FS_Subset
    <2>5. QED
      BY <1>1, <1>3, <2>2, <2>3, <2>4, OthersKeep DEF Answer
  <1>4. CASE EmitProgress(o)
    <2>1. /\ down' \in Seq(Packet)
          /\ \A p \in Range(down') : p \in Range(down) \/ p.kind # "event"
      BY <1>1, <1>4, SendType DEF EmitProgress
    <2>2. payloads' \in 0 .. MaxPayloads
      BY <1>1, <1>4 DEF EmitProgress
    <2>3. QED
      BY <1>1, <1>4, <2>1, <2>2, OthersKeep DEF EmitProgress
  <1>5. QED
    BY <1>2, <1>3, <1>4

LEMMA PublishSafe ==
    ASSUME ClientInv, NEW t \in Topics, Publish(t)
    PROVE  ClientInv'
  <1> USE DEF callerVars, tableVars, loopVars, readerVars, serverVars
  <1> DEFINE subs == {s \in serverSubs : use[s].with = t}
             to == SetToSeq(subs)
             sent == [i \in DOMAIN to |-> [kind |-> "event", of |-> to[i], n |-> payloads']]
  <1>1. /\ ClientTypeOK /\ Finite /\ SubsSound /\ down \in Seq(Packet)
        /\ loop \in {"new", "running", "stopping", "stopped", "closed"}
        /\ backchannel \in Seq([to : Ops \cup {None}, n : Nat])
        /\ link \in {"none", "up", "lost", "closing", "closed"}
        /\ serverSubs \subseteq Ops /\ IsFiniteSet(serverSubs)
        /\ payloads \in 0 .. MaxPayloads /\ MaxPayloads \in Nat
    BY ClientAssumption DEF ClientInv, ClientTypeOK, Finite
  <1>2. payloads' \in 0 .. MaxPayloads /\ payloads' \in Nat
    BY <1>1 DEF Publish
  <1>3. IsFiniteSet(subs)
    BY <1>1, FS_Subset
  <1>4. to \in Seq(subs)
    <2> HIDE DEF subs
    <2>1. QED
      BY <1>3, SetToSeqType
  <1>5. \A s \in subs : s \in Ops /\ Kind(s) = "subscribe" /\ task[s] # "none"
    BY <1>1 DEF SubsSound, SubSound
  <1>6. down' = down \o sent
    BY DEF Publish
  <1>7. /\ sent \in Seq(Packet)
        /\ \A p \in Range(sent) : Kind(p.of) = "subscribe" /\ task[p.of] # "none"
    <2> HIDE DEF subs, to
    <2>1. /\ Len(to) \in Nat /\ DOMAIN to = 1 .. Len(to)
          /\ \A i \in 1 .. Len(to) : to[i] \in subs
      BY <1>4
    <2>2. \A s \in subs : [kind |-> "event", of |-> s, n |-> payloads'] \in Packet
      BY <1>2, <1>5 DEF Packet
    <2>3. /\ DOMAIN sent = 1 .. Len(to)
          /\ \A i \in 1 .. Len(to) : sent[i] \in Packet /\ sent[i].of = to[i]
      BY <2>1, <2>2
    <2>4. sent \in [1 .. Len(to) -> Packet]
      BY <2>1, <2>2
    <2>5. sent \in Seq(Packet)
      <3> HIDE DEF sent
      <3>1. QED
        BY <2>1, <2>4
    <2>6. QED
      BY <1>5, <2>1, <2>3, <2>5 DEF Range
  <1>8. down' \in Seq(Packet) /\ Range(down') = Range(down) \cup Range(sent)
    <2> HIDE DEF sent
    <2>1. QED
      BY <1>1, <1>6, <1>7, ConcatRange
  <1>9. \A p \in Range(down') : \/ p \in Range(down) \/ p.kind # "event"
                                \/ Kind(p.of) = "subscribe" /\ task[p.of] # "none"
    BY <1>7, <1>8
  <1>10. QED
    BY <1>1, <1>2, <1>8, <1>9, OthersKeep DEF Publish

\* The loop halts, the backchannel runs a callback, the connection is lost or closes.
LEMMA EnvironmentSafe ==
    ASSUME ClientInv, Halt \/ Deliver \/ Drop \/ LinkCloses
    PROVE  ClientInv'
  <1> USE DEF callerVars, tableVars, loopVars, readerVars, serverVars
  <1>1. /\ ClientTypeOK /\ down \in Seq(Packet) /\ <<>> \in Seq(Packet)
        /\ loop \in {"new", "running", "stopping", "stopped", "closed"}
        /\ backchannel \in Seq([to : Ops \cup {None}, n : Nat])
        /\ link \in {"none", "up", "lost", "closing", "closed"}
        /\ serverSubs \subseteq Ops /\ IsFiniteSet(serverSubs)
        /\ payloads \in 0 .. MaxPayloads
    BY DEF ClientInv, ClientTypeOK, Finite
  <1>2. CASE Halt
    BY <1>1, <1>2, OthersKeep DEF Halt
  <1>3. CASE Deliver
    <2>1. backchannel' \in Seq([to : Ops \cup {None}, n : Nat])
      <3>1. \A q \in Seq([to : Ops \cup {None}, n : Nat]) :
               q # <<>> => Tail(q) \in Seq([to : Ops \cup {None}, n : Nat])
        BY HeadRange
      <3>2. QED
        BY <1>1, <1>3, <3>1 DEF Deliver
    <2>2. QED
      BY <1>1, <1>3, <2>1, OthersKeep DEF Deliver
  <1>4. CASE Drop
    <2>1. Range(<<>>) = {} /\ IsFiniteSet({})
      BY FS_EmptySet DEF Range
    <2>2. down' \in Seq(Packet) /\ Range(down') \subseteq Range(down)
      BY <1>1, <1>4, <2>1 DEF Drop
    <2>3. QED
      BY <1>1, <1>4, <2>1, <2>2, OthersKeep DEF Drop
  <1>5. CASE LinkCloses
    BY <1>1, <1>5, OthersKeep DEF LinkCloses
  <1>6. QED
    BY <1>2, <1>3, <1>4, <1>5

\* connect()'s coroutine goes on, or fails.
LEMMA ConnectSafe ==
    ASSUME ClientInv, NEW o \in Ops, Connected(o) \/ ConnectFails(o)
    PROVE  ClientInv'
  <1> USE DEF callerVars, tableVars, loopVars, readerVars, serverVars
  <1>1. /\ ClientTypeOK /\ Finite /\ QueueSound /\ CallsSound /\ SubsSound
        /\ EventsSound /\ down \in Seq(Packet) /\ ready \in Seq(Callback)
        /\ Ordered(ready, Apart) /\ task \in [Ops -> TaskStates]
    BY DEF ClientInv, ClientTypeOK, QueueSound
  <1>2. /\ task[o] = "connecting" /\ Kind(o) = "connect"
          /\ at[o] \notin {"idle", "closing", "posting"}
        /\ o \notin subIds /\ o \notin pending
        /\ UNCHANGED <<use, at, closed, outcome, cf, subIds, subCbs, progressCbs, serverSubs, down,
                       loop, teardowns, backchannel, payloads>>
    <2>1. task[o] = "connecting"
      BY DEF Connected, ConnectFails
    <2>2. QED
      BY <1>1, <2>1, TaskFacts DEF Connected, ConnectFails, ClientTypeOK
  <1>3. PICK t \in {"waiting", "raised"} : /\ task' = [task EXCEPT ![o] = t]
                                           /\ t = "waiting" <=> Connected(o)
    <2>1. CASE Connected(o)
      BY <2>1 DEF Connected
    <2>2. CASE ~Connected(o)
      BY <2>2 DEF ConnectFails
    <2>3. QED
      BY <2>1, <2>2
  <1>4. /\ task' \in [Ops -> TaskStates] /\ task'[o] = t
        /\ \A p \in Ops : p # o => task'[p] = task[p]
    BY <1>1, <1>3 DEF TaskStates
  <1>5. Onward
    BY <1>4 DEF Onward
  <1>6. CallsSound'
    BY <1>1, <1>2, <1>4, CallsStill
  <1>7. EventsSound'
    BY <1>1, <1>2, <1>5, EventsStill
  <1>8. ASSUME NEW s \in Ops, Kind(s) = "subscribe", use[s].callback, task'[s] \in Started
        PROVE  \/ s \in subCbs'
               \/ task[s] \in Started /\ (s \notin subCbs \/ Unsubscribed(s)')
    <2>1. s # o
      BY <1>2, <1>8
    <2>2. QED
      BY <1>2, <1>4, <1>8, <2>1
  <1>9. up' \subseteq up \cup {o}
    BY DEF Connected, ConnectFails
  <1>10. SubsSound'
    <2>1. \A s \in up' : s \in up \/ task'[s] # "none"
      BY <1>4, <1>9
    <2>2. QED
      BY <1>1, <1>2, <1>5, <1>8, <2>1, SubsStill
  <1>11. /\ ready' \in Seq(Callback) /\ Ordered(ready', Apart)
         /\ \A r \in Range(ready') : r \in Range(ready) \/ (r.run = "copy" /\ r.of = o)
    <2>1. CASE Connected(o)
      BY <1>1, <2>1 DEF Connected
    <2>2. CASE ConnectFails(o)
      <3>1. ready' = Append(ready, Cb("copy", o))
        BY <2>2 DEF ConnectFails, Post, Cb
      <3>2. Cb("copy", o) \in Callback /\ Cb("copy", o).run = "copy" /\ Cb("copy", o).of = o
        BY CbFacts
      <3>3. QED
        BY <1>1, <3>1, <3>2, Joins
    <2>3. QED
      BY <2>1, <2>2
  <1>12. QueueSound'
    <2>1. ASSUME NEW r \in Range(ready'), r \notin Range(ready) PROVE Fits(r)'
      BY <1>2, <1>11, <2>1 DEF Fits
    <2>2. ASSUME NEW r \in Range(ready), r \in Range(ready')
          PROVE  /\ at'[r.of] = at[r.of]
                 /\ r.run = "start" => task'[r.of] = task[r.of]
                 /\ r.run = "wake" => task'[r.of] \in Settled
      BY <1>2, <1>4, TaskFacts DEF Settled
    <2>3. QED
      BY <1>1, <1>2, <1>11, <2>1, <2>2, FitsStill
  <1>13. /\ pending' \subseteq pending \cup {o} /\ (o \in pending' => Connected(o))
         /\ IsFiniteSet(pending')
    <2>1. CASE Connected(o)
      BY <1>1, <2>1, FS_AddElement DEF Connected, Finite
    <2>2. CASE ConnectFails(o) /\ ~Connected(o)
      BY <1>1, <1>2, <2>2 DEF ConnectFails, Finite
    <2>3. QED
      BY <2>1, <2>2
  <1>14. Finite'
    BY <1>1, <1>2, <1>13 DEF Finite, Connected, ConnectFails
  <1>15. ClientTypeOK'
    <2>1. \A p \in pending' : task'[p] \in {"waiting", "result", "error", "cancelled"}
      BY <1>1, <1>3, <1>4, <1>13 DEF ClientTypeOK
    <2>2. reader' \in {"none", "reading", "ended"}
            /\ link' \in {"none", "up", "lost", "closing", "closed"}
      BY <1>1 DEF ClientTypeOK, Connected, ConnectFails
    <2>3. teardowns' = teardowns
      BY DEF Connected, ConnectFails
    <2>4. QED
      BY <1>1, <1>2, <1>4, <1>9, <1>11, <1>13, <2>1, <2>2, <2>3 DEF ClientTypeOK
  <1>16. QED
    BY <1>6, <1>7, <1>10, <1>12, <1>14, <1>15 DEF ClientInv

LEMMA ReadSafe ==
    ASSUME ClientInv, Read
    PROVE  ClientInv'
  <1> USE DEF callerVars, tableVars, loopVars, readerVars, serverVars
  <1> DEFINE p == Head(down)
  <1>1. /\ ClientTypeOK /\ Finite /\ QueueSound /\ CallsSound /\ SubsSound
        /\ EventsSound /\ down \in Seq(Packet) /\ ready \in Seq(Callback)
        /\ Ordered(ready, Apart) /\ task \in [Ops -> TaskStates]
        /\ backchannel \in Seq([to : Ops \cup {None}, n : Nat])
    BY DEF ClientInv, ClientTypeOK, QueueSound
  <1>2. /\ p \in Packet /\ down' \in Seq(Packet) /\ Range(down') \subseteq Range(down)
        /\ UNCHANGED <<use, at, closed, outcome, cf, pending, progressCbs, subCbs, subIds, loop,
                       reader, teardowns, link, up, serverSubs, payloads>>
    <2>1. down # <<>> /\ down' = Tail(down)
      BY DEF Read
    <2>2. \A q \in Seq(Packet) : q # <<>> =>
             Head(q) \in Packet /\ Tail(q) \in Seq(Packet) /\ Range(Tail(q)) \subseteq Range(q)
      BY HeadRange
    <2>3. QED
      BY <1>1, <2>1, <2>2 DEF Read
  <1>3. p.of \in Ops /\ p.n \in Nat
    BY <1>2 DEF Packet
  <1> HIDE DEF p
  <1>4. CASE ReadNotification(p)
    <2> DEFINE heard == Listeners(p)
               to == IF heard = {} THEN <<None>> ELSE SetToSeq(heard)
               posted == [i \in DOMAIN to |-> [to |-> to[i], n |-> p.n]]
    <2>1. heard \subseteq Ops /\ IsFiniteSet(heard)
      <3>1. CASE p.kind = "progress"
        <4>1. heard = progressCbs \cap {p.of}
          BY <3>1 DEF Listeners
        <4>2. IsFiniteSet({p.of})
          BY FS_Singleton
        <4>3. heard \subseteq {p.of}
          BY <4>1
        <4>4. QED
          BY <1>3, <4>2, <4>3, FS_Subset
      <3>2. CASE p.kind # "progress"
        <4>1. heard = {s \in subCbs : use[s].with = use[p.of].with}
          BY <3>2 DEF Listeners
        <4>2. heard \subseteq subCbs
          BY <4>1
        <4>3. QED
          BY <1>1, <4>2, FS_Subset DEF Finite, ClientTypeOK
      <3>3. QED
        BY <3>1, <3>2
    <2>2. to \in Seq(Ops \cup {None})
      <3> HIDE DEF heard
      <3>1. SetToSeq(heard) \in Seq(heard)
        BY <2>1, SetToSeqType
      <3>2. SetToSeq(heard) \in Seq(Ops \cup {None})
        BY <2>1, <3>1, SeqGrows
      <3>3. <<None>> \in Seq(Ops \cup {None})
        OBVIOUS
      <3>4. to = <<None>> \/ to = SetToSeq(heard)
        OBVIOUS
      <3> HIDE DEF to
      <3>5. QED
        BY <3>2, <3>3, <3>4
    <2>3. posted \in Seq([to : Ops \cup {None}, n : Nat])
      <3> HIDE DEF to
      <3>1. /\ Len(to) \in Nat /\ DOMAIN to = 1 .. Len(to)
            /\ \A i \in 1 .. Len(to) : to[i] \in Ops \cup {None}
        BY <2>2
      <3>2. posted \in [1 .. Len(to) -> [to : Ops \cup {None}, n : Nat]]
        BY <1>3, <3>1
      <3> HIDE DEF posted
      <3>3. QED
        BY <3>1, <3>2, FunctionSeq
    <2>4. backchannel' = backchannel \o posted /\ UNCHANGED <<task, ready>>
      BY <1>4 DEF ReadNotification
    <2>5. backchannel' \in Seq([to : Ops \cup {None}, n : Nat])
      <3> HIDE DEF posted
      <3>1. QED
        BY <1>1, <2>3, <2>4, ConcatRange
    <2>6. /\ loop \in {"new", "running", "stopping", "stopped", "closed"}
          /\ link \in {"none", "up", "lost", "closing", "closed"}
          /\ serverSubs \subseteq Ops /\ IsFiniteSet(serverSubs)
          /\ payloads \in 0 .. MaxPayloads
      BY <1>1 DEF ClientTypeOK, Finite
    <2>7. QED
      BY <1>2, <2>4, <2>5, <2>6, OthersKeep
  <1>5. CASE ReadAnswer(p)
    <2>1. \/ task' = task /\ ready' = ready
          \/ /\ p.kind \in {"result", "error"} /\ task[p.of] = "waiting"
             /\ task' = [task EXCEPT ![p.of] = p.kind] /\ ready' = Append(ready, Cb("wake", p.of))
      BY <1>5 DEF ReadAnswer, Post, Cb
    <2>2. PICK t \in TaskStates : /\ task' = [task EXCEPT ![p.of] = t]
                                  /\ \/ t = task[p.of] /\ ready' = ready
                                     \/ /\ t \in {"result", "error"} /\ task[p.of] = "waiting"
                                        /\ ready' = Append(ready, Cb("wake", p.of))
      <3>1. CASE task' = task /\ ready' = ready
        <4>1. task' = [task EXCEPT ![p.of] = task[p.of]] /\ task[p.of] \in TaskStates
          BY <1>1, <1>3, <3>1
        <4>2. QED
          BY <3>1, <4>1
      <3>2. CASE /\ p.kind \in {"result", "error"} /\ task[p.of] = "waiting"
                 /\ task' = [task EXCEPT ![p.of] = p.kind]
                 /\ ready' = Append(ready, Cb("wake", p.of))
        BY <3>2 DEF TaskStates
      <3>3. QED
        BY <2>1, <3>1, <3>2
    <2>3. /\ task' \in [Ops -> TaskStates] /\ task'[p.of] = t
          /\ \A o \in Ops : o # p.of => task'[o] = task[o]
      BY <1>1, <1>3, <2>2
    <2>4. Onward
      BY <2>2, <2>3 DEF Onward
    <2>5. t # task[p.of] => /\ t \in {"result", "error"} /\ task[p.of] = "waiting"
                            /\ at[p.of] \notin {"idle", "closing", "posting"} /\ p.of \notin subIds
      BY <1>3, <2>2, TaskFacts
    <2>6. CallsSound'
      BY <1>1, <1>2, <2>3, <2>5, CallsStill
    <2>7. EventsSound'
      BY <1>1, <1>2, <2>4, EventsStill
    <2>8. SubsSound'
      <3>1. ASSUME NEW s \in Ops, Kind(s) = "subscribe", use[s].callback, task'[s] \in Started
            PROVE  \/ s \in subCbs'
                   \/ task[s] \in Started /\ (s \notin subCbs \/ Unsubscribed(s)')
        BY <1>2, <2>3, <2>5, <3>1 DEF Started
      <3>2. QED
        BY <1>1, <1>2, <2>4, <3>1, SubsStill
    <2>9. /\ ready' \in Seq(Callback) /\ Ordered(ready', Apart)
          /\ \A r \in Range(ready') : r \in Range(ready)
                \/ (r.run = "wake" /\ r.of = p.of /\ task[p.of] = "waiting" /\ t \in Settled)
      <3>1. CASE ready' = ready
        BY <1>1, <3>1
      <3>2. CASE /\ t \in {"result", "error"} /\ task[p.of] = "waiting"
                 /\ ready' = Append(ready, Cb("wake", p.of))
        <4>1. Cb("wake", p.of) \in Callback /\ Cb("wake", p.of).run = "wake"
              /\ Cb("wake", p.of).of = p.of
          BY <1>3, CbFacts
        <4>2. Cb("wake", p.of) \notin Range(ready)
          BY <1>3, <3>2, <4>1, TaskFacts DEF Settled
        <4>3. QED
          BY <1>1, <3>2, <4>1, <4>2, Joins DEF Settled
      <3>3. QED
        BY <2>2, <3>1, <3>2
    <2>10. QueueSound'
      <3>1. ASSUME NEW r \in Range(ready'), r \notin Range(ready) PROVE Fits(r)'
        <4>1. at[p.of] \notin {"idle", "closing", "posting"}
          BY <1>3, <2>9, <3>1, TaskFacts
        <4>2. QED
          BY <1>2, <2>3, <2>9, <3>1, <4>1 DEF Fits
      <3>2. ASSUME NEW r \in Range(ready), r \in Range(ready')
            PROVE  /\ at'[r.of] = at[r.of]
                   /\ r.run = "start" => task'[r.of] = task[r.of]
                   /\ r.run = "wake" => task'[r.of] \in Settled
        BY <1>2, <1>3, <2>3, <2>5, TaskFacts DEF Settled
      <3>3. QED
        BY <1>1, <1>2, <2>9, <3>1, <3>2, FitsStill
    <2>11. ClientTypeOK'
      <3>1. backchannel' = backchannel
        BY <1>5 DEF ReadAnswer
      <3>2. \A o \in pending' : task'[o] \in {"waiting", "result", "error", "cancelled"}
        BY <1>1, <1>2, <2>3, <2>5 DEF ClientTypeOK
      <3>3. QED
        BY <1>1, <1>2, <2>3, <2>9, <3>1, <3>2 DEF ClientTypeOK
    <2>12. Finite'
      BY <1>1, <1>2 DEF Finite
    <2>13. QED
      BY <2>6, <2>7, <2>8, <2>10, <2>11, <2>12 DEF ClientInv
  <1>6. QED
    BY <1>4, <1>5 DEF Read, p

LEMMA ReadEndSafe ==
    ASSUME ClientInv, ReadEnd
    PROVE  ClientInv'
  <1> USE DEF callerVars, tableVars, loopVars, readerVars, serverVars
  <1> DEFINE left == {o \in pending : task[o] = "waiting"}
             woken == Each("wake", left)
             after == Each("reaped", teardowns)
  <1>1. /\ ClientTypeOK /\ Finite /\ QueueSound /\ CallsSound /\ SubsSound
        /\ EventsSound /\ down \in Seq(Packet) /\ ready \in Seq(Callback)
        /\ Ordered(ready, Apart) /\ task \in [Ops -> TaskStates] /\ pending \subseteq Ops
        /\ teardowns \subseteq Ops /\ IsFiniteSet(teardowns)
    BY DEF ClientInv, ClientTypeOK, QueueSound, Finite
  <1>2. /\ task' = [o \in Ops |-> IF o \in left THEN "error" ELSE task[o]]
        /\ pending' = {} /\ ready' = ready \o woken \o after
        /\ reader' = "ended" /\ teardowns' = {} /\ down' = <<>>
        /\ UNCHANGED <<use, at, closed, outcome, cf, progressCbs, subCbs, subIds, loop, backchannel,
                       link, up, serverSubs, payloads>>
    BY DEF ReadEnd, FailPending
  <1>3. left \subseteq Ops /\ IsFiniteSet(left) /\ \A o \in left : task[o] = "waiting"
    BY <1>1, FS_Subset DEF Finite
  <1> HIDE DEF left
  <1>4. /\ woken \in Seq(Callback) /\ Ordered(woken, Apart)
        /\ \A r \in Range(woken) : r.run = "wake" /\ r.of \in left
    BY <1>3, EachFacts
  <1>5. /\ after \in Seq(Callback) /\ Ordered(after, Apart)
        /\ \A r \in Range(after) : r.run = "reaped" /\ r.of \in teardowns
    BY <1>1, EachFacts
  <1> HIDE DEF woken, after
  <1>6. \A r \in Range(ready) : /\ r \in Callback /\ r.of \in Ops /\ Fits(r)
                                /\ r.run = "start" => task[r.of] = "none"
                                /\ r.run = "wake" => task[r.of] \in Settled
    <2>1. \A r \in Range(ready) : r \in Callback /\ r.of \in Ops /\ Fits(r)
      BY <1>1, CbFacts DEF QueueSound
    <2>2. QED
      BY <2>1 DEF Fits
  <1>7. /\ ready \o woken \in Seq(Callback) /\ Ordered(ready \o woken, Apart)
        /\ Range(ready \o woken) = Range(ready) \cup Range(woken)
    <2>1. ASSUME NEW x \in Range(ready), NEW y \in Range(woken) PROVE <<x, y>> \in Apart
      <3>1. y \in Callback /\ y.run = "wake" /\ task[y.of] = "waiting"
        BY <1>3, <1>4, CbFacts
      <3>2. x \in Callback /\ x # y
        BY <1>6, <3>1 DEF Settled
      <3>3. QED
        BY <3>1, <3>2, ApartFacts
    <2>2. QED
      BY <1>1, <1>4, <2>1, ConcatRange, OrderedJoin
  <1>8. /\ ready' \in Seq(Callback) /\ Ordered(ready', Apart)
        /\ Range(ready') = Range(ready) \cup Range(woken) \cup Range(after)
    <2>1. ASSUME NEW x \in Range(ready) \cup Range(woken), NEW y \in Range(after)
          PROVE  <<x, y>> \in Apart
      <3>1. y \in Callback /\ y.run = "reaped"
        BY <1>5, CbFacts
      <3>2. x \in Callback
        BY <1>4, <1>6, CbFacts
      <3>3. x.run \in {"start", "wake"} => x # y
        BY <3>1
      <3>4. QED
        BY <3>1, <3>2, <3>3, ApartFacts
    <2>2. \A q \in Seq(Callback) :
             Ordered(q, Apart) /\ Range(q) = Range(ready) \cup Range(woken)
             => /\ q \o after \in Seq(Callback) /\ Ordered(q \o after, Apart)
                /\ Range(q \o after) = Range(q) \cup Range(after)
      BY <1>5, <2>1, ConcatRange, OrderedJoin
    <2>3. QED
      BY <1>2, <1>7, <2>2
  <1>9. /\ task' \in [Ops -> TaskStates] /\ \A o \in left : task'[o] = "error"
        /\ \A o \in Ops : o \notin left => task'[o] = task[o]
    BY <1>1, <1>2, <1>3 DEF TaskStates
  <1>10. Onward
    BY <1>3, <1>9 DEF Onward
  <1>11. /\ \A o \in left : at[o] \notin {"idle", "closing", "posting"} /\ o \notin subIds
         /\ \A o \in teardowns : at[o] \notin {"idle", "closing", "posting"}
    BY <1>1, <1>3, TaskFacts DEF CallsSound, CallSound
  <1>12. QueueSound'
    <2>1. ASSUME NEW r \in Range(ready'), r \notin Range(ready) PROVE Fits(r)'
      <3>1. CASE r \in Range(woken)
        BY <1>2, <1>4, <1>9, <1>11, <3>1 DEF Fits, Settled
      <3>2. CASE r \in Range(after)
        BY <1>2, <1>5, <1>11, <3>2 DEF Fits
      <3>3. QED
        BY <1>8, <2>1, <3>1, <3>2
    <2>2. ASSUME NEW r \in Range(ready), r \in Range(ready')
          PROVE  /\ at'[r.of] = at[r.of]
                 /\ r.run = "start" => task'[r.of] = task[r.of]
                 /\ r.run = "wake" => task'[r.of] \in Settled
      BY <1>2, <1>3, <1>6, <1>9 DEF Settled
    <2>3. QED
      BY <1>1, <1>2, <1>8, <2>1, <2>2, FitsStill
  <1>13. CallsSound'
    <2>1. \A o \in Ops : task'[o] = task[o]
                \/ (at[o] \notin {"idle", "closing", "posting"} /\ task'[o] # "connecting"
                    /\ o \notin subIds)
      BY <1>9, <1>11
    <2>2. QED
      BY <1>1, <1>2, <2>1, CallsStill
  <1>14. SubsSound'
    <2>1. ASSUME NEW s \in Ops, Kind(s) = "subscribe", use[s].callback, task'[s] \in Started
          PROVE  \/ s \in subCbs'
                 \/ task[s] \in Started /\ (s \notin subCbs \/ Unsubscribed(s)')
      BY <1>2, <1>3, <1>9, <2>1 DEF Started
    <2>2. QED
      BY <1>1, <1>2, <1>10, <2>1, SubsStill
  <1>15. EventsSound' /\ down' \in Seq(Packet)
    <2>1. Range(<<>>) = {} /\ <<>> \in Seq(Packet)
      BY DEF Range
    <2>2. QED
      BY <1>2, <2>1 DEF EventsSound
  <1>16. Finite'
    BY <1>1, <1>2, FS_EmptySet DEF Finite
  <1>17. ClientTypeOK'
    BY <1>1, <1>2, <1>8, <1>9, <1>15 DEF ClientTypeOK
  <1>18. QED
    BY <1>12, <1>13, <1>14, <1>15, <1>16, <1>17 DEF ClientInv

-----------------------------------------------------------------------------
(* Nobody is forgotten.                                                    *)

Posted(run, o) == Cb(run, o) \in Range(ready)

\* An answer is owed, or cannot come any more.
Owed(o) == reader # "reading" \/ link # "up" \/ o \in up \/ Answering(o)

\* Whatever a call and its coroutine wait for is on its way to them.
Attended(o) ==
    /\ at[o] \in {"idle", "closing", "posting"} => cf[o] = "none"
    /\ cf[o] = "none" => task[o] = "none" /\ ~Posted("start", o)
    /\ cf[o] = "pending" /\ task[o] = "none" => Posted("start", o)
    /\ task[o] = "waiting" => o \in pending /\ Owed(o)
    /\ task[o] \in Settled => Posted("wake", o)
    /\ task[o] \in {"returned", "raised"} /\ cf[o] = "pending" => Posted("copy", o)
    /\ Posted("copy", o) \/ cf[o] \in {"result", "error"} => task[o] \in {"returned", "raised"}
    /\ cf[o] = "cancelled" /\ task[o] = "waiting" /\ loop # "closed" => Posted("cancel", o)
    /\ cf[o] = "pending" /\ at[o] \in {"timedOut", "ended"} => Kind(o) \in {"connect", "close"}
    /\ o \in progressCbs => task[o] \in {"waiting"} \cup Settled

\* connect() comes once and before everything else.
ConnectSound(o) ==
    /\ task[o] = "waiting" => reader # "none"
    /\ Kind(o) = "connect" =>
         /\ \A p \in Ops : Kind(p) = "connect" => p = o
         /\ at[o] = "posting" => loop = "new"
         /\ at[o] \notin {"expired", "cancelling"} /\ cf[o] # "cancelled"
         /\ task[o] \in {"none", "connecting"} => reader = "none"

LinkSound == (reader = "none" <=> link = "none") /\ (loop = "new" => reader = "none")

Attendance == LinkSound /\ \A o \in Ops : Attended(o) /\ ConnectSound(o)

\* The callbacks by which a coroutine gets on and its caller hears of it.
WakeRuns == {"start", "cancel", "wake", "copy"}

\* What a step has to leave alone of a call that it is not about.
Untouched(p) ==
    /\ Kind(p)' = Kind(p) /\ at'[p] = at[p] /\ cf'[p] = cf[p] /\ task'[p] = task[p]
    /\ \A run \in WakeRuns : Posted(run, p)' <=> Posted(run, p)
    /\ p \in pending => p \in pending'
    /\ p \in progressCbs' => p \in progressCbs
    /\ task[p] = "waiting" /\ Owed(p) => Owed(p)'
    /\ loop = "closed" => loop' = "closed"

LEMMA UntouchedStill ==
    ASSUME NEW p \in Ops, Attended(p), Untouched(p)
    PROVE  Attended(p)'
  BY DEF Attended, Untouched, WakeRuns

\* What is posted and taken belongs to one call.
LEMMA PostedAfter ==
    ASSUME ready \in Seq(Callback), NEW x \in Callback, ready' = Append(ready, x),
           NEW p \in Ops, NEW run
    PROVE  Posted(run, p)' <=> (Posted(run, p) \/ x = Cb(run, p))
  <1>1. Range(ready') = Range(ready) \cup {x}
    BY AppendRange
  <1>2. QED
    BY <1>1 DEF Posted, Cb

LEMMA CbSame == \A run, o, other, p : Cb(run, o) = Cb(other, p) => run = other /\ o = p
  BY CbFacts

LEMMA AnsweringStill ==
    ASSUME Range(down) \subseteq Range(down'), NEW o, Answering(o)
    PROVE  Answering(o)'
  BY DEF Answering, Range

\* While the connection and the reader are as they were.
LEMMA OwedStill ==
    ASSUME UNCHANGED <<reader, link, up, down>>, NEW o
    PROVE  Owed(o)' <=> Owed(o)
  BY DEF Owed, Answering

\* What a step may do to connect() and to what is said of it.
ConnectKept(p) ==
    /\ at'[p] = "posting" /\ Kind(p) = "connect" => at[p] = "posting" /\ loop' = loop
    /\ at'[p] \in {"expired", "cancelling"} =>
          at[p] \in {"expired", "cancelling"} \/ Kind(p) # "connect"
    /\ cf'[p] = "cancelled" => cf[p] = "cancelled" \/ Kind(p) # "connect"
    /\ task'[p] \in {"none", "connecting"} => task[p] \in {"none", "connecting"}
    /\ task'[p] = "waiting" => task[p] = "waiting" \/ reader # "none"

LEMMA ConnectsStill ==
    ASSUME Attendance, use' = use, reader' = reader,
           (link' = "none") <=> (link = "none"),
           loop' = "new" => loop = "new",
           \A p \in Ops : ConnectKept(p)
    PROVE  LinkSound' /\ \A p \in Ops : ConnectSound(p)'
  <1>1. \A p \in Ops : Kind(p)' = Kind(p)
    BY DEF Kind
  <1>2. LinkSound'
    BY DEF LinkSound, Attendance
  <1>3. ASSUME NEW p \in Ops PROVE ConnectSound(p)'
    BY <1>1 DEF Attendance, ConnectSound, ConnectKept
  <1>4. QED
    BY <1>2, <1>3

-----------------------------------------------------------------------------
(* Nobody is forgotten: by the calling threads.                            *)

\* Posted, and of no concern to the coroutine.
PostsBeside(o) ==
    \/ ready' = ready
    \/ \E run \in {"remove", "teardown", "stop"} : ready' = Append(ready, Cb(run, o))

LEMMA BesideStill ==
    ASSUME ready \in Seq(Callback), NEW o \in Ops, PostsBeside(o), NEW p \in Ops,
           NEW run \in WakeRuns
    PROVE  Posted(run, p)' <=> Posted(run, p)
  <1>1. CASE ready' = ready
    BY <1>1 DEF Posted
  <1>2. ASSUME NEW other \in {"remove", "teardown", "stop"}, ready' = Append(ready, Cb(other, o))
        PROVE  Posted(run, p)' <=> Posted(run, p)
    <2>1. Cb(other, o) \in Callback /\ Cb(other, o) # Cb(run, p)
      BY CbFacts, CbSame DEF WakeRuns
    <2>2. QED
      BY <1>2, <2>1, PostedAfter
  <1>3. QED
    BY <1>1, <1>2 DEF PostsBeside

\* A thread goes on and leaves its coroutine to the loop.
LEMMA AsideAttended ==
    ASSUME Attendance, ready \in Seq(Callback), at \in [Ops -> Stages], NEW o \in Ops,
           NEW stage, stage \notin {"idle", "closing"}, at' = [at EXCEPT ![o] = stage], use' = use,
           stage = "posting" => cf[o] = "none" /\ Kind(o) # "connect",
           PostsBeside(o), UNCHANGED <<cf, task, pending, progressCbs, reader, link, up, down>>,
           loop' = loop \/ (loop = "stopped" /\ loop' = "closed"),
           cf[o] = "pending" /\ stage \in {"timedOut", "ended"} => Kind(o) \in {"connect", "close"},
           stage \in {"expired", "cancelling"} => Kind(o) # "connect"
    PROVE  Attendance'
  <1>1. at'[o] = stage /\ \A p \in Ops : p # o => at'[p] = at[p]
    OBVIOUS
  <1>2. ASSUME NEW p \in Ops
        PROVE  /\ \A run \in WakeRuns : Posted(run, p)' <=> Posted(run, p)
               /\ Kind(p)' = Kind(p) /\ (Owed(p)' <=> Owed(p))
    BY BesideStill, OwedStill DEF Kind
  <1>3. ASSUME NEW p \in Ops PROVE Attended(p)'
    <2>1. Attended(p)
      BY DEF Attendance
    <2>2. CASE p = o
      BY <1>1, <1>2, <2>1, <2>2 DEF Attended, WakeRuns
    <2>3. CASE p # o
      <3>1. Untouched(p)
        BY <1>1, <1>2, <2>3 DEF Untouched
      <3>2. QED
        BY <2>1, <3>1, UntouchedStill
    <2>4. QED
      BY <2>2, <2>3
  <1>4. LinkSound' /\ \A p \in Ops : ConnectSound(p)'
    <2>1. ASSUME NEW p \in Ops PROVE ConnectKept(p)
      BY <1>1 DEF Attendance, ConnectSound, ConnectKept
    <2>2. QED
      BY <2>1, ConnectsStill
  <1>5. QED
    BY <1>3, <1>4 DEF Attendance

\* A coroutine is handed to the loop.
LEMMA StartAttended ==
    ASSUME Attendance, ClientInv, NEW o \in Ops, at[o] = "posting", Post("start", o),
           at' = [at EXCEPT ![o] = "waiting"], cf' = [cf EXCEPT ![o] = "pending"], use' = use,
           UNCHANGED <<task, pending, progressCbs, reader, link, up, down>>,
           loop' = loop \/ (Kind(o) = "connect" /\ loop' = "running")
    PROVE  Attendance'
  <1>1. /\ ready \in Seq(Callback) /\ at \in [Ops -> Stages] /\ task[o] = "none"
        /\ cf \in [Ops -> {"none", "pending", "result", "error", "cancelled"}]
        /\ pending \subseteq Ops
        /\ \A p \in pending : task[p] \in {"waiting", "result", "error", "cancelled"}
    BY DEF ClientInv, ClientTypeOK, CallsSound, CallSound
  <1>2. /\ at'[o] = "waiting" /\ cf'[o] = "pending"
        /\ \A p \in Ops : p # o => at'[p] = at[p] /\ cf'[p] = cf[p]
    BY <1>1
  <1>3. \A p \in Ops : \A run : Posted(run, p)' <=> Posted(run, p) \/ (run = "start" /\ p = o)
    <2>1. ready' = Append(ready, Cb("start", o)) /\ Cb("start", o) \in Callback
      BY CbFacts DEF Post, Cb
    <2>2. QED
      BY <1>1, <2>1, PostedAfter, CbSame
  <1>4. \A p \in Ops : Kind(p)' = Kind(p) /\ (Owed(p)' <=> Owed(p))
    BY OwedStill DEF Kind
  <1>5. Attended(o)' /\ (loop = "closed" => loop' = "closed")
    <2>1. Attended(o) /\ (Kind(o) = "connect" => loop = "new")
      BY DEF Attendance, ConnectSound
    <2>2. QED
      BY <1>1, <1>2, <1>3, <1>4, <2>1 DEF Attended, Settled
  <1>6. ASSUME NEW p \in Ops, p # o PROVE Attended(p)'
    <2>1. Untouched(p)
      BY <1>2, <1>3, <1>4, <1>5, <1>6 DEF Untouched
    <2>2. QED
      BY <2>1, UntouchedStill DEF Attendance
  <1>7. LinkSound' /\ \A p \in Ops : ConnectSound(p)'
    <2>1. ASSUME NEW p \in Ops PROVE ConnectKept(p)
      BY <1>1, <1>2 DEF Attendance, ConnectSound, ConnectKept
    <2>2. QED
      BY <2>1, ConnectsStill
  <1>8. QED
    BY <1>5, <1>6, <1>7 DEF Attendance

\* The time-out is passed on to the coroutine, or finds it over, or not begun.
LEMMA GiveUpAttended ==
    ASSUME Attendance, ClientInv, NEW o \in Ops, GiveUp(o)
    PROVE  Attendance'
  <1>1. /\ ready \in Seq(Callback) /\ at \in [Ops -> Stages] /\ at[o] = "cancelling"
        /\ cf \in [Ops -> {"none", "pending", "result", "error", "cancelled"}]
        /\ Attended(o) /\ Kind(o) # "connect"
        /\ UNCHANGED <<use, task, pending, progressCbs, reader, link, up, down, loop>>
    BY DEF ClientInv, ClientTypeOK, Attendance, ConnectSound, GiveUp, tableVars, readerVars,
       serverVars
  <1>2. /\ at'[o] = "timedOut" /\ cf'[o] = IF cf[o] = "pending" THEN "cancelled" ELSE cf[o]
        /\ \A p \in Ops : p # o => at'[p] = at[p] /\ cf'[p] = cf[p]
    BY <1>1 DEF GiveUp, CancelFuture, GoTo
  <1>3. /\ \A p \in Ops : \A run : p # o \/ run # "cancel" => (Posted(run, p)' <=> Posted(run, p))
        /\ Posted("cancel", o) => Posted("cancel", o)'
        /\ cf[o] = "pending" /\ task[o] # "none" /\ loop # "closed" => Posted("cancel", o)'
    <2>1. CASE cf[o] = "pending" /\ task[o] # "none" /\ loop # "closed"
      <3>1. ready' = Append(ready, Cb("cancel", o)) /\ Cb("cancel", o) \in Callback
        BY <2>1, CbFacts DEF GiveUp, CancelFuture, Post, Cb
      <3>2. QED
        BY <1>1, <3>1, PostedAfter, CbSame
    <2>2. CASE ~(cf[o] = "pending" /\ task[o] # "none" /\ loop # "closed")
      <3>1. ready' = ready
        BY <2>2 DEF GiveUp, CancelFuture
      <3>2. QED
        BY <2>2, <3>1 DEF Posted
    <2>3. QED
      BY <2>1, <2>2
  <1>4. \A p \in Ops : Kind(p)' = Kind(p) /\ (Owed(p)' <=> Owed(p))
    BY <1>1, OwedStill DEF Kind
  <1>5. Attended(o)'
    BY <1>1, <1>2, <1>3, <1>4 DEF Attended
  <1>6. ASSUME NEW p \in Ops, p # o PROVE Attended(p)'
    <2>1. Untouched(p)
      BY <1>1, <1>2, <1>3, <1>4, <1>6 DEF Untouched
    <2>2. QED
      BY <2>1, UntouchedStill DEF Attendance
  <1>7. LinkSound' /\ \A p \in Ops : ConnectSound(p)'
    <2>1. ASSUME NEW p \in Ops PROVE ConnectKept(p)
      BY <1>1, <1>2 DEF ConnectKept
    <2>2. QED
      BY <1>1, <2>1, ConnectsStill
  <1>8. QED
    BY <1>5, <1>6, <1>7 DEF Attendance

LEMMA EndAside ==
    ASSUME NEW o \in Ops, NEW result, End(o, result)
    PROVE  at' = [at EXCEPT ![o] = "ended"] /\ use' = use /\ PostsBeside(o)
  BY DEF End, GoTo, Post, Cb, PostsBeside

LEMMA CallerAttended ==
    ASSUME ClientInv, Attendance, NEW o \in Ops, Caller(o)
    PROVE  Attendance'
  <1> USE DEF tableVars, loopVars, readerVars, serverVars
  <1>1. /\ ready \in Seq(Callback) /\ at \in [Ops -> Stages]
        /\ Attended(o) /\ ConnectSound(o) /\ CallSound(o)
    BY DEF ClientInv, ClientTypeOK, CallsSound, Attendance
  <1>2. CASE Connect(o)
    <2>1. /\ at' = [at EXCEPT ![o] = "waiting"] /\ cf' = [cf EXCEPT ![o] = "pending"]
          /\ at[o] = "posting" /\ Post("start", o)
      BY <1>2 DEF Connect, GoTo
    <2>2. QED
      BY <1>2, <2>1, StartAttended DEF Connect
  <1>3. CASE Submit(o)
    <2>1. CASE End(o, "ERROR") \/ End(o, "CLOSED")
      <3>1. at' = [at EXCEPT ![o] = "ended"] /\ use' = use /\ PostsBeside(o)
        BY <2>1, EndAside
      <3>2. at[o] = "posting" /\ cf[o] = "none"
        BY <1>1, <1>3 DEF Submit, Attended
      <3>3. cf' = cf
        <4>1. at'[o] = "ended"
          BY <1>1, <3>1
        <4>2. QED
          BY <1>1, <1>3, <4>1 DEF Submit, GoTo
      <3>4. QED
        BY <1>1, <1>3, <3>1, <3>2, <3>3, AsideAttended DEF Submit
    <2>2. CASE Post("start", o) /\ cf' = [cf EXCEPT ![o] = "pending"] /\ GoTo(o, "waiting")
               /\ use' = use
      <3>1. at' = [at EXCEPT ![o] = "waiting"] /\ at[o] = "posting"
        BY <1>3, <2>2 DEF Submit, GoTo
      <3>2. QED
        BY <1>3, <2>2, <3>1, StartAttended DEF Submit
    <2>3. QED
      BY <1>3, <2>1, <2>2 DEF Submit
  <1>4. ASSUME NEW stage \in {"posting", "tearing", "torn", "stopping"},
               GoTo(o, stage), PostsBeside(o), use' = use,
               stage = "posting" => at[o] = "closing",
               UNCHANGED <<cf, task, tableVars, loop, reader, link, up, down>>
        PROVE  Attendance'
    <2>1. at' = [at EXCEPT ![o] = stage]
      BY <1>4 DEF GoTo
    <2>2. stage = "posting" => cf[o] = "none" /\ Kind(o) # "connect"
      BY <1>1, <1>4 DEF CallSound, Attended
    <2>3. QED
      BY <1>1, <1>4, <2>1, <2>2, AsideAttended
  <1>5. ASSUME Kind(o) = "close", TearDown(o),
               UNCHANGED <<cf, task, tableVars, loop, reader, link, up, down>>
        PROVE  Attendance'
    <2>1. CASE GoTo(o, "tearing") /\ Post("teardown", o) /\ use' = use
      <3>1. PostsBeside(o)
        BY <2>1 DEF Post, Cb, PostsBeside
      <3>2. QED
        BY <1>4, <1>5, <2>1, <3>1
    <2>2. CASE End(o, "ERROR")
      <3>1. at' = [at EXCEPT ![o] = "ended"] /\ use' = use /\ PostsBeside(o)
        BY <2>2, EndAside
      <3>2. QED
        BY <1>1, <1>5, <3>1, AsideAttended
    <2>3. QED
      BY <1>5, <2>1, <2>2 DEF TearDown
  <1>6. CASE Return(o)
    <2>1. CASE Kind(o) = "close"
      BY <1>5, <1>6, <2>1 DEF Return
    <2>2. CASE Kind(o) # "close"
      <3>1. PICK result : End(o, result)
        BY <1>6, <2>2 DEF Return
      <3>2. at' = [at EXCEPT ![o] = "ended"] /\ use' = use /\ PostsBeside(o)
        BY <3>1, EndAside
      <3>3. QED
        BY <1>1, <1>6, <3>2, AsideAttended DEF Return
    <2>3. QED
      BY <2>1, <2>2
  <1>7. CASE Expire(o)
    <2>1. CASE Kind(o) = "close"
      BY <1>5, <1>7, <2>1 DEF Expire
    <2>2. CASE Kind(o) = "connect"
      <3>1. at' = [at EXCEPT ![o] = "ended"] /\ use' = use /\ PostsBeside(o)
        BY <1>7, <2>2, EndAside DEF Expire
      <3>2. QED
        BY <1>1, <1>7, <2>2, <3>1, AsideAttended DEF Expire
    <2>3. CASE Kind(o) \notin {"close", "connect"}
      <3>1. at' = [at EXCEPT ![o] = "expired"] /\ use' = use /\ PostsBeside(o)
        BY <1>7, <2>3 DEF Expire, GoTo, PostsBeside
      <3>2. QED
        BY <1>1, <1>7, <2>3, <3>1, AsideAttended DEF Expire
    <2>4. QED
      BY <2>1, <2>2, <2>3
  <1>8. CASE Settle(o)
    <2>1. CASE cf[o] # "pending" /\ End(o, "RAW_TIMEOUT")
      <3>1. at' = [at EXCEPT ![o] = "ended"] /\ use' = use /\ PostsBeside(o)
        BY <2>1, EndAside
      <3>2. QED
        BY <1>1, <1>8, <2>1, <3>1, AsideAttended DEF Settle
    <2>2. CASE GoTo(o, "cancelling") /\ UNCHANGED <<use, outcome, closed, ready>>
      <3>1. at' = [at EXCEPT ![o] = "cancelling"] /\ use' = use /\ PostsBeside(o)
        BY <2>2 DEF GoTo, PostsBeside
      <3>2. Kind(o) # "connect"
        BY <1>1, <1>8 DEF Settle, ConnectSound
      <3>3. QED
        BY <1>1, <1>8, <3>1, <3>2, AsideAttended DEF Settle
    <2>3. QED
      BY <1>8, <2>1, <2>2 DEF Settle
  <1>9. CASE GiveUp(o)
    BY <1>9, GiveUpAttended
  <1>10. CASE RaiseTimeout(o)
    <2>1. at' = [at EXCEPT ![o] = "ended"] /\ use' = use /\ PostsBeside(o)
      BY <1>10, EndAside DEF RaiseTimeout
    <2>2. cf[o] = "pending" => Kind(o) \in {"connect", "close"}
      BY <1>1, <1>10 DEF RaiseTimeout, Attended
    <2>3. QED
      BY <1>1, <1>10, <2>1, <2>2, AsideAttended DEF RaiseTimeout
  <1>11. CASE StopLoop(o)
    <2>1. Kind(o) = "close"
      BY <1>1, <1>11 DEF StopLoop, CallSound
    <2>2. CASE GoTo(o, "stopping") /\ Post("stop", o) /\ use' = use
      <3>1. PostsBeside(o)
        BY <2>2 DEF Post, Cb, PostsBeside
      <3>2. QED
        BY <1>4, <1>11, <2>2, <3>1 DEF StopLoop
    <2>3. CASE End(o, "ERROR")
      <3>1. at' = [at EXCEPT ![o] = "ended"] /\ use' = use /\ PostsBeside(o)
        BY <2>3, EndAside
      <3>2. QED
        BY <1>1, <1>11, <2>1, <3>1, AsideAttended DEF StopLoop
    <2>4. QED
      BY <1>11, <2>2, <2>3 DEF StopLoop
  <1>12. CASE CloseLoop(o)
    <2>1. at' = [at EXCEPT ![o] = "ended"] /\ use' = use /\ PostsBeside(o)
      BY <1>12, EndAside DEF CloseLoop
    <2>2. Kind(o) = "close"
      BY <1>1, <1>12 DEF CloseLoop, CallSound
    <2>3. QED
      BY <1>1, <1>12, <2>1, <2>2, AsideAttended DEF CloseLoop
  <1>13. CASE Shut(o)
    BY <1>4, <1>13 DEF Shut, PostsBeside
  <1>14. CASE Abandon(o)
    BY <1>4, <1>14 DEF Abandon, PostsBeside
  <1>15. QED
    BY <1>2, <1>3, <1>6, <1>7, <1>8, <1>9, <1>10, <1>11, <1>12, <1>13, <1>14 DEF Caller

LEMMA BeginAttended ==
    ASSUME ClientInv, Attendance, NEW o \in Ops, NEW u \in Wanted(o), Begin(o, u)
    PROVE  Attendance'
  <1>1. /\ use \in [Ops -> Use \cup {None}] /\ at \in [Ops -> Stages] /\ at[o] = "idle"
        /\ use[o] = None /\ task[o] = "none" /\ cf[o] = "none" /\ Kind(o) = "none"
        /\ \A p \in Ops : at[p] = "idle" => Kind(p) = "none"
    BY DEF ClientInv, ClientTypeOK, CallsSound, CallSound, Attendance, Attended, Begin, Kind
  <1>2. u # None
    BY WantedUse
  <1>3. PICK stage \in {"ended", "closing", "posting"} : at' = [at EXCEPT ![o] = stage]
    BY DEF Begin, GoTo
  <1>4. /\ use' = [use EXCEPT ![o] = u] /\ (u.kind = "connect" <=> loop = "new")
        /\ u.kind = "connect" => \A p \in Ops : at[p] = "idle"
        /\ UNCHANGED <<cf, task, pending, progressCbs, ready, loop, reader, link, up, down>>
    BY DEF Begin, tableVars, loopVars, readerVars, serverVars
  <1>5. /\ \A p \in Ops : p # o => at'[p] = at[p] /\ Kind(p)' = Kind(p)
        /\ at'[o] = stage /\ Kind(o)' = u.kind
    BY <1>1, <1>2, <1>3, <1>4 DEF Kind
  <1>6. \A p \in Ops : /\ \A run : Posted(run, p)' <=> Posted(run, p)
                       /\ (Owed(p)' <=> Owed(p))
    BY <1>4, OwedStill DEF Posted
  <1>7. ASSUME NEW p \in Ops PROVE Attended(p)'
    <2>1. Attended(p)
      BY DEF Attendance
    <2>2. CASE p = o
      BY <1>1, <1>4, <1>5, <1>6, <2>1, <2>2 DEF Attended
    <2>3. CASE p # o
      <3>1. Untouched(p)
        BY <1>4, <1>5, <1>6, <2>3 DEF Untouched
      <3>2. QED
        BY <2>1, <3>1, UntouchedStill
    <2>4. QED
      BY <2>2, <2>3
  <1>8. LinkSound'
    BY <1>4 DEF Attendance, LinkSound
  <1>9. ASSUME NEW p \in Ops PROVE ConnectSound(p)'
    <2>1. ConnectSound(p) /\ LinkSound
      BY DEF Attendance
    <2>2. CASE u.kind = "connect"
      <3>1. \A q \in Ops : q # o => Kind(q)' # "connect"
        BY <1>1, <1>4, <1>5, <2>2
      <3>2. QED
        BY <1>1, <1>4, <1>5, <2>1, <2>2, <3>1 DEF ConnectSound, LinkSound
    <2>3. CASE u.kind # "connect"
      BY <1>1, <1>4, <1>5, <2>1, <2>3 DEF ConnectSound
    <2>4. QED
      BY <2>2, <2>3
  <1>10. QED
    BY <1>7, <1>8, <1>9 DEF Attendance

-----------------------------------------------------------------------------
(* Nobody is forgotten: by the loop.                                       *)

\* What a turn of the loop takes from the queue, and puts there when `next' is posted.
TookOne(run, o, next) ==
    \A p \in Ops, any \in WakeRuns :
        /\ Posted(any, p) /\ ~(any = run /\ p = o) => Posted(any, p)'
        /\ Posted(any, p)' => Posted(any, p) \/ (any = next /\ p = o)

LEMMA TurnTakes ==
    ASSUME ready \in Seq(Callback), NEW run, NEW o \in Ops, Turn(run, o)
    PROVE  /\ Then(<<>>, o) => TookOne(run, o, "nothing")
           /\ \A next \in {"cancel", "wake", "copy", "reaped", "torn"} :
                 Then(<<next>>, o) => TookOne(run, o, next) /\ Posted(next, o)'
  <1>1. ready # <<>> /\ Head(ready) = Cb(run, o)
    BY DEF Turn, Cb
  <1>2. Tail(ready) \in Seq(Callback) /\ Range(ready) = Range(Tail(ready)) \cup {Cb(run, o)}
    BY <1>1, HeadRange
  <1>3. ASSUME Then(<<>>, o) PROVE TookOne(run, o, "nothing")
    <2>1. ready' = Tail(ready)
      BY <1>3, ThenNothing
    <2>2. QED
      BY <1>2, <2>1, CbSame DEF TookOne, Posted
  <1>4. ASSUME NEW next \in {"cancel", "wake", "copy", "reaped", "torn"}, Then(<<next>>, o)
        PROVE  TookOne(run, o, next) /\ Posted(next, o)'
    <2>1. ready' = Append(Tail(ready), Cb(next, o)) /\ Cb(next, o) \in Callback
      BY <1>4, ThenOne, CbFacts
    <2>2. \A q \in Seq(Callback) : Range(Append(q, Cb(next, o))) = Range(q) \cup {Cb(next, o)}
      BY <2>1, AppendRange
    <2>3. Range(ready') = Range(Tail(ready)) \cup {Cb(next, o)}
      BY <1>2, <2>1, <2>2
    <2>4. QED
      BY <1>2, <2>3, CbSame DEF TookOne, Posted
  <1>5. QED
    BY <1>3, <1>4

\* What a step about o leaves to every other call.
OthersAside(o) ==
    \A p \in Ops : p # o =>
        /\ at'[p] = at[p] /\ cf'[p] = cf[p] /\ task'[p] = task[p]
        /\ p \in pending => p \in pending'
        /\ p \in progressCbs' => p \in progressCbs

LEMMA TurnAttended ==
    ASSUME Attendance, NEW run, NEW o \in Ops, NEW next, Turn(run, o), TookOne(run, o, next),
           OthersAside(o), use' = use, reader' = reader, (link' = "none") <=> (link = "none"),
           loop' # "new", \A p \in Ops : task[p] = "waiting" /\ Owed(p) => Owed(p)',
           ConnectKept(o), Attended(o)'
    PROVE  Attendance'
  <1>1. loop \in {"running", "stopping"} /\ \A p \in Ops : Kind(p)' = Kind(p)
    BY DEF Turn, LoopRuns, Kind
  <1>2. ASSUME NEW p \in Ops, p # o PROVE Attended(p)'
    <2>1. Untouched(p)
      BY <1>1, <1>2 DEF Untouched, TookOne, OthersAside
    <2>2. QED
      BY <2>1, UntouchedStill DEF Attendance
  <1>3. ASSUME NEW p \in Ops PROVE ConnectKept(p)
    <2>1. at[p] = "posting" => Kind(p) # "connect"
      BY <1>1 DEF Attendance, ConnectSound
    <2>2. QED
      BY <2>1 DEF ConnectKept, OthersAside
  <1>4. LinkSound' /\ \A p \in Ops : ConnectSound(p)'
    BY <1>1, <1>3, ConnectsStill
  <1>5. QED
    BY <1>2, <1>4 DEF Attendance

\* Who has his turn.
LEMMA TurnFacts ==
    ASSUME ClientInv, Attendance, NEW run, NEW o \in Ops, Turn(run, o)
    PROVE  /\ ready \in Seq(Callback) /\ task \in [Ops -> TaskStates] /\ at \in [Ops -> Stages]
           /\ cf \in [Ops -> {"none", "pending", "result", "error", "cancelled"}]
           /\ loop \in {"running", "stopping"}
           /\ Posted(run, o) /\ at[o] \notin {"idle", "closing", "posting"}
           /\ run = "start" => task[o] = "none"
           /\ run = "wake" => task[o] \in Settled
           /\ Attended(o) /\ ConnectSound(o) /\ LinkSound
           /\ o \in pending => task[o] \in {"waiting", "result", "error", "cancelled"}
  <1>1. /\ ready \in Seq(Callback) /\ Ordered(ready, Apart) /\ task \in [Ops -> TaskStates]
        /\ at \in [Ops -> Stages]
        /\ cf \in [Ops -> {"none", "pending", "result", "error", "cancelled"}]
        /\ o \in pending => task[o] \in {"waiting", "result", "error", "cancelled"}
    BY DEF ClientInv, ClientTypeOK, QueueSound
  <1>2. Cb(run, o) \in Range(ready)
    BY <1>1, Taken
  <1>3. Fits(Cb(run, o)) /\ Cb(run, o).run = run /\ Cb(run, o).of = o
    BY <1>2, CbFacts DEF ClientInv, QueueSound
  <1>4. QED
    BY <1>1, <1>2, <1>3 DEF Fits, Posted, Turn, LoopRuns, Attendance

LEMMA StartRunAttended ==
    ASSUME ClientInv, Attendance, NEW o \in Ops, RunStart(o)
    PROVE  Attendance'
  <1> USE DEF callerVars, tableVars, loopVars, readerVars, serverVars
  <1>1. Turn("start", o) /\ Kind(o) # "connect"
    BY DEF RunStart
  <1>2. /\ ready \in Seq(Callback) /\ task \in [Ops -> TaskStates]
        /\ loop \in {"running", "stopping"} /\ Posted("start", o)
        /\ at[o] \notin {"idle", "closing", "posting"}
        /\ cf \in [Ops -> {"none", "pending", "result", "error", "cancelled"}]
        /\ task[o] = "none" /\ Attended(o) /\ LinkSound
    BY <1>1, TurnFacts
  <1>3. cf[o] \in {"pending", "cancelled"} /\ ~Posted("copy", o) /\ o \notin progressCbs
    BY <1>2 DEF Attended, Settled
  <1>4. UNCHANGED <<use, at, cf, loop, reader, link, down>> /\ Kind(o)' = Kind(o)
    BY DEF RunStart, Kind
  <1>5. CASE /\ link \in {"up", "lost", "closing"}
             /\ task' = [task EXCEPT ![o] = "waiting"]
             /\ pending' = pending \cup {o}
             /\ progressCbs' = IF Kind(o) = "call" /\ use[o].callback THEN progressCbs \cup {o}
                               ELSE progressCbs
             /\ up' = IF link = "up" THEN up \cup {o} ELSE up
             /\ Then(IF cf[o] = "cancelled" THEN <<"cancel">> ELSE <<>>, o)
    <2>1. PICK next \in {"cancel", "nothing"} :
              TookOne("start", o, next) /\ (cf[o] = "cancelled" => Posted("cancel", o)')
      <3>1. CASE cf[o] = "cancelled"
        BY <1>1, <1>2, <1>5, <3>1, TurnTakes
      <3>2. CASE cf[o] # "cancelled"
        BY <1>1, <1>2, <1>5, <3>2, TurnTakes
      <3>3. QED
        BY <3>1, <3>2
    <2>2. /\ task'[o] = "waiting" /\ \A p \in Ops : p # o => task'[p] = task[p]
          /\ o \in pending'
      BY <1>2, <1>5
    <2>3. \A p \in Ops : Owed(p) => Owed(p)'
      BY <1>4, <1>5 DEF Owed, Answering
    <2>4. Owed(o)'
      BY <1>4, <1>5 DEF Owed
    <2>5. ~Posted("copy", o)'
      BY <1>3, <2>1 DEF TookOne, WakeRuns
    <2>6. Attended(o)'
      BY <1>2, <1>3, <1>4, <2>1, <2>2, <2>4, <2>5 DEF Attended, Settled
    <2>7. OthersAside(o)
      BY <1>4, <1>5, <2>2 DEF OthersAside
    <2>8. ConnectKept(o)
      BY <1>1, <1>2, <1>4, <1>5, <2>2 DEF ConnectKept, LinkSound
    <2>9. QED
      BY <1>1, <1>2, <1>4, <2>1, <2>3, <2>6, <2>7, <2>8, TurnAttended
  <1>6. CASE /\ task' = [task EXCEPT ![o] = "raised"]
             /\ Then(<<"copy">>, o)
             /\ UNCHANGED <<pending, progressCbs, up>>
    <2>1. TookOne("start", o, "copy") /\ Posted("copy", o)'
      BY <1>1, <1>2, <1>6, TurnTakes
    <2>2. task'[o] = "raised" /\ \A p \in Ops : p # o => task'[p] = task[p]
      BY <1>2, <1>6
    <2>3. \A p \in Ops : Owed(p) => Owed(p)'
      BY <1>4, <1>6, OwedStill
    <2>4. Attended(o)'
      BY <1>2, <1>3, <1>4, <1>6, <2>1, <2>2 DEF Attended, Settled
    <2>5. OthersAside(o)
      BY <1>4, <1>6, <2>2 DEF OthersAside
    <2>6. ConnectKept(o)
      BY <1>1, <1>2, <1>4, <2>2 DEF ConnectKept
    <2>7. QED
      BY <1>1, <1>2, <1>4, <2>1, <2>3, <2>4, <2>5, <2>6, TurnAttended
  <1>7. QED
    BY <1>5, <1>6 DEF RunStart

LEMMA ConnectRunAttended ==
    ASSUME ClientInv, Attendance, NEW o \in Ops, RunConnect(o)
    PROVE  Attendance'
  <1> USE DEF callerVars, tableVars, loopVars, readerVars, serverVars
  <1>1. Turn("start", o) /\ Then(<<>>, o)
    BY DEF RunConnect
  <1>2. /\ ready \in Seq(Callback) /\ task \in [Ops -> TaskStates]
        /\ loop \in {"running", "stopping"} /\ Posted("start", o)
        /\ at[o] \notin {"idle", "closing", "posting"}
        /\ cf \in [Ops -> {"none", "pending", "result", "error", "cancelled"}]
        /\ task[o] = "none" /\ Attended(o)
    BY <1>1, TurnFacts
  <1>3. cf[o] \in {"pending", "cancelled"} /\ ~Posted("copy", o) /\ o \notin progressCbs
    BY <1>2 DEF Attended, Settled
  <1>4. UNCHANGED <<use, at, cf, pending, progressCbs, loop, reader, link, up, down>>
        /\ Kind(o)' = Kind(o)
    BY DEF RunConnect, Kind
  <1>5. TookOne("start", o, "nothing")
    BY <1>1, <1>2, TurnTakes
  <1>6. task'[o] = "connecting" /\ \A p \in Ops : p # o => task'[p] = task[p]
    BY <1>2 DEF RunConnect
  <1>7. \A p \in Ops : Owed(p) => Owed(p)'
    BY <1>4, OwedStill
  <1>8. ~Posted("copy", o)'
    BY <1>3, <1>5 DEF TookOne, WakeRuns
  <1>9. Attended(o)'
    BY <1>2, <1>3, <1>4, <1>6, <1>8 DEF Attended, Settled
  <1>10. OthersAside(o) /\ ConnectKept(o)
    BY <1>2, <1>4, <1>6 DEF OthersAside, ConnectKept
  <1>11. QED
    BY <1>1, <1>2, <1>4, <1>5, <1>7, <1>9, <1>10, TurnAttended

LEMMA CancelRunAttended ==
    ASSUME ClientInv, Attendance, NEW o \in Ops, RunCancel(o)
    PROVE  Attendance'
  <1> USE DEF callerVars, tableVars, loopVars, readerVars, serverVars
  <1>1. Turn("cancel", o) /\ Then(IF task[o] = "waiting" THEN <<"wake">> ELSE <<>>, o)
    BY DEF RunCancel
  <1>2. /\ ready \in Seq(Callback) /\ task \in [Ops -> TaskStates]
        /\ loop \in {"running", "stopping"} /\ at[o] \notin {"idle", "closing", "posting"}
        /\ Attended(o)
    BY <1>1, TurnFacts
  <1>3. UNCHANGED <<use, at, cf, pending, progressCbs, loop, reader, link, up, down>>
        /\ Kind(o)' = Kind(o)
    BY DEF RunCancel, Kind
  <1>4. PICK next \in {"wake", "nothing"} :
            TookOne("cancel", o, next) /\ (task[o] = "waiting" <=> next = "wake")
            /\ (next = "wake" => Posted("wake", o)')
    <2>1. CASE task[o] = "waiting"
      BY <1>1, <1>2, <2>1, TurnTakes
    <2>2. CASE task[o] # "waiting"
      BY <1>1, <1>2, <2>2, TurnTakes
    <2>3. QED
      BY <2>1, <2>2
  <1>5. /\ task'[o] = IF task[o] \in {"waiting", "result", "error"} THEN "cancelled" ELSE task[o]
        /\ \A p \in Ops : p # o => task'[p] = task[p]
    BY <1>2 DEF RunCancel
  <1>6. \A p \in Ops : Owed(p) => Owed(p)'
    BY <1>3, OwedStill
  <1>7. \A run \in {"start", "wake", "copy"} : Posted(run, o) => Posted(run, o)'
    BY <1>4 DEF TookOne, WakeRuns
  <1>8. \A run \in {"start", "copy"} : Posted(run, o)' => Posted(run, o)
    BY <1>4 DEF TookOne, WakeRuns
  <1>9. Attended(o)'
    BY <1>2, <1>3, <1>4, <1>5, <1>7, <1>8 DEF Attended, Settled
  <1>10. OthersAside(o) /\ ConnectKept(o)
    BY <1>2, <1>3, <1>5 DEF OthersAside, ConnectKept
  <1>11. QED
    BY <1>1, <1>2, <1>3, <1>4, <1>6, <1>9, <1>10, TurnAttended

LEMMA WakeRunAttended ==
    ASSUME ClientInv, Attendance, NEW o \in Ops, RunWake(o)
    PROVE  Attendance'
  <1> USE DEF callerVars, readerVars, serverVars
  <1>1. Turn("wake", o) /\ Then(<<"copy">>, o)
    BY DEF RunWake
  <1>2. /\ ready \in Seq(Callback) /\ task \in [Ops -> TaskStates]
        /\ loop \in {"running", "stopping"} /\ at[o] \notin {"idle", "closing", "posting"}
        /\ Attended(o) /\ task[o] \in Settled
    BY <1>1, TurnFacts
  <1>3. /\ UNCHANGED <<use, at, cf, loop, reader, link, up, down>> /\ Kind(o)' = Kind(o)
        /\ pending' = pending \ {o} /\ progressCbs' = progressCbs \ {o}
    BY DEF RunWake, Kind
  <1>4. TookOne("wake", o, "copy") /\ Posted("copy", o)'
    BY <1>1, <1>2, TurnTakes
  <1>5. task'[o] \in {"returned", "raised"} /\ \A p \in Ops : p # o => task'[p] = task[p]
    BY <1>2 DEF RunWake
  <1>6. \A p \in Ops : Owed(p) => Owed(p)'
    BY <1>3, OwedStill
  <1>7. Attended(o)'
    BY <1>2, <1>3, <1>4, <1>5 DEF Attended, Settled
  <1>8. OthersAside(o) /\ ConnectKept(o)
    BY <1>2, <1>3, <1>5 DEF OthersAside, ConnectKept
  <1>9. QED
    BY <1>1, <1>2, <1>3, <1>4, <1>6, <1>7, <1>8, TurnAttended

LEMMA CopyRunAttended ==
    ASSUME ClientInv, Attendance, NEW o \in Ops, RunCopy(o)
    PROVE  Attendance'
  <1> USE DEF callerVars, tableVars, loopVars, readerVars, serverVars
  <1>1. Turn("copy", o) /\ Then(<<>>, o)
    BY DEF RunCopy
  <1>2. /\ ready \in Seq(Callback)
        /\ cf \in [Ops -> {"none", "pending", "result", "error", "cancelled"}]
        /\ loop \in {"running", "stopping"} /\ at[o] \notin {"idle", "closing", "posting"}
        /\ Attended(o) /\ Posted("copy", o)
    BY <1>1, TurnFacts
  <1>3. UNCHANGED <<use, at, task, pending, progressCbs, loop, reader, link, up, down>>
        /\ Kind(o)' = Kind(o)
    BY DEF RunCopy, Kind
  <1>4. TookOne("copy", o, "nothing")
    BY <1>1, <1>2, TurnTakes
  <1>5. /\ cf'[o] \in {"result", "error", "cancelled"}
          /\ (cf'[o] = "cancelled" <=> cf[o] = "cancelled")
        /\ \A p \in Ops : p # o => cf'[p] = cf[p]
    BY <1>2 DEF RunCopy
  <1>6. \A p \in Ops : Owed(p) => Owed(p)'
    BY <1>3, OwedStill
  <1>7. task[o] \in {"returned", "raised"}
    BY <1>2 DEF Attended
  <1>8. Attended(o)'
    BY <1>2, <1>3, <1>5, <1>7 DEF Attended, Settled
  <1>9. OthersAside(o) /\ ConnectKept(o)
    BY <1>2, <1>3, <1>5 DEF OthersAside, ConnectKept
  <1>10. QED
    BY <1>1, <1>2, <1>3, <1>4, <1>6, <1>8, <1>9, TurnAttended

\* The callbacks of close() and unsubscribe(): a torn connection owes nobody an answer.
LEMMA BesideRunAttended ==
    ASSUME ClientInv, Attendance, NEW o \in Ops,
           RunRemove(o) \/ RunTeardown(o) \/ RunReaped(o) \/ RunTorn(o) \/ RunStop(o)
    PROVE  Attendance'
  <1> USE DEF callerVars, tableVars, loopVars, readerVars, serverVars
  <1>1. PICK run \in {"remove", "teardown", "reaped", "torn", "stop"} : Turn(run, o)
    BY DEF RunRemove, RunTeardown, RunReaped, RunTorn, RunStop
  <1>2. /\ ready \in Seq(Callback) /\ at \in [Ops -> Stages]
        /\ loop \in {"running", "stopping"} /\ at[o] \notin {"idle", "closing", "posting"}
        /\ Attended(o) /\ LinkSound
    BY <1>1, TurnFacts
  <1>3. PICK next \in {"nothing", "reaped", "torn"} : TookOne(run, o, next)
    <2>1. Then(<<>>, o) \/ Then(<<"reaped">>, o) \/ Then(<<"torn">>, o)
      BY DEF RunRemove, RunTeardown, RunReaped, RunTorn, RunStop
    <2>2. QED
      BY <1>1, <1>2, <2>1, TurnTakes
  <1>4. /\ UNCHANGED <<use, cf, task, pending, progressCbs, reader>> /\ Kind(o)' = Kind(o)
        /\ loop' \in {loop, "stopping"}
        /\ at' = at \/ (at[o] = "tearing" /\ at' = [at EXCEPT ![o] = "torn"])
    BY DEF RunRemove, RunTeardown, RunReaped, RunTorn, RunStop, GoTo, Kind
  <1>5. /\ at'[o] = at[o] \/ (at[o] = "tearing" /\ at'[o] = "torn")
        /\ \A p \in Ops : p # o => at'[p] = at[p]
    BY <1>2, <1>4
  <1>6. /\ (link' = "none") <=> (link = "none")
        /\ \A p \in Ops : Owed(p) => Owed(p)'
    <2>1. CASE RunTeardown(o)
      BY <1>2, <1>4, <2>1 DEF RunTeardown, Owed, LinkSound
    <2>2. CASE ~RunTeardown(o)
      <3>1. UNCHANGED <<link, up, down>>
        BY <2>2 DEF RunRemove, RunReaped, RunTorn, RunStop
      <3>2. QED
        BY <1>4, <3>1, OwedStill
    <2>3. QED
      BY <2>1, <2>2
  <1>7. \A any \in WakeRuns : Posted(any, o)' <=> Posted(any, o)
    BY <1>3 DEF TookOne, WakeRuns
  <1>8. Attended(o)'
    BY <1>2, <1>4, <1>5, <1>6, <1>7 DEF Attended, WakeRuns
  <1>9. OthersAside(o) /\ ConnectKept(o)
    BY <1>2, <1>4, <1>5 DEF OthersAside, ConnectKept
  <1>10. QED
    BY <1>1, <1>2, <1>3, <1>4, <1>6, <1>8, <1>9, TurnAttended

LEMMA RunAttended ==
    ASSUME ClientInv, Attendance, NEW o \in Ops, Run(o)
    PROVE  Attendance'
  BY StartRunAttended, ConnectRunAttended, CancelRunAttended, WakeRunAttended, CopyRunAttended,
     BesideRunAttended DEF Run

-----------------------------------------------------------------------------
(* Nobody is forgotten: by the connection, the server and the reader.      *)

\* Once connect() has a channel nobody else has been waiting for an answer.
LEMMA ConnectAttended ==
    ASSUME ClientInv, Attendance, NEW o \in Ops, Connected(o) \/ ConnectFails(o)
    PROVE  Attendance'
  <1> USE DEF callerVars, tableVars, loopVars, readerVars, serverVars
  <1>1. /\ ready \in Seq(Callback) /\ task \in [Ops -> TaskStates] /\ task[o] = "connecting"
        /\ loop \in {"running", "stopping"}
    BY DEF ClientInv, ClientTypeOK, Connected, ConnectFails, LoopRuns
  <1>2. /\ Attended(o) /\ ConnectSound(o) /\ LinkSound /\ Kind(o) = "connect"
        /\ \A p \in Ops : task[p] = "waiting" => reader # "none"
        /\ cf \in [Ops -> {"none", "pending", "result", "error", "cancelled"}]
    BY <1>1, TaskFacts DEF Attendance, ConnectSound, ClientInv, ClientTypeOK
  <1>3. /\ reader = "none" /\ cf[o] = "pending" /\ ~Posted("copy", o) /\ o \notin progressCbs
        /\ at[o] \notin {"idle", "closing", "posting"}
    BY <1>1, <1>2 DEF ConnectSound, Attended, Settled
  <1>4. /\ UNCHANGED <<use, at, cf, progressCbs, loop, down>>
        /\ \A p \in Ops : Kind(p)' = Kind(p) /\ (p \in pending => p \in pending')
    BY DEF Connected, ConnectFails, Kind
  <1>5. PICK t \in {"waiting", "raised"} : /\ task' = [task EXCEPT ![o] = t]
                                           /\ t = "waiting" => Connected(o)
                                           /\ t = "raised" => ConnectFails(o)
    BY DEF Connected, ConnectFails
  <1>6. task'[o] = t /\ \A p \in Ops : p # o => task'[p] = task[p]
    BY <1>1, <1>5
  <1>7. \A p \in Ops : \A run : \/ Posted(run, p)' <=> Posted(run, p)
                                \/ run = "copy" /\ p = o /\ t = "raised"
    <2>1. CASE t = "waiting"
      BY <1>5, <2>1 DEF Connected, Posted
    <2>2. CASE t = "raised"
      <3>1. ready' = Append(ready, Cb("copy", o)) /\ Cb("copy", o) \in Callback
        BY <1>5, <2>2, CbFacts DEF ConnectFails, Post, Cb
      <3>2. QED
        BY <1>1, <2>2, <3>1, PostedAfter, CbSame
    <2>3. QED
      BY <2>1, <2>2
  <1>8. t = "raised" => Posted("copy", o)'
    <2>1. ASSUME t = "raised"
          PROVE ready' = Append(ready, Cb("copy", o)) /\ Cb("copy", o) \in Callback
      BY <1>5, <2>1, CbFacts DEF ConnectFails, Post, Cb
    <2>2. QED
      BY <1>1, <2>1, PostedAfter
  <1>9. Attended(o)'
    <2>1. CASE t = "waiting"
      <3>1. o \in pending' /\ Owed(o)'
        BY <1>5, <2>1 DEF Connected, Owed
      <3>2. QED
        BY <1>2, <1>3, <1>4, <1>6, <1>7, <2>1, <3>1 DEF Attended, Settled
    <2>2. CASE t = "raised"
      BY <1>2, <1>3, <1>4, <1>6, <1>8, <2>2 DEF Attended, Settled
    <2>3. QED
      BY <2>1, <2>2
  <1>10. ASSUME NEW p \in Ops, p # o PROVE Attended(p)'
    <2>1. Untouched(p)
      BY <1>2, <1>3, <1>4, <1>6, <1>7, <1>10 DEF Untouched
    <2>2. QED
      BY <2>1, UntouchedStill DEF Attendance
  <1>11. LinkSound' /\ (reader' = "none" => reader = "none" /\ t = "raised")
    BY <1>1, <1>2, <1>4, <1>5 DEF LinkSound, Connected, ConnectFails
  <1>12. ASSUME NEW p \in Ops PROVE ConnectSound(p)'
    <2>1. ConnectSound(p) /\ (Kind(p) = "connect" => p = o)
      BY <1>2 DEF Attendance, ConnectSound
    <2>2. QED
      BY <1>2, <1>3, <1>4, <1>6, <1>11, <2>1 DEF ConnectSound
  <1>13. QED
    BY <1>9, <1>10, <1>11, <1>12 DEF Attendance

\* Where calls, coroutines and the loop's queue stay as they are.
LEMMA LinkAttended ==
    ASSUME Attendance, UNCHANGED <<use, at, cf, task, pending, progressCbs, ready, reader>>,
           loop' = loop \/ (loop = "stopping" /\ loop' = "stopped"),
           (link' = "none") <=> (link = "none"),
           \A p \in Ops : task[p] = "waiting" /\ Owed(p) => Owed(p)'
    PROVE  Attendance'
  <1>1. ASSUME NEW p \in Ops PROVE Attended(p)' /\ ConnectKept(p)
    <2>1. Attended(p) /\ ConnectSound(p)
      BY DEF Attendance
    <2>2. Untouched(p)
      BY DEF Untouched, Posted, Kind
    <2>3. QED
      BY <2>1, <2>2, UntouchedStill DEF ConnectKept, ConnectSound
  <1>2. LinkSound' /\ \A p \in Ops : ConnectSound(p)'
    BY <1>1, ConnectsStill
  <1>3. QED
    BY <1>1, <1>2 DEF Attendance

LEMMA SendKeeps ==
    ASSUME down \in Seq(Packet), NEW kind \in {"result", "error", "progress"}, NEW o \in Ops,
           Send(kind, o, 0)
    PROVE  /\ Range(down) \subseteq Range(down')
           /\ kind # "progress" => Answering(o)'
  <1> DEFINE packet == [kind |-> kind, of |-> o, n |-> 0]
  <1>1. packet \in Packet /\ packet.kind = kind /\ packet.of = o
    BY DEF Packet
  <1>2. down' = Append(down, packet)
    BY DEF Send
  <1> HIDE DEF packet
  <1>3. Range(down') = Range(down) \cup {packet}
    BY <1>1, <1>2, AppendRange
  <1>4. kind # "progress" => Answering(o)'
    BY <1>1, <1>3 DEF Answering, Range
  <1>5. QED
    BY <1>3, <1>4

LEMMA ServerAttended ==
    ASSUME ClientInv, Attendance, NEW o \in Ops, Accept(o) \/ Answer(o) \/ EmitProgress(o)
    PROVE  Attendance'
  <1> USE DEF callerVars, tableVars, loopVars, readerVars, serverVars
  <1>1. /\ UNCHANGED <<use, at, cf, task, pending, progressCbs, ready, reader, link, loop>>
        /\ down \in Seq(Packet)
    BY DEF Accept, Answer, EmitProgress, ClientInv, ClientTypeOK
  <1>2. /\ Range(down) \subseteq Range(down')
        /\ \A p \in Ops : p \in up => p \in up' \/ Answering(p)'
    <2>1. CASE Accept(o)
      BY <2>1 DEF Accept
    <2>2. CASE Answer(o)
      <3>1. up' = up \ {o} /\ (Send("error", o, 0) \/ Send("result", o, 0))
        BY <2>2 DEF Answer
      <3>2. QED
        BY <1>1, <3>1, SendKeeps
    <2>3. CASE EmitProgress(o)
      BY <1>1, <2>3, SendKeeps DEF EmitProgress
    <2>4. QED
      BY <2>1, <2>2, <2>3
  <1>3. \A p \in Ops : Owed(p) => Owed(p)'
    BY <1>1, <1>2, AnsweringStill DEF Owed
  <1>4. QED
    BY <1>1, <1>3, LinkAttended

LEMMA PublishSends ==
    ASSUME ClientInv, NEW t \in Topics, Publish(t)
    PROVE  Range(down) \subseteq Range(down')
  <1> DEFINE subs == {s \in serverSubs : use[s].with = t}
             to == SetToSeq(subs)
             sent == [i \in DOMAIN to |-> [kind |-> "event", of |-> to[i], n |-> payloads']]
  <1>1. /\ down \in Seq(Packet) /\ IsFiniteSet(serverSubs) /\ serverSubs \subseteq Ops
        /\ payloads' \in Nat /\ down' = down \o sent
    BY ClientAssumption DEF ClientInv, ClientTypeOK, Finite, Publish
  <1>2. subs \subseteq Ops /\ IsFiniteSet(subs)
    BY <1>1, FS_Subset
  <1> HIDE DEF subs
  <1>3. to \in Seq(subs)
    BY <1>2, SetToSeqType
  <1> HIDE DEF to
  <1>4. Len(to) \in Nat /\ sent \in [1 .. Len(to) -> Packet]
    <2>1. Len(to) \in Nat /\ DOMAIN to = 1 .. Len(to) /\ \A i \in 1 .. Len(to) : to[i] \in Ops
      BY <1>2, <1>3
    <2>2. QED
      BY <1>1, <2>1 DEF Packet
  <1> HIDE DEF sent
  <1>5. sent \in Seq(Packet)
    BY <1>4, FunctionSeq
  <1>6. QED
    BY <1>1, <1>5, ConcatRange

LEMMA PublishAttended ==
    ASSUME ClientInv, Attendance, NEW t \in Topics, Publish(t)
    PROVE  Attendance'
  <1> USE DEF callerVars, tableVars, loopVars, readerVars
  <1>1. /\ UNCHANGED <<use, at, cf, task, pending, progressCbs, ready, reader, link, loop, up>>
        /\ down \in Seq(Packet)
    BY DEF Publish, ClientInv, ClientTypeOK
  <1>2. Range(down) \subseteq Range(down')
    BY <1>1, PublishSends
  <1>3. \A p \in Ops : Owed(p) => Owed(p)'
    BY <1>1, <1>2, AnsweringStill DEF Owed
  <1>4. QED
    BY <1>1, <1>3, LinkAttended

LEMMA EnvironmentAttended ==
    ASSUME ClientInv, Attendance, Halt \/ Deliver \/ Drop \/ LinkCloses \/ UNCHANGED vars
    PROVE  Attendance'
  <1> USE DEF callerVars, tableVars, loopVars, readerVars, serverVars
  <1>1. UNCHANGED <<use, at, cf, task, pending, progressCbs, ready, reader>>
    BY DEF Halt, Deliver, Drop, LinkCloses, vars
  <1>2. loop' = loop \/ (loop = "stopping" /\ loop' = "stopped")
    BY DEF Halt, Deliver, Drop, LinkCloses, vars
  <1>3. \/ UNCHANGED <<link, up, down>>
        \/ link \in {"up", "closing"} /\ link' \in {"lost", "closed"}
    BY DEF Halt, Deliver, Drop, LinkCloses, vars
  <1>4. \A p \in Ops : Owed(p) => Owed(p)'
    BY <1>1, <1>3, OwedStill DEF Owed
  <1>5. (link' = "none") <=> (link = "none")
    BY <1>3
  <1>6. QED
    BY <1>1, <1>2, <1>4, <1>5, LinkAttended

\* What the reader takes is an answer to its own call only.
LEMMA HeadAnswers ==
    ASSUME down \in Seq(Packet), down # <<>>, down' = Tail(down), NEW o, Answering(o)
    PROVE  Answering(o)' \/ (Head(down).kind \in {"result", "error"} /\ Head(down).of = o)
  <1>1. Range(down) = Range(down') \cup {Head(down)}
    BY HeadRange
  <1>2. PICK p \in Range(down) : p.kind \in {"result", "error"} /\ p.of = o
    BY DEF Answering, Range
  <1>3. CASE p \in Range(down')
    BY <1>2, <1>3 DEF Answering, Range
  <1>4. CASE p = Head(down)
    BY <1>2, <1>4
  <1>5. QED
    BY <1>1, <1>3, <1>4

LEMMA ReadAttended ==
    ASSUME ClientInv, Attendance, Read
    PROVE  Attendance'
  <1> USE DEF callerVars, tableVars, loopVars, readerVars, serverVars
  <1> DEFINE p == Head(down)
  <1>1. /\ down \in Seq(Packet) /\ ready \in Seq(Callback) /\ task \in [Ops -> TaskStates]
        /\ down # <<>> /\ down' = Tail(down) /\ loop \in {"running", "stopping"}
        /\ UNCHANGED <<use, at, cf, pending, progressCbs, loop, reader, link, up>>
    BY DEF Read, ClientInv, ClientTypeOK, LoopRuns
  <1>2. p \in Packet /\ p.of \in Ops
    <2>1. p \in Packet
      BY <1>1, HeadRange
    <2>2. QED
      BY <2>1 DEF Packet
  <1>3. ASSUME NEW o \in Ops, Owed(o) PROVE Owed(o)' \/ (p.kind \in {"result", "error"} /\ p.of = o)
    BY <1>1, <1>3, HeadAnswers DEF Owed
  <1>4. ReadAnswer(p) \/ ReadNotification(p)
    BY DEF Read
  <1> HIDE DEF p
  <1>5. CASE p.kind \in {"result", "error"} /\ task[p.of] = "waiting"
    <2>1. PICK who \in Ops : who = p.of
      BY <1>2
    <2>2. /\ who \in pending /\ Attended(who) /\ p.kind \in {"result", "error"}
          /\ task[who] = "waiting"
      BY <1>5, <2>1 DEF Attendance, Attended
    <2>3. task' = [task EXCEPT ![who] = p.kind] /\ ready' = Append(ready, Cb("wake", who))
      BY <1>4, <2>1, <2>2 DEF ReadAnswer, ReadNotification, Post, Cb
    <2>4. task'[who] = p.kind /\ \A o \in Ops : o # who => task'[o] = task[o]
      BY <1>1, <2>3
    <2>5. \A o \in Ops : \A run : Posted(run, o)' <=> (Posted(run, o) \/ (run = "wake" /\ o = who))
      <3>1. Cb("wake", who) \in Callback
        BY CbFacts
      <3>2. QED
        BY <1>1, <2>3, <3>1, PostedAfter, CbSame
    <2>6. Kind(who)' = Kind(who)
      BY <1>1 DEF Kind
    <2>7. Attended(who)'
      BY <1>1, <2>2, <2>4, <2>5, <2>6 DEF Attended, Settled
    <2>8. ASSUME NEW o \in Ops, o # who PROVE Attended(o)'
      <3>1. Untouched(o)
        BY <1>1, <1>3, <2>1, <2>4, <2>5, <2>8 DEF Untouched, Kind
      <3>2. QED
        BY <3>1, UntouchedStill DEF Attendance
    <2>9. ASSUME NEW o \in Ops PROVE ConnectKept(o)
      BY <1>1, <2>2, <2>4 DEF ConnectKept
    <2>10. LinkSound' /\ \A o \in Ops : ConnectSound(o)'
      BY <1>1, <2>9, ConnectsStill
    <2>11. QED
      BY <2>7, <2>8, <2>10 DEF Attendance
  <1>6. CASE ~(p.kind \in {"result", "error"} /\ task[p.of] = "waiting")
    <2>1. UNCHANGED <<task, ready>>
      BY <1>4, <1>6 DEF ReadAnswer, ReadNotification
    <2>2. \A o \in Ops : task[o] = "waiting" /\ Owed(o) => Owed(o)'
      BY <1>3, <1>6
    <2>3. QED
      BY <1>1, <2>1, <2>2, LinkAttended
  <1>7. QED
    BY <1>5, <1>6

\* _fail_pending() leaves out nobody that waits.
LEMMA ReadEndAttended ==
    ASSUME ClientInv, Attendance, ReadEnd
    PROVE  Attendance'
  <1> USE DEF callerVars, tableVars, loopVars, readerVars, serverVars
  <1> DEFINE left == {o \in pending : task[o] = "waiting"}
             woken == Each("wake", left)
             after == Each("reaped", teardowns)
  <1>1. /\ ready \in Seq(Callback) /\ task \in [Ops -> TaskStates] /\ pending \subseteq Ops
        /\ IsFiniteSet(pending) /\ loop \in {"running", "stopping"}
        /\ teardowns \subseteq Ops /\ IsFiniteSet(teardowns)
    BY DEF ClientInv, ClientTypeOK, Finite, ReadEnd, LoopRuns
  <1>2. /\ task' = [o \in Ops |-> IF o \in left THEN "error" ELSE task[o]]
        /\ ready' = ready \o woken \o after
        /\ reader = "reading" /\ reader' = "ended" /\ (link = "lost" \/ link = "closed")
        /\ UNCHANGED <<use, at, cf, progressCbs, loop, link>>
    BY DEF ReadEnd, FailPending
  <1>3. left \subseteq Ops /\ IsFiniteSet(left) /\ \A o \in left : task[o] = "waiting"
    BY <1>1, FS_Subset
  <1>4. \A o \in Ops : task[o] = "waiting" => o \in left
    BY DEF Attendance, Attended
  <1> HIDE DEF left
  <1>5. /\ woken \in Seq(Callback)
        /\ \A r \in Range(woken) : r.run = "wake" /\ r.of \in left
        /\ \A o \in left : Cb("wake", o) \in Range(woken)
    BY <1>3, EachFacts
  <1>6. after \in Seq(Callback) /\ \A r \in Range(after) : r.run = "reaped"
    BY <1>1, EachFacts
  <1> HIDE DEF woken, after
  <1>7. Range(ready') = Range(ready) \cup Range(woken) \cup Range(after)
    <2>1. ready \o woken \in Seq(Callback) /\ Range(ready \o woken) = Range(ready) \cup Range(woken)
      BY <1>1, <1>5, ConcatRange
    <2>2. \A q \in Seq(Callback) : Range(q \o after) = Range(q) \cup Range(after)
      BY <1>6, ConcatRange
    <2>3. QED
      BY <1>2, <2>1, <2>2
  <1>8. \A o \in Ops : \A run \in WakeRuns :
           Posted(run, o)' <=> (Posted(run, o) \/ (run = "wake" /\ o \in left))
    <2>1. \A o, run : Cb(run, o).run = run /\ Cb(run, o).of = o
      BY CbFacts
    <2>2. ASSUME NEW o \in Ops, NEW run \in WakeRuns
          PROVE  /\ Cb(run, o) \in Range(woken) <=> run = "wake" /\ o \in left
                 /\ Cb(run, o) \notin Range(after)
      BY <1>5, <1>6, <2>1 DEF WakeRuns
    <2>3. QED
      BY <1>7, <2>2 DEF Posted
  <1>9. \A o \in Ops : /\ task'[o] = IF o \in left THEN "error" ELSE task[o]
                       /\ Kind(o)' = Kind(o)
    BY <1>2 DEF Kind
  <1>10. ASSUME NEW o \in Ops PROVE Attended(o)'
    <2>1. Attended(o) /\ (o \in left <=> task[o] = "waiting")
      BY <1>3, <1>4 DEF Attendance
    <2>2. \A run \in {"start", "copy"} : Posted(run, o)' <=> Posted(run, o)
      BY <1>8 DEF WakeRuns
    <2>3. Posted("wake", o)' <=> (Posted("wake", o) \/ o \in left)
      BY <1>8 DEF WakeRuns
    <2>4. QED
      BY <1>2, <1>9, <2>1, <2>2, <2>3 DEF Attended, Settled
  <1>11. LinkSound'
    BY <1>1, <1>2 DEF LinkSound
  <1>12. ASSUME NEW o \in Ops PROVE ConnectSound(o)'
    <2>1. ConnectSound(o) /\ (o \in left <=> task[o] = "waiting")
      BY <1>3, <1>4 DEF Attendance
    <2>2. \A p \in Ops : Kind(p)' = Kind(p)
      BY <1>9
    <2>3. task'[o] = "waiting" \/ task'[o] \in {"none", "connecting"} => task'[o] = task[o]
      BY <1>9
    <2>4. QED
      BY <1>2, <2>1, <2>2, <2>3 DEF ConnectSound
  <1>13. QED
    BY <1>10, <1>11, <1>12 DEF Attendance

-----------------------------------------------------------------------------
(* The theorems.                                                           *)

LEMMA ClientInitSound == ClientInit => ClientInv
  <1> SUFFICES ASSUME ClientInit PROVE ClientInv
    OBVIOUS
  <1> USE DEF ClientInit
  <1>1. Range(<<>>) = {} /\ Ordered(<<>>, Apart)
    BY DEF Range, Ordered
  <1>2. \A o \in Ops : use[o] = None /\ at[o] = "idle" /\ task[o] = "none" /\ Kind(o) = "none"
    BY DEF Kind
  <1>3. /\ <<>> \in Seq(Callback) /\ <<>> \in Seq(Packet)
        /\ <<>> \in Seq([to : Ops \cup {None}, n : Nat])
    OBVIOUS
  <1>4. ClientTypeOK
    <2>1. /\ use \in [Ops -> Use \cup {None}] /\ at \in [Ops -> Stages]
          /\ outcome \in [Ops -> {None, "RESULT", "ERROR", "TIMEOUT", "RAW_TIMEOUT", "CLOSED"}]
          /\ cf \in [Ops -> {"none", "pending", "result", "error", "cancelled"}]
          /\ task \in [Ops -> TaskStates]
      BY DEF Stages, TaskStates
    <2>2. /\ loop \in {"new", "running", "stopping", "stopped", "closed"}
          /\ reader \in {"none", "reading", "ended"}
          /\ link \in {"none", "up", "lost", "closing", "closed"}
          /\ payloads \in 0 .. MaxPayloads
      BY ClientAssumption
    <2>3. ready \in Seq(Callback) /\ down \in Seq(Packet)
          /\ backchannel \in Seq([to : Ops \cup {None}, n : Nat])
      BY <1>3
    <2>4. QED
      BY <2>1, <2>2, <2>3 DEF ClientTypeOK
  <1>5. Finite
    BY FS_EmptySet DEF Finite
  <1>6. QueueSound /\ EventsSound
    BY <1>1 DEF QueueSound, EventsSound
  <1>7. CallsSound /\ SubsSound
    BY <1>2 DEF CallsSound, CallSound, SubsSound, SubSound
  <1>8. QED
    BY <1>4, <1>5, <1>6, <1>7 DEF ClientInv

LEMMA ClientStutters == ClientInv /\ UNCHANGED vars => ClientInv'
  <1> SUFFICES ASSUME ClientInv, UNCHANGED vars PROVE ClientInv'
    OBVIOUS
  <1>1. ClientTypeOK /\ IsFiniteSet(serverSubs)
    BY DEF ClientInv, Finite
  <1>2. QED
    BY <1>1, OthersKeep
       DEF vars, callerVars, tableVars, loopVars, readerVars, serverVars, ClientTypeOK

LEMMA ClientInvariant == ClientSpec => []ClientInv
  <1>1. ClientInv /\ [ClientNext]_vars => ClientInv'
    <2> SUFFICES ASSUME ClientInv, [ClientNext]_vars PROVE ClientInv'
      OBVIOUS
    <2>1. ASSUME NEW o \in Ops, NEW u \in Wanted(o), Begin(o, u) PROVE ClientInv'
      BY <2>1, BeginSafe
    <2>2. ASSUME NEW o \in Ops, Caller(o) PROVE ClientInv'
      BY <2>2, CallerSafe
    <2>3. ASSUME NEW o \in Ops, Run(o) PROVE ClientInv'
      BY <2>3, RunSafe
    <2>4. ASSUME NEW o \in Ops, Connected(o) \/ ConnectFails(o) PROVE ClientInv'
      BY <2>4, ConnectSafe
    <2>5. ASSUME NEW o \in Ops, Accept(o) \/ Answer(o) \/ EmitProgress(o) PROVE ClientInv'
      BY <2>5, ServerSafe
    <2>6. CASE Halt \/ Deliver \/ Drop \/ LinkCloses
      BY <2>6, EnvironmentSafe
    <2>7. CASE Read
      BY <2>7, ReadSafe
    <2>8. CASE ReadEnd
      BY <2>8, ReadEndSafe
    <2>9. ASSUME NEW t \in Topics, Publish(t) PROVE ClientInv'
      BY <2>9, PublishSafe
    <2>10. CASE UNCHANGED vars
      BY <2>10, ClientStutters
    <2>11. QED
      BY <2>1, <2>2, <2>3, <2>4, <2>5, <2>6, <2>7, <2>8, <2>9, <2>10 DEF ClientNext
  <1>2. QED
    BY <1>1, ClientInitSound, PTL DEF ClientSpec

LEMMA AttendanceInit == ClientInit => Attendance
  <1> SUFFICES ASSUME ClientInit PROVE Attendance
    OBVIOUS
  <1>1. /\ \A o \in Ops : /\ use[o] = None /\ at[o] = "idle" /\ task[o] = "none" /\ cf[o] = "none"
                          /\ Kind(o) = "none"
        /\ progressCbs = {} /\ ready = <<>>
        /\ (reader = "none" <=> link = "none") /\ (loop = "new" => reader = "none")
    BY DEF ClientInit, Kind
  <1>2. Range(<<>>) = {}
    BY DEF Range
  <1>3. QED
    BY <1>1, <1>2 DEF Attendance, LinkSound, Attended, ConnectSound, Posted, Settled

LEMMA AttendanceInvariant == ClientSpec => [](ClientInv /\ Attendance)
  <1>1. ClientInv /\ Attendance /\ [ClientNext]_vars => Attendance'
    <2> SUFFICES ASSUME ClientInv, Attendance, [ClientNext]_vars PROVE Attendance'
      OBVIOUS
    <2>1. ASSUME NEW o \in Ops, NEW u \in Wanted(o), Begin(o, u) PROVE Attendance'
      BY <2>1, BeginAttended
    <2>2. ASSUME NEW o \in Ops, Caller(o) PROVE Attendance'
      BY <2>2, CallerAttended
    <2>3. ASSUME NEW o \in Ops, Run(o) PROVE Attendance'
      BY <2>3, RunAttended
    <2>4. ASSUME NEW o \in Ops, Connected(o) \/ ConnectFails(o) PROVE Attendance'
      BY <2>4, ConnectAttended
    <2>5. ASSUME NEW o \in Ops, Accept(o) \/ Answer(o) \/ EmitProgress(o) PROVE Attendance'
      BY <2>5, ServerAttended
    <2>6. CASE Halt \/ Deliver \/ Drop \/ LinkCloses \/ UNCHANGED vars
      BY <2>6, EnvironmentAttended
    <2>7. CASE Read
      BY <2>7, ReadAttended
    <2>8. CASE ReadEnd
      BY <2>8, ReadEndAttended
    <2>9. ASSUME NEW t \in Topics, Publish(t) PROVE Attendance'
      BY <2>9, PublishAttended
    <2>10. QED
      BY <2>1, <2>2, <2>3, <2>4, <2>5, <2>6, <2>7, <2>8, <2>9 DEF ClientNext
  <1>2. QED
    BY <1>1, AttendanceInit, ClientInvariant, PTL DEF ClientSpec

\* The client's tables hold what they are for, whatever threads, time-outs, the reader and
\* close() do to one another: no future is left in _pending by a coroutine that has ended.
THEOREM ClientTypeCorrect == ClientSpec => []ClientTypeOK
  <1>1. ClientInv => ClientTypeOK
    BY DEF ClientInv
  <1>2. QED
    BY <1>1, ClientInvariant, PTL

\* _do_subscribe() lists the callback before it sends: an event the client is to read finds
\* its callback, unless the application has unsubscribed or given the subscribe up.
THEOREM EventsCallback == ClientSpec => []EventsHaveCallback
  <1>1. ClientInv => EventsHaveCallback
    <2> SUFFICES ASSUME ClientInv, NEW i \in DOMAIN down, down[i].kind = "event",
                        use[down[i].of].callback, ~Unsubscribed(down[i].of),
                        task[down[i].of] \notin {"cancelled", "raised"}
                 PROVE  down[i].of \in subCbs
      BY DEF EventsHaveCallback
    <2> DEFINE s == down[i].of
    <2>1. down \in Seq(Packet) /\ task \in [Ops -> TaskStates]
      BY DEF ClientInv, ClientTypeOK
    <2>2. down[i] \in Packet /\ down[i] \in Range(down)
      BY <2>1 DEF Range
    <2>3. s \in Ops /\ Kind(s) = "subscribe" /\ task[s] # "none"
      BY <2>2 DEF Packet, ClientInv, EventsSound
    <2>4. task[s] # "connecting"
      BY <2>3, TaskFacts
    <2>5. task[s] \in Started
      BY <2>1, <2>3, <2>4 DEF TaskStates, Started
    <2>6. SubSound(s)
      BY <2>3 DEF ClientInv, SubsSound
    <2>7. QED
      BY <2>3, <2>5, <2>6 DEF SubSound
  <1>2. QED
    BY <1>1, ClientInvariant, PTL

LEMMA PostedComes ==
    ASSUME NEW run, NEW runs, run \in runs, NEW o, Posted(run, o)
    PROVE  Coming(runs, o)
  BY DEF Posted, Coming, Range, Cb

\* No wake-up is lost: in whatever order callers, time-outs, the reader and close() come, a
\* caller that waits has a callback on the loop, waits for its connection, or for an answer
\* that is owed to it or that the end of the reader stands for.
THEOREM CallersAttended == ClientSpec => []NobodyForgotten
  <1>1. ClientInv /\ Attendance => NobodyForgotten
    <2> SUFFICES ASSUME ClientInv, Attendance, NEW o \in Ops, at[o] = "waiting", cf[o] = "pending"
                 PROVE  \/ Coming({"start", "wake", "copy"}, o) \/ task[o] = "connecting"
                        \/ /\ task[o] = "waiting" /\ o \in pending
                           /\ reader # "reading" \/ link # "up" \/ o \in up \/ Answering(o)
      BY DEF NobodyForgotten
    <2>1. Attended(o) /\ task[o] \in TaskStates
      BY DEF Attendance, ClientInv, ClientTypeOK
    <2>2. CASE task[o] = "waiting"
      BY <2>1, <2>2 DEF Attended, Owed
    <2>3. CASE task[o] = "none"
      BY <2>1, <2>3, PostedComes DEF Attended
    <2>4. CASE task[o] \in Settled
      BY <2>1, <2>4, PostedComes DEF Attended
    <2>5. CASE task[o] \in {"returned", "raised"}
      BY <2>1, <2>5, PostedComes DEF Attended
    <2>6. QED
      BY <2>1, <2>2, <2>3, <2>4, <2>5 DEF TaskStates, Settled
  <1>2. QED
    BY <1>1, AttendanceInvariant, PTL

\* What a call that is over has left in _pending or _progress_callbacks is taken away by a
\* callback that waits on the loop, unless connect() or close() gave it up.
THEOREM LeftoversTaken == ClientSpec => []LeftoversOnTheirWay
  <1>1. ClientInv /\ Attendance => LeftoversOnTheirWay
    <2> SUFFICES ASSUME ClientInv, Attendance, LoopRuns, NEW o \in pending \cup progressCbs,
                        at[o] = "ended", Kind(o) \notin {"connect", "close"}
                 PROVE  Coming({"cancel", "wake"}, o)
      BY DEF LeftoversOnTheirWay
    <2>1. /\ o \in Ops /\ cf[o] \in {"none", "pending", "result", "error", "cancelled"}
          /\ o \in pending => task[o] \in {"waiting", "result", "error", "cancelled"}
      BY DEF ClientInv, ClientTypeOK
    <2>2. Attended(o) /\ task[o] \in {"waiting"} \cup Settled
      BY <2>1 DEF Attendance, Attended, Settled
    <2>3. CASE task[o] = "waiting"
      <3>1. cf[o] = "cancelled" /\ loop # "closed"
        BY <2>1, <2>2, <2>3 DEF Attended, LoopRuns
      <3>2. QED
        BY <2>2, <2>3, <3>1, PostedComes DEF Attended
    <2>4. CASE task[o] \in Settled
      BY <2>2, <2>4, PostedComes DEF Attended
    <2>5. QED
      BY <2>2, <2>3, <2>4
  <1>2. QED
    BY <1>1, AttendanceInvariant, PTL

=============================================================================
