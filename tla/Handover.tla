------------------------------ MODULE Handover ------------------------------
(***************************************************************************)
(* One direction of a connection whose two ends change hands: framing owns *)
(* both, lends them to a pair of callbacks for one stream, and gets them   *)
(* back.  The consumer's end goes first, in both directions, so that the   *)
(* producer's callback never writes to an end that framing still reads.    *)
(*                                                                         *)
(* No hand-shake, no gate, no pause, no buffer: Transfer implements this   *)
(* with all four (Transfer!ImplementsHandover).                            *)
(***************************************************************************)
EXTENDS Naturals, Sequences, SequencesExt

CONSTANTS Frames, MaxChunks

VARIABLES
    producer,   \* who writes: "framing", "callback", or "nobody" ever again
    consumer,   \* who reads
    wire,       \* what is written and not read
    left        \* chunks the stream still has

vars == <<producer, consumer, wire, left>>

Init == producer = "framing" /\ consumer = "framing" /\ wire = <<>> /\ left = MaxChunks

\* No frame goes to a consumer's callback, except behind the whole stream.
SendFrame ==
    /\ producer = "framing"
    /\ consumer = "framing" \/ left = 0
    /\ \E f \in Frames : wire' = Append(wire, f)
    /\ UNCHANGED <<producer, consumer, left>>

ReadFrame ==
    /\ consumer = "framing"
    /\ wire # <<>> /\ Head(wire) \in Frames
    /\ wire' = Tail(wire)
    /\ UNCHANGED <<producer, consumer, left>>

ConsumerTakes ==
    /\ producer = "framing" /\ consumer = "framing"
    /\ wire = <<>> /\ left = MaxChunks
    /\ consumer' = "callback"
    /\ UNCHANGED <<producer, wire, left>>

ProducerTakes ==
    /\ producer = "framing" /\ consumer = "callback"
    /\ wire = <<>> /\ left = MaxChunks
    /\ producer' = "callback"
    /\ UNCHANGED <<consumer, wire, left>>

WriteChunk ==
    /\ producer = "callback" /\ left > 0
    /\ wire' = Append(wire, "raw") /\ left' = left - 1
    /\ UNCHANGED <<producer, consumer>>

ReadChunk ==
    /\ consumer = "callback"
    /\ wire # <<>> /\ Head(wire) = "raw"
    /\ wire' = Tail(wire)
    /\ UNCHANGED <<producer, consumer, left>>

ProducerReturns ==
    /\ producer = "callback" /\ left = 0
    /\ producer' = "framing"
    /\ UNCHANGED <<consumer, wire, left>>

ConsumerReturns ==
    /\ consumer = "callback" /\ left = 0 /\ ~Contains(wire, "raw")
    /\ consumer' = "framing"
    /\ UNCHANGED <<producer, wire, left>>

\* The connection goes, or one side goes on with a transfer the other has given up.
Lose ==
    /\ producer' = "nobody" /\ consumer' = "nobody"
    /\ wire' = <<>> /\ left' = 0

Next ==
    \/ SendFrame \/ ReadFrame \/ WriteChunk \/ ReadChunk
    \/ ConsumerTakes \/ ProducerTakes \/ ProducerReturns \/ ConsumerReturns
    \/ Lose

Spec == Init /\ [][Next]_vars
=============================================================================
