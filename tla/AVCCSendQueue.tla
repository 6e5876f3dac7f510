---------------------------- MODULE AVCCSendQueue ----------------------------
(***************************************************************************)
(* The bounded, coalescing outbound queue of one H.264 viewer              *)
(* (AVCCSendQueue.swift), as operators on a queue record.  The caller      *)
(* (AVCCClient) holds its condition lock around every call, so each        *)
(* operator is one atomic step of whoever uses it.                         *)
(*                                                                         *)
(* A chunk carries what the reference chain depends on, not its bytes:     *)
(*   kind     what may be discarded,                                       *)
(*   session  the encoder session (decoder configuration) it belongs to,   *)
(*   ref      the reference frame it is (keyframe, delta) or builds on     *)
(*            (disposableDelta); 0 for chunks that are not video,          *)
(*   size     its byte count.                                              *)
(*                                                                         *)
(* The write timings and drop counters, which only feed the statistics     *)
(* panel, are left out; the high-water sample is kept because the bitrate  *)
(* controller acts on it.                                                  *)
(***************************************************************************)
EXTENDS Integers, Sequences

CONSTANTS
    Limit,      \* highWaterBytes: the admission threshold of the queue
    MaxChunk    \* the largest chunk the encoder produces

ASSUME QueueAssumption == Limit \in Nat /\ MaxChunk \in Nat \ {0}

VideoKind == {"keyframe", "delta", "disposableDelta"}
Kind      == VideoKind \cup {"description", "seed", "heartbeat"}

Chunk == [kind : Kind, session : Nat, ref : Nat, size : 1 .. MaxChunk]

\* The absent optional: pendingDescription, or the in-flight slot, is nil.
NoChunk == [kind |-> "none", session |-> 0, ref |-> 0, size |-> 0]

IsVideo(c)     == c.kind \in VideoKind
IsReference(c) == c.kind \in {"keyframe", "delta"}

Queue == [pending            : Seq(Chunk),
          description        : Chunk \cup {NoChunk},
          queuedBytes        : Int,
          inFlightBytes      : Nat,
          needKeyframe       : BOOLEAN,
          sampleHighWater    : Int]

EmptyQueue == [pending            |-> <<>>,
               description        |-> NoChunk,
               queuedBytes        |-> 0,
               inFlightBytes      |-> 0,
               needKeyframe       |-> FALSE,
               sampleHighWater    |-> 0]

IsEmpty(q)  == q.pending = <<>> /\ q.description = NoChunk
Pressure(q) == q.queuedBytes + q.inFlightBytes
Fits(q, c, limit) == Pressure(q) + c.size <= limit

-----------------------------------------------------------------------------
(* Private helpers: updateHighWater, append, discardPending.               *)

\* The pending chunks and their byte count always change together.
WithPending(q, chunks, bytes) ==
    [q EXCEPT !.pending = chunks, !.queuedBytes = bytes]

UpdateHighWater(q) ==
    [q EXCEPT !.sampleHighWater =
        IF Pressure(q) > @ THEN Pressure(q) ELSE @]

AppendChunk(q, c) ==
    UpdateHighWater(WithPending(q, Append(q.pending, c), q.queuedBytes + c.size))

\* Mutant: discardPending forgets to reset the byte count.
DiscardKeepsBytes(q) == WithPending(q, <<>>, q.queuedBytes)

DiscardPending(q) == WithPending(q, <<>>, 0)

-----------------------------------------------------------------------------
(* enqueue, one operator per case of its switch.                           *)

EnqueueKeyframe(q, c) ==
    LET base == IF q.needKeyframe \/ ~Fits(q, c, Limit)
                THEN DiscardPending(q) ELSE q
    IN  AppendChunk([base EXCEPT !.needKeyframe = FALSE], c)

EnqueueDescription(q, c) ==
    LET base == IF \E i \in DOMAIN q.pending : IsVideo(q.pending[i])
                THEN DiscardPending(q) ELSE q
    IN  [base EXCEPT !.description = c, !.needKeyframe = TRUE]

\* Mutant: only the byte limit is checked, so a delta follows a gap.
AdmitAnyDelta(q, c) == Fits(q, c, Limit)

\* Mutant: the limit is compared before the chunk is added.
AdmitBeforeAdding(q, c) ==
    /\ c.kind = "seed" \/ ~q.needKeyframe
    /\ Pressure(q) <= Limit

AdmitsDelta(q, c) ==
    /\ c.kind = "seed" \/ ~q.needKeyframe
    /\ Fits(q, c, Limit)

\* Mutant: a refused delta leaves the gate open.
RefuseQuietly(q, c) == IF AdmitsDelta(q, c) THEN AppendChunk(q, c) ELSE q

EnqueueDelta(q, c) ==
    IF AdmitsDelta(q, c)
    THEN AppendChunk(q, c)
    ELSE [q EXCEPT !.needKeyframe = TRUE]

EnqueueHeartbeat(q, c) ==
    IF Fits(q, c, Limit) THEN AppendChunk(q, c) ELSE q

AdmitsDisposable(q, c) == ~q.needKeyframe /\ Fits(q, c, Limit \div 2)

EnqueueDisposable(q, c) ==
    IF AdmitsDisposable(q, c) THEN AppendChunk(q, c) ELSE q

Enqueue(q, c) ==
    CASE c.kind = "keyframe"             -> EnqueueKeyframe(q, c)
      [] c.kind = "description"          -> EnqueueDescription(q, c)
      [] c.kind \in {"delta", "seed"}    -> EnqueueDelta(q, c)
      [] c.kind = "heartbeat"            -> EnqueueHeartbeat(q, c)
      [] c.kind = "disposableDelta"      -> EnqueueDisposable(q, c)

\* The Admission enqueue returns: what the caller signals or requests upon.
Admission(q, c) ==
    CASE c.kind \in {"keyframe", "description"} -> "enqueued"
      [] c.kind \in {"delta", "seed"} ->
            IF AdmitsDelta(q, c) THEN "enqueued"
            ELSE IF q.needKeyframe THEN "dropped" ELSE "droppedNeedsKeyframe"
      [] c.kind = "heartbeat" ->
            IF Fits(q, c, Limit) THEN "enqueued" ELSE "dropped"
      [] c.kind = "disposableDelta" ->
            IF AdmitsDisposable(q, c) THEN "enqueued" ELSE "dropped"

-----------------------------------------------------------------------------
(* The writer's side: beginNextWrite, completeWrite; and clear.            *)

NextChunk(q) ==
    IF q.description # NoChunk THEN q.description ELSE Head(q.pending)

\* Called only on a queue that is not empty.
BeginNextWrite(q) ==
    LET rest == IF NextChunk(q) = q.description
                THEN [q EXCEPT !.description = NoChunk]
                ELSE WithPending(q, Tail(q.pending),
                                 q.queuedBytes - NextChunk(q).size)
    IN  UpdateHighWater([rest EXCEPT !.inFlightBytes = NextChunk(q).size])

CompleteWrite(q) == [q EXCEPT !.inFlightBytes = 0]

\* sampleHighWater: what the adaptive controller reads, and the restart.
SampleQueue(q) == [q EXCEPT !.sampleHighWater = Pressure(q)]

\* clear: everything but the sample is reset.
Clear(q) == [EmptyQueue EXCEPT !.sampleHighWater = q.sampleHighWater]
=============================================================================
