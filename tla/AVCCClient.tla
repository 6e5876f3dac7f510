----------------------------- MODULE AVCCClient -----------------------------
(***************************************************************************)
(* One viewer of the H.264 stream, end to end: the chunks the encoder and  *)
(* the client manager hand to AVCCClient.enqueue, the bounded queue, the   *)
(* connection thread that drains it (AVCCClient.drain), close(), and the   *)
(* decoder state of the browser at the far end of the socket.              *)
(*                                                                         *)
(* Threads: the client manager's serial queue runs every enqueue in the    *)
(* order the encoder emitted the chunks; the HTTP connection thread runs   *)
(* drain; close() comes from the manager's stop() or from the writer after *)
(* a failed write.  Every critical section of the condition lock is one    *)
(* action; the write itself happens between two of them.                   *)
(***************************************************************************)
EXTENDS AVCCSendQueue

CONSTANTS
    Sizes,        \* Sizes[k]: the byte counts a chunk of kind k may have
    MaxRef,       \* bound: reference frames the encoder produces
    MaxSession    \* bound: encoder sessions (resize, color, fallback)

ASSUME ClientAssumption ==
    /\ Sizes \in [Kind -> SUBSET (1 .. MaxChunk)]
    /\ MaxRef \in Nat
    /\ MaxSession \in Nat

VARIABLES
    queue,      \* AVCCClient.sendQueue
    closed,     \* AVCCClient.closed
    writer,     \* where the connection thread is in drain
    inFlight,   \* the chunk drain holds between the two critical sections
    requested,  \* a keyframe was asked for and none was broadcast since
    greeting,   \* sendInitialAvcc's block is between the seed and the description
    greeted,    \* sendInitialAvcc ran for this client
    source,     \* the encoder: session, last reference frame, IDR due
    decoder     \* the browser: configured session, last reference decoded,
                \* and the keyframe its chain started at

vars == <<queue, closed, writer, inFlight, requested, greeting, greeted, source, decoder>>

\* The decoder of a fresh connection: not configured, nothing decoded.
NoDecoder == [session |-> 0, ref |-> 0, base |-> 0]

WriterState == {"ready", "asleep", "writing", "failed", "returned"}

TypeOK ==
    /\ queue \in Queue
    /\ closed \in BOOLEAN
    /\ writer \in WriterState
    /\ inFlight \in Chunk \cup {NoChunk}
    /\ requested \in BOOLEAN
    /\ greeting \in BOOLEAN
    /\ greeted \in BOOLEAN
    /\ source \in [session : Nat, ref : Nat, idrDue : BOOLEAN]
    /\ decoder \in [session : Nat, ref : Nat, base : Nat]

\* A viewer joins at any point of the encoder's life: before the first
\* session, between a description and its keyframe, or mid-stream.
Init ==
    /\ queue = EmptyQueue
    /\ closed = FALSE
    /\ writer = "ready"
    /\ inFlight = NoChunk
    /\ requested = FALSE
    /\ greeting = FALSE
    /\ greeted = FALSE
    /\ source \in {[session |-> 0, ref |-> 0, idrDue |-> FALSE],
                   [session |-> 1, ref |-> 0, idrDue |-> TRUE],
                   [session |-> 1, ref |-> 1, idrDue |-> FALSE]}
    /\ decoder = NoDecoder

-----------------------------------------------------------------------------
(* AVCCClient.enqueue: the queue's admission, then signal or request.      *)

\* Mutant: only video wakes the writer.
WakeForVideoOnly(c) ==
    IF Admission(queue, c) = "enqueued" /\ IsVideo(c) /\ writer = "asleep"
    THEN "ready" ELSE writer

\* cond.signal() after an admitted chunk.
WakeOnEnqueue(c) ==
    IF Admission(queue, c) = "enqueued" /\ writer = "asleep"
    THEN "ready" ELSE writer

\* Mutant: a drop that closes the gate asks for nothing.
RequestNever(c) == requested

\* onNeedKeyframe, run asynchronously after the lock is released.
RequestAfter(c) ==
    requested \/ Admission(queue, c) = "droppedNeedsKeyframe"

EnqueueChunk(c) ==
    IF closed
    THEN UNCHANGED <<queue, writer, requested>>
    ELSE /\ queue' = Enqueue(queue, c)
         /\ writer' = WakeOnEnqueue(c)
         /\ requested' = IF c.kind = "keyframe" THEN FALSE ELSE RequestAfter(c)

ChunkOf(kind, session, ref, size) ==
    [kind |-> kind, session |-> session, ref |-> ref, size |-> size]

-----------------------------------------------------------------------------
(* The encoder's output, as onEncoded broadcasts it: blocks of the client   *)
(* manager's serial queue, none of which runs inside sendInitialAvcc's.     *)

\* A rebuilt session emits its description once, with its first keyframe.
NewSession(size) ==
    /\ ~greeting
    /\ source.session < MaxSession
    /\ ~source.idrDue
    /\ source' = [source EXCEPT !.session = @ + 1, !.idrDue = TRUE]
    /\ EnqueueChunk(ChunkOf("description", source.session + 1, 0, size))
    /\ UNCHANGED <<closed, inFlight, greeting, greeted, decoder>>

EmitKeyframe(size) ==
    /\ ~greeting
    /\ source.session > 0
    /\ source.ref < MaxRef
    /\ source' = [source EXCEPT !.ref = @ + 1, !.idrDue = FALSE]
    /\ EnqueueChunk(ChunkOf("keyframe", source.session, source.ref + 1, size))
    /\ UNCHANGED <<closed, inFlight, greeting, greeted, decoder>>

EmitDelta(size) ==
    /\ ~greeting
    /\ source.session > 0
    /\ ~source.idrDue
    /\ source.ref < MaxRef
    /\ source' = [source EXCEPT !.ref = @ + 1]
    /\ EnqueueChunk(ChunkOf("delta", source.session, source.ref + 1, size))
    /\ UNCHANGED <<closed, inFlight, greeting, greeted, decoder>>

EmitDisposable(size) ==
    /\ ~greeting
    /\ source.session > 0
    /\ ~source.idrDue
    /\ source' = source
    /\ EnqueueChunk(ChunkOf("disposableDelta", source.session, source.ref, size))
    /\ UNCHANGED <<closed, inFlight, greeting, greeted, decoder>>

\* main.swift's onIdle, once a second while nothing is captured.
EmitHeartbeat(size) ==
    /\ ~greeting
    /\ source' = source
    /\ EnqueueChunk(ChunkOf("heartbeat", 0, 0, size))
    /\ UNCHANGED <<closed, inFlight, greeting, greeted, decoder>>

\* The block sendInitialAvcc queues: the JPEG seed when a frame was cached,
\* then the cached description when there is one, in two critical sections.
SendSeed(size) ==
    /\ ~greeted /\ ~greeting
    /\ greeting' = TRUE
    /\ EnqueueChunk(ChunkOf("seed", 0, 0, size))
    /\ UNCHANGED <<closed, inFlight, greeted, source, decoder>>

GreetDescription(q, size) ==
    IF source.session = 0 THEN q
    ELSE Enqueue(q, ChunkOf("description", source.session, 0, size))

\* The request for an IDR follows in the same call; a keyframe emitted between
\* the two only makes the request superfluous.
SendInitialAvcc(size) ==
    /\ ~greeted
    /\ greeted' = TRUE /\ greeting' = FALSE
    /\ IF closed
       THEN UNCHANGED <<queue, writer>>
       ELSE /\ queue' = GreetDescription(queue, size)
            /\ writer' = IF writer = "asleep" /\ ~IsEmpty(queue')
                         THEN "ready" ELSE writer
    /\ requested' = TRUE
    /\ UNCHANGED <<closed, inFlight, source, decoder>>

-----------------------------------------------------------------------------
(* AVCCClient.drain on the connection thread.                              *)

\* cond.wait(): the thread sleeps while there is nothing to send.
Sleep ==
    /\ writer = "ready"
    /\ IsEmpty(queue) /\ ~closed
    /\ writer' = "asleep"
    /\ UNCHANGED <<queue, closed, inFlight, requested, greeting, greeted, source, decoder>>

BeginWrite ==
    /\ writer = "ready"
    /\ ~closed /\ ~IsEmpty(queue)
    /\ inFlight' = NextChunk(queue)
    /\ queue' = BeginNextWrite(queue)
    /\ writer' = "writing"
    /\ UNCHANGED <<closed, requested, greeting, greeted, source, decoder>>

ReturnClosed ==
    /\ writer = "ready"
    /\ closed
    /\ writer' = "returned"
    /\ UNCHANGED <<queue, closed, inFlight, requested, greeting, greeted, source, decoder>>

\* What the browser's handleChunk makes of a chunk: a description configures
\* a decoder that awaits a keyframe, a keyframe starts the chain, a delta is
\* skipped while no keyframe was decoded.
Decoded(d, c) ==
    CASE c.kind = "description" ->
            [session |-> c.session, ref |-> 0, base |-> 0]
      [] c.kind = "keyframe" /\ d.session > 0 ->
            [d EXCEPT !.ref = c.ref, !.base = c.ref]
      [] c.kind = "delta" /\ d.ref > 0 ->
            [d EXCEPT !.ref = c.ref]
      [] OTHER -> d

\* Mutant: the bytes written are taken off a count that close() has reset.
EndWriteSubtracts ==
    /\ writer = "writing"
    /\ queue' = [queue EXCEPT !.inFlightBytes = @ - inFlight.size]
    /\ decoder' = Decoded(decoder, inFlight)
    /\ writer' = "ready"
    /\ inFlight' = NoChunk
    /\ UNCHANGED <<closed, requested, greeting, greeted, source>>

\* The write returned: completeWrite under the lock.
EndWrite ==
    /\ writer = "writing"
    /\ queue' = CompleteWrite(queue)
    /\ decoder' = Decoded(decoder, inFlight)
    /\ writer' = "ready"
    /\ inFlight' = NoChunk
    /\ UNCHANGED <<closed, requested, greeting, greeted, source>>

\* The write threw: completeWrite, then close() in a second critical section.
FailWrite ==
    /\ writer = "writing"
    /\ queue' = CompleteWrite(queue)
    /\ writer' = "failed"
    /\ inFlight' = NoChunk
    /\ UNCHANGED <<closed, requested, greeting, greeted, source, decoder>>

CloseAfterFailure ==
    /\ writer = "failed"
    /\ closed' = TRUE
    /\ queue' = Clear(queue)
    /\ writer' = "returned"
    /\ UNCHANGED <<inFlight, requested, greeting, greeted, source, decoder>>

\* Mutant: close() forgets to signal the condition.
CloseSilently ==
    /\ ~closed
    /\ closed' = TRUE
    /\ queue' = Clear(queue)
    /\ writer' = writer
    /\ UNCHANGED <<inFlight, requested, greeting, greeted, source, decoder>>

\* close() from the client manager's stop().
Close ==
    /\ ~closed
    /\ closed' = TRUE
    /\ queue' = Clear(queue)
    /\ writer' = IF writer = "asleep" THEN "ready" ELSE writer
    /\ UNCHANGED <<inFlight, requested, greeting, greeted, source, decoder>>

\* The adaptive controller samples the backlog on its own timer.
SampleHighWater ==
    /\ queue' = SampleQueue(queue)
    /\ UNCHANGED <<closed, writer, inFlight, requested, greeting, greeted, source, decoder>>

-----------------------------------------------------------------------------
Produce ==
    \/ \E n \in Sizes["description"]     : NewSession(n)
    \/ \E n \in Sizes["keyframe"]        : EmitKeyframe(n)
    \/ \E n \in Sizes["delta"]           : EmitDelta(n)
    \/ \E n \in Sizes["disposableDelta"] : EmitDisposable(n)
    \/ \E n \in Sizes["heartbeat"]       : EmitHeartbeat(n)
    \/ \E n \in Sizes["seed"]            : SendSeed(n)
    \/ \E n \in Sizes["description"]     : SendInitialAvcc(n)

Drain == Sleep \/ BeginWrite \/ ReturnClosed \/ EndWrite \/ FailWrite
            \/ CloseAfterFailure

Next == Produce \/ Drain \/ Close \/ SampleHighWater

Spec == Init /\ [][Next]_vars

\* The connection thread runs, and a socket write eventually returns or
\* throws: the operating system gives up on a dead peer.
Fairness == WF_vars(Drain)

FairSpec == Spec /\ Fairness

-----------------------------------------------------------------------------
(* Safety.                                                                 *)

\* The bytes of a sequence of chunks.
TotalSize(s) ==
    LET total[i \in 0 .. Len(s)] == IF i = 0 THEN 0 ELSE total[i - 1] + s[i].size
    IN  total[Len(s)]

\* "Memory is bounded": the queue never holds more than the limit, or one
\* keyframe when a single keyframe is larger than the limit; what is being
\* written adds one chunk.  (AVCCSendQueue.enqueue, ClientManager.swift:462)
QueueBounded ==
    /\ queue.queuedBytes <= Limit \/ queue.queuedBytes <= MaxChunk
    /\ queue.inFlightBytes <= MaxChunk

\* queuedBytes is the sum of the queued sizes: the running total the limit
\* is checked against never drifts from the queue, through appends,
\* coalescing, writes and close (AVCCSendQueue.append, discardPending, clear).
BytesAccounted == queue.queuedBytes = TotalSize(queue.pending)

\* The connection thread never sleeps on a queue with something to send or
\* after close(): no signal is lost between enqueue, close and cond.wait.
NoLostWakeup == writer = "asleep" => IsEmpty(queue) /\ ~closed

\* The backlog the adaptive controller samples is never below the backlog
\* there is: a rise between two samples is not missed.
SampleCoversPressure == queue.sampleHighWater >= Pressure(queue)

\* While the queue refuses deltas, someone owes the viewer a keyframe: a
\* request is out, or the encoder's next frame is an IDR.  A drop that
\* closed the gate without asking would freeze the picture until the next
\* natural keyframe.
GapIsRequested ==
    queue.needKeyframe /\ ~closed => requested \/ source.idrDue

\* The chunk being written is decodable when it arrives: a keyframe finds
\* the decoder configured for its session, a delta directly follows its
\* reference, a disposable delta finds its reference decoded.  (Before the
\* first configuration and keyframe the viewer skips what it gets.)
InFlightDecodable ==
    /\ inFlight.kind = "keyframe" =>
            decoder.session \in {0, inFlight.session} /\ inFlight.ref > decoder.ref
    /\ inFlight.kind = "delta" /\ decoder.ref > 0 =>
            /\ decoder.session = inFlight.session
            /\ inFlight.ref = decoder.ref + 1
    /\ inFlight.kind = "disposableDelta" /\ decoder.ref > 0 =>
            /\ decoder.session = inFlight.session
            /\ inFlight.ref = decoder.ref

Drained == IsEmpty(queue) /\ writer \in {"ready", "asleep"} /\ ~closed

\* "The stream always converges": once a greeted viewer's queue is drained
\* and no keyframe is owed, its decoder is configured for the current
\* session and holds the newest reference frame, however much was dropped.
\* (ClientManager.swift:462-464)
Converged ==
    Drained /\ greeted /\ ~queue.needKeyframe /\ source.session > 0 =>
        decoder.session = source.session /\ decoder.ref = source.ref

-----------------------------------------------------------------------------
(* Why the chain holds: the inductive invariant behind InFlightDecodable,  *)
(* Converged and the refinement.  Live excludes a client whose writer lost *)
(* a chunk, which never writes again.                                      *)

Live == ~closed /\ writer # "failed"

SourceInv ==
    /\ source.idrDue => source.session > 0
    /\ source.session > 0 /\ ~source.idrDue => source.ref > 0

WriterInv ==
    /\ writer = "writing" <=> inFlight # NoChunk
    /\ closed => IsEmpty(queue)
    /\ writer = "returned" => closed

DecoderInv ==
    /\ decoder.session = 0 => decoder.ref = 0
    /\ decoder.session <= source.session
    /\ decoder.ref <= source.ref

\* Queued and written chunks are the current session's, in encoder order.
Configuring == queue.description # NoChunk \/ inFlight.kind = "description"

SessionInv ==
    /\ queue.description # NoChunk =>
            /\ queue.description.kind = "description"
            /\ queue.description.session = source.session
            /\ source.session > 0
    /\ \A i \in DOMAIN queue.pending :
            /\ queue.pending[i].kind # "description"
            /\ IsVideo(queue.pending[i]) =>
                    /\ queue.pending[i].session = source.session
                    /\ queue.pending[i].ref \in 1 .. source.ref
    /\ inFlight.kind = "description" =>
            /\ inFlight.session \in decoder.session .. source.session
            /\ inFlight.session > 0
            /\ Live /\ queue.description = NoChunk =>
                    inFlight.session = source.session
    /\ IsVideo(inFlight) =>
            /\ decoder.session \in {0, inFlight.session}
            /\ inFlight.ref \in 1 .. source.ref
    /\ Live /\ ~Configuring => decoder.session \in {0, source.session}

OrderInv ==
    /\ \A i, j \in DOMAIN queue.pending :
            i < j /\ IsVideo(queue.pending[i]) /\ IsVideo(queue.pending[j]) =>
                /\ queue.pending[i].ref <= queue.pending[j].ref
                /\ IsReference(queue.pending[j]) =>
                        queue.pending[i].ref < queue.pending[j].ref
    /\ \A i \in DOMAIN queue.pending :
            IsReference(queue.pending[i]) =>
                /\ queue.pending[i].ref > decoder.ref
                /\ IsVideo(inFlight) => queue.pending[i].ref > inFlight.ref
    /\ IsReference(inFlight) => inFlight.ref > decoder.ref

\* The reference m is what the decoder will hold once the chunk being
\* written has arrived (or the decoder is about to await a keyframe).
Link(m) ==
    \/ Configuring
    \/ IsReference(inFlight) /\ inFlight.ref = m
    \/ ~IsReference(inFlight) /\ decoder.ref \in {0, m}

\* The chunk at j (or the next to be appended) finds the reference m: it is
\* queued before, or nothing queued before changes the chain and m is linked.
Linked(j, m) ==
    \/ \E i \in DOMAIN queue.pending :
            i < j /\ IsReference(queue.pending[i]) /\ queue.pending[i].ref = m
    \/ /\ \A i \in DOMAIN queue.pending : i < j => ~IsReference(queue.pending[i])
       /\ Link(m)

ChainInv ==
    Live =>
        /\ \A j \in DOMAIN queue.pending :
                /\ queue.pending[j].kind = "delta" =>
                        Linked(j, queue.pending[j].ref - 1)
                /\ queue.pending[j].kind = "disposableDelta" =>
                        Linked(j, queue.pending[j].ref)
        /\ ~queue.needKeyframe => Linked(Len(queue.pending) + 1, source.ref)

\* A greeted viewer of a running encoder is configured, or about to be; and
\* with its gate open its chain is started, or its keyframe is on the way.
KeyframeAhead ==
    \/ \E i \in DOMAIN queue.pending : queue.pending[i].kind = "keyframe"
    \/ ~Configuring /\ (inFlight.kind = "keyframe" \/ decoder.ref > 0)

StartedInv ==
    Live /\ greeted /\ source.session > 0 =>
        /\ Configuring \/ decoder.session > 0
        /\ ~queue.needKeyframe => KeyframeAhead

IInv ==
    /\ TypeOK
    /\ SourceInv
    /\ WriterInv
    /\ DecoderInv
    /\ SessionInv
    /\ OrderInv
    /\ ChainInv
    /\ StartedInv
    /\ InFlightDecodable

-----------------------------------------------------------------------------
(* Steps and behaviours.                                                   *)

\* The viewer sees a decodable stream.
Viewer == INSTANCE DecodableStream WITH decoder <- decoder
ViewerDecodes == Viewer!Spec

\* close() always ends the connection thread, wherever it was: asleep,
\* in a write, or between a failed write and its own close().
CloseEndsWriter == closed ~> writer = "returned"

=============================================================================
