-------------------------- MODULE AVCCClientProofs --------------------------
(* What holds of a viewer's queue, writer and keyframe requests for every   *)
(* limit, every chunk size and any number of frames and sessions.           *)
EXTENDS AVCCClient, AVCCSendQueueProofs, FiniteSetTheorems

-----------------------------------------------------------------------------
(* Lemmas about enqueue as a whole.                                        *)

LEMMA ChunkOfIsChunk ==
    ASSUME NEW k \in Kind, NEW s \in Nat, NEW r \in Nat, NEW n \in Sizes[k]
    PROVE  /\ ChunkOf(k, s, r, n) \in Chunk
           /\ ChunkOf(k, s, r, n).kind = k
           /\ ChunkOf(k, s, r, n).session = s
           /\ ChunkOf(k, s, r, n).ref = r
<1>1. n \in 1 .. MaxChunk
    BY ClientAssumption
<1> QED
    BY <1>1 DEF ChunkOf, Chunk

\* What the safety properties need of any enqueue: it keeps the bound and the
\* write in flight, leaves an empty queue empty unless it admits the chunk,
\* and closes the gate only while reporting it, or for a description.
LEMMA EnqueueSafe ==
    ASSUME NEW q \in Queue, NEW c \in Chunk
    PROVE  LET r == Enqueue(q, c) IN
           /\ r \in Queue
           /\ r.inFlightBytes = q.inFlightBytes
           /\ q.queuedBytes <= Limit \/ q.queuedBytes <= MaxChunk =>
                    r.queuedBytes <= Limit \/ r.queuedBytes <= MaxChunk
           /\ Admission(q, c) # "enqueued" /\ IsEmpty(q) => IsEmpty(r)
           /\ r.needKeyframe =>
                \/ q.needKeyframe /\ c.kind # "keyframe"
                \/ c.kind = "description"
                \/ c.kind \in {"delta", "seed"} /\ Admission(q, c) = "droppedNeedsKeyframe"
<1> DEFINE r == Enqueue(q, c)
<1>0. /\ c.size \in Nat /\ c.size <= MaxChunk /\ MaxChunk \in Nat /\ Limit \in Nat
      /\ q.queuedBytes \in Int /\ q.inFlightBytes \in Nat
      /\ c.kind \in Kind
    BY QueueFields, ChunkFields, QueueAssumption
<1>1. Fits(q, c, Limit) => q.queuedBytes + c.size <= Limit
    BY <1>0 DEF Fits, Pressure
<1>2. CASE c.kind = "keyframe"
  <2>1. r = EnqueueKeyframe(q, c) /\ Admission(q, c) = "enqueued"
      BY <1>2 DEF Enqueue, Admission
  <2> HIDE DEF r
  <2>2. /\ r \in Queue
        /\ r.inFlightBytes = q.inFlightBytes
        /\ r.needKeyframe = FALSE
        /\ \/ r.queuedBytes = c.size
           \/ Fits(q, c, Limit) /\ r.queuedBytes = q.queuedBytes + c.size
      BY ONLY <2>1, EnqueueKeyframeShape, q \in Queue, c \in Chunk
  <2>3. r.queuedBytes <= Limit \/ r.queuedBytes <= MaxChunk
      BY ONLY <1>0, <1>1, <2>2
  <2> QED
      BY ONLY <2>1, <2>2, <2>3 DEF r
<1>3. CASE c.kind = "description"
  <2>1. r = EnqueueDescription(q, c) /\ Admission(q, c) = "enqueued"
      BY <1>3 DEF Enqueue, Admission
  <2> HIDE DEF r
  <2>2. /\ r \in Queue
        /\ r.inFlightBytes = q.inFlightBytes
        /\ r.queuedBytes = 0 \/ r.queuedBytes = q.queuedBytes
      BY ONLY <2>1, EnqueueDescriptionShape, q \in Queue, c \in Chunk
  <2> QED
      BY <1>0, <1>3, <2>1, <2>2 DEF r
<1>4. CASE c.kind \in {"delta", "seed"}
  <2>1. r = EnqueueDelta(q, c)
      BY <1>4 DEF Enqueue
  <2>2. Admission(q, c) = IF AdmitsDelta(q, c) THEN "enqueued"
                          ELSE IF q.needKeyframe THEN "dropped"
                          ELSE "droppedNeedsKeyframe"
      BY <1>4 DEF Admission
  <2>3. CASE AdmitsDelta(q, c)
    <3>1. Fits(q, c, Limit)
        BY <2>3 DEF AdmitsDelta
    <3>2. Admission(q, c) = "enqueued"
        BY <2>2, <2>3
    <3> HIDE DEF r
    <3>3. /\ r \in Queue
          /\ r.inFlightBytes = q.inFlightBytes
          /\ r.needKeyframe = q.needKeyframe
          /\ r.queuedBytes = q.queuedBytes + c.size
        BY ONLY <2>1, <2>3, EnqueueDeltaShape, q \in Queue, c \in Chunk
    <3>4. r.queuedBytes <= Limit
        BY ONLY <1>1, <3>1, <3>3
    <3>5. c.kind # "keyframe"
        BY ONLY <1>4
    <3> QED
        BY ONLY <3>2, <3>3, <3>4, <3>5 DEF r
  <2>4. CASE ~AdmitsDelta(q, c)
    <3>1. Admission(q, c) # "enqueued"
        BY <2>2, <2>4
    <3>2. q.needKeyframe \/ Admission(q, c) = "droppedNeedsKeyframe"
        BY <2>2, <2>4
    <3>3. /\ r \in Queue
          /\ r.pending = q.pending
          /\ r.description = q.description
          /\ r.queuedBytes = q.queuedBytes
          /\ r.inFlightBytes = q.inFlightBytes
        BY <2>1, <2>4, EnqueueDeltaShape
    <3> QED
        BY <1>4, <3>1, <3>2, <3>3 DEF IsEmpty
  <2> QED
      BY <2>3, <2>4
<1>5. CASE c.kind = "heartbeat" \/ c.kind = "disposableDelta"
  <2>1. r = EnqueueHeartbeat(q, c) \/ r = EnqueueDisposable(q, c)
      BY <1>5 DEF Enqueue
  <2>2. Admission(q, c) # "enqueued" => r = q
      BY <1>5 DEF Enqueue, Admission, EnqueueHeartbeat, EnqueueDisposable
  <2> HIDE DEF r
  <2>3. /\ r \in Queue
        /\ r.description = q.description
        /\ r.inFlightBytes = q.inFlightBytes
        /\ r.needKeyframe = q.needKeyframe
        /\ \/ r = q
           \/ Fits(q, c, Limit) /\ r.queuedBytes = q.queuedBytes + c.size
      BY <2>1, EnqueueOptionalShape
  <2> QED
      BY <1>0, <1>1, <1>5, <2>2, <2>3 DEF r
<1> QED
    BY <1>0, <1>2, <1>3, <1>4, <1>5 DEF Kind, VideoKind
-----------------------------------------------------------------------------
(* The safety invariant: types, the byte bound, no lost wakeup, and a       *)
(* keyframe owed while the gate is closed.                                  *)

SafetyInv == TypeOK /\ QueueBounded /\ NoLostWakeup /\ GapIsRequested

LEMMA EnqueueChunkSafe ==
    ASSUME SafetyInv, NEW c \in Chunk, EnqueueChunk(c), closed' = closed
    PROVE  /\ queue' \in Queue
           /\ writer' \in WriterState
           /\ requested' \in BOOLEAN
           /\ queue'.inFlightBytes = queue.inFlightBytes
           /\ queue'.queuedBytes <= Limit \/ queue'.queuedBytes <= MaxChunk
           /\ NoLostWakeup'
           /\ queue'.needKeyframe /\ ~closed =>
                \/ c.kind = "description"
                \/ requested'
                \/ source.idrDue /\ c.kind # "keyframe"
<1>1. CASE closed
    BY <1>1 DEF SafetyInv, TypeOK, QueueBounded, NoLostWakeup, EnqueueChunk
<1>2. CASE ~closed
  <2>1. /\ queue' = Enqueue(queue, c)
        /\ writer' = WakeOnEnqueue(c)
        /\ requested' = IF c.kind = "keyframe" THEN FALSE ELSE RequestAfter(c)
      BY <1>2 DEF EnqueueChunk
  <2>2. queue \in Queue
      BY DEF SafetyInv, TypeOK
  <2>3. /\ queue' \in Queue
        /\ queue'.inFlightBytes = queue.inFlightBytes
        /\ queue'.queuedBytes <= Limit \/ queue'.queuedBytes <= MaxChunk
        /\ Admission(queue, c) # "enqueued" /\ IsEmpty(queue) => IsEmpty(queue')
        /\ queue'.needKeyframe =>
             \/ queue.needKeyframe /\ c.kind # "keyframe"
             \/ c.kind = "description"
             \/ c.kind \in {"delta", "seed"} /\ Admission(queue, c) = "droppedNeedsKeyframe"
      BY <2>1, <2>2, EnqueueSafe DEF SafetyInv, QueueBounded
  <2>4. NoLostWakeup'
    <3>1. writer' = "asleep" => writer = "asleep" /\ Admission(queue, c) # "enqueued"
        BY <2>1 DEF WakeOnEnqueue
    <3> QED
        BY <1>2, <2>3, <3>1 DEF SafetyInv, NoLostWakeup
  <2>5. writer' \in WriterState
      BY <2>1 DEF WakeOnEnqueue, WriterState, SafetyInv, TypeOK
  <2>6. requested' \in BOOLEAN
      BY <2>1 DEF RequestAfter, SafetyInv, TypeOK
  <2>7. queue.needKeyframe => requested \/ source.idrDue
      BY <1>2 DEF SafetyInv, GapIsRequested
  <2>8. queue'.needKeyframe =>
             \/ c.kind = "description"
             \/ requested'
             \/ source.idrDue /\ c.kind # "keyframe"
      BY <2>1, <2>3, <2>7 DEF RequestAfter
  <2> QED
      BY <2>3, <2>4, <2>5, <2>6, <2>8
<1> QED
    BY <1>1, <1>2

LEMMA InitSafe == Init => SafetyInv
<1> SUFFICES ASSUME Init PROVE SafetyInv
    OBVIOUS
<1>1. TypeOK
  <2>1. source \in [session : Nat, ref : Nat, idrDue : BOOLEAN]
    <3>1. PICK s \in {0, 1}, r \in {0, 1}, due \in BOOLEAN :
              source = [session |-> s, ref |-> r, idrDue |-> due]
        BY DEF Init
    <3>2. s \in Nat /\ r \in Nat
        OBVIOUS
    <3> QED
        BY <3>1, <3>2
  <2>2. decoder \in [session : Nat, ref : Nat, base : Nat]
      BY 0 \in Nat DEF Init, NoDecoder
  <2> QED
      BY <2>1, <2>2, EmptyIsQueue DEF Init, TypeOK, WriterState
<1>2. QueueBounded
    BY QueueAssumption DEF Init, QueueBounded, EmptyQueue
<1>3. NoLostWakeup /\ GapIsRequested
    BY DEF Init, NoLostWakeup, GapIsRequested, EmptyQueue
<1> QED
    BY <1>1, <1>2, <1>3 DEF SafetyInv

\* One emission of the encoder: a chunk of kind k offered to the queue.
LEMMA EmitSafe ==
    ASSUME SafetyInv, NEW c \in Chunk, EnqueueChunk(c),
           UNCHANGED <<closed, inFlight, greeted, decoder>>, greeting' \in BOOLEAN,
           source' \in [session : Nat, ref : Nat, idrDue : BOOLEAN],
           c.kind = "description" => source'.idrDue,
           c.kind # "keyframe" /\ source.idrDue => source'.idrDue
    PROVE  SafetyInv'
<1>1. /\ queue' \in Queue
      /\ writer' \in WriterState
      /\ requested' \in BOOLEAN
      /\ queue'.inFlightBytes = queue.inFlightBytes
      /\ queue'.queuedBytes <= Limit \/ queue'.queuedBytes <= MaxChunk
      /\ NoLostWakeup'
      /\ queue'.needKeyframe /\ ~closed =>
           \/ c.kind = "description"
           \/ requested'
           \/ source.idrDue /\ c.kind # "keyframe"
    BY EnqueueChunkSafe
<1>2. TypeOK'
    BY <1>1 DEF SafetyInv, TypeOK
<1>3. QueueBounded'
    BY <1>1 DEF SafetyInv, QueueBounded
<1>4. GapIsRequested'
    BY <1>1 DEF GapIsRequested
<1> QED
    BY <1>1, <1>2, <1>3, <1>4 DEF SafetyInv

LEMMA NextSafe == SafetyInv /\ [Next]_vars => SafetyInv'
<1> SUFFICES ASSUME SafetyInv, [Next]_vars PROVE SafetyInv'
    OBVIOUS
<1> USE DEF SafetyInv
<1>0. /\ queue \in Queue
      /\ source \in [session : Nat, ref : Nat, idrDue : BOOLEAN]
      /\ MaxSession \in Nat /\ MaxRef \in Nat
      /\ 0 \in Nat /\ greeting \in BOOLEAN
    BY ClientAssumption DEF TypeOK
<1>1. ASSUME NEW n \in Sizes["description"], NewSession(n) PROVE SafetyInv'
  <2> DEFINE c == ChunkOf("description", source.session + 1, 0, n)
  <2>1. c \in Chunk /\ c.kind = "description"
      BY <1>0, ChunkOfIsChunk DEF Kind
  <2>2. source' \in [session : Nat, ref : Nat, idrDue : BOOLEAN]
      BY <1>0, <1>1, TRUE \in BOOLEAN, FALSE \in BOOLEAN,
         source.session + 1 \in Nat, source.ref + 1 \in Nat DEF NewSession
  <2>3. c.kind # "keyframe" => source'.idrDue
      BY <1>0, <1>1, <2>1 DEF NewSession
  <2> QED
      BY <1>0, <1>1, <2>1, <2>2, <2>3, EmitSafe DEF NewSession
<1>2. ASSUME NEW n \in Sizes["keyframe"], EmitKeyframe(n) PROVE SafetyInv'
  <2> DEFINE c == ChunkOf("keyframe", source.session, source.ref + 1, n)
  <2>1. c \in Chunk /\ c.kind = "keyframe"
      BY <1>0, ChunkOfIsChunk DEF Kind, VideoKind
  <2>2. source' \in [session : Nat, ref : Nat, idrDue : BOOLEAN]
      BY <1>0, <1>2, TRUE \in BOOLEAN, FALSE \in BOOLEAN,
         source.session + 1 \in Nat, source.ref + 1 \in Nat DEF EmitKeyframe
  <2>3. c.kind # "keyframe" => source'.idrDue
      BY <1>0, <1>2, <2>1 DEF EmitKeyframe
  <2> QED
      BY <1>0, <1>2, <2>1, <2>2, <2>3, EmitSafe DEF EmitKeyframe
<1>3. ASSUME NEW n \in Sizes["delta"], EmitDelta(n) PROVE SafetyInv'
  <2> DEFINE c == ChunkOf("delta", source.session, source.ref + 1, n)
  <2>1. c \in Chunk /\ c.kind = "delta"
      BY <1>0, ChunkOfIsChunk DEF Kind, VideoKind
  <2> QED
      BY <1>0, <1>3, <2>1, EmitSafe DEF EmitDelta
<1>4. ASSUME NEW n \in Sizes["disposableDelta"], EmitDisposable(n) PROVE SafetyInv'
  <2> DEFINE c == ChunkOf("disposableDelta", source.session, source.ref, n)
  <2>1. c \in Chunk /\ c.kind = "disposableDelta"
      BY <1>0, ChunkOfIsChunk DEF Kind, VideoKind
  <2> QED
      BY <1>0, <1>4, <2>1, EmitSafe DEF EmitDisposable
<1>5. ASSUME NEW n \in Sizes["heartbeat"], EmitHeartbeat(n) PROVE SafetyInv'
  <2> DEFINE c == ChunkOf("heartbeat", 0, 0, n)
  <2>1. c \in Chunk /\ c.kind = "heartbeat"
      BY <1>0, ChunkOfIsChunk DEF Kind
  <2> QED
      BY <1>0, <1>5, <2>1, EmitSafe DEF EmitHeartbeat
<1>6. ASSUME NEW n \in Sizes["description"], SendInitialAvcc(n) PROVE SafetyInv'
  <2> DEFINE desc == ChunkOf("description", source.session, 0, n)
             q2   == GreetDescription(queue, n)
  <2>1. desc \in Chunk
      BY <1>0, ChunkOfIsChunk DEF Kind
  <2>3. /\ q2 \in Queue
        /\ q2.inFlightBytes = queue.inFlightBytes
        /\ q2.queuedBytes <= Limit \/ q2.queuedBytes <= MaxChunk
      BY <1>0, <2>1, EnqueueSafe DEF GreetDescription, QueueBounded
  <2> HIDE DEF q2
  <2>4. CASE closed
    <3>1. /\ requested' = TRUE /\ greeted' = TRUE /\ greeting' = FALSE
          /\ UNCHANGED <<queue, writer, closed, inFlight, source, decoder>>
        BY <1>6, <2>4 DEF SendInitialAvcc
    <3>2. TypeOK'
        BY <3>1 DEF TypeOK
    <3> QED
        BY <2>4, <3>1, <3>2 DEF QueueBounded, NoLostWakeup, GapIsRequested
  <2>5. CASE ~closed
    <3>1. /\ queue' = q2
          /\ writer' = IF writer = "asleep" /\ ~IsEmpty(queue')
                       THEN "ready" ELSE writer
          /\ requested' = TRUE
          /\ greeted' = TRUE /\ greeting' = FALSE
          /\ UNCHANGED <<closed, inFlight, source, decoder>>
        BY <1>6, <2>5 DEF SendInitialAvcc, q2
    <3>2. TypeOK'
        BY <2>3, <3>1 DEF TypeOK, WriterState
    <3>3. QueueBounded'
        BY <2>3, <3>1 DEF QueueBounded
    <3>4. NoLostWakeup' /\ GapIsRequested'
        BY <2>5, <3>1 DEF NoLostWakeup, GapIsRequested
    <3> QED
        BY <3>2, <3>3, <3>4
  <2> QED
      BY <2>4, <2>5
<1>18. ASSUME NEW n \in Sizes["seed"], SendSeed(n) PROVE SafetyInv'
  <2> DEFINE c == ChunkOf("seed", 0, 0, n)
  <2>1. c \in Chunk /\ c.kind = "seed"
      BY <1>0, ChunkOfIsChunk DEF Kind
  <2>2. /\ EnqueueChunk(c)
        /\ greeting' = TRUE /\ UNCHANGED <<closed, inFlight, greeted, source, decoder>>
      BY <1>18 DEF SendSeed
  <2> HIDE DEF c
  <2> QED
      BY <1>0, <2>1, <2>2, EmitSafe
<1>7. CASE Sleep
    BY <1>7 DEF Sleep, TypeOK, WriterState, QueueBounded, NoLostWakeup,
                GapIsRequested
<1>8. CASE BeginWrite
  <2>1. /\ ~closed /\ ~IsEmpty(queue)
        /\ inFlight' = NextChunk(queue)
        /\ queue' = BeginNextWrite(queue)
        /\ writer' = "writing"
        /\ UNCHANGED <<closed, requested, greeting, greeted, source, decoder>>
      BY <1>8 DEF BeginWrite
  <2>2. /\ queue' \in Queue
        /\ NextChunk(queue) \in Chunk
        /\ queue'.inFlightBytes = NextChunk(queue).size
        /\ queue'.needKeyframe = queue.needKeyframe
        /\ \/ queue'.queuedBytes = queue.queuedBytes
           \/ queue'.queuedBytes = queue.queuedBytes - NextChunk(queue).size
      BY <1>0, <2>1, BeginNextWriteShape
  <2>3. /\ NextChunk(queue).size \in Nat
        /\ NextChunk(queue).size <= MaxChunk
        /\ queue.queuedBytes \in Int
        /\ MaxChunk \in Nat /\ Limit \in Nat
      BY <1>0, <2>2, ChunkFields, QueueFields, QueueAssumption
  <2>4. TypeOK'
      BY <2>1, <2>2 DEF TypeOK, WriterState
  <2>5. QueueBounded'
      BY <2>2, <2>3 DEF QueueBounded
  <2>6. NoLostWakeup' /\ GapIsRequested'
      BY <2>1, <2>2 DEF NoLostWakeup, GapIsRequested
  <2> QED
      BY <2>4, <2>5, <2>6
<1>9. CASE ReturnClosed
    BY <1>9 DEF ReturnClosed, TypeOK, WriterState, QueueBounded, NoLostWakeup,
                GapIsRequested
<1>10. ASSUME queue' = CompleteWrite(queue), inFlight' = NoChunk,
              writer' \in {"ready", "failed"},
              decoder' \in [session : Nat, ref : Nat, base : Nat],
              UNCHANGED <<closed, requested, greeting, greeted, source>>
       PROVE  SafetyInv'
  <2>1. /\ queue' \in Queue
        /\ queue'.inFlightBytes = 0
        /\ queue'.queuedBytes = queue.queuedBytes
        /\ queue'.needKeyframe = queue.needKeyframe
      BY <1>0, <1>10, CompleteWriteShape
  <2>2. TypeOK'
      BY <1>10, <2>1 DEF TypeOK, WriterState
  <2>3. QueueBounded'
      BY <2>1, QueueAssumption DEF QueueBounded
  <2>4. NoLostWakeup' /\ GapIsRequested'
      BY <1>10, <2>1 DEF NoLostWakeup, GapIsRequested
  <2> QED
      BY <2>2, <2>3, <2>4
<1>11. CASE EndWrite
  <2>1. inFlight.session \in Nat /\ inFlight.ref \in Nat
      BY ChunkFields DEF TypeOK, NoChunk
  <2>2. Decoded(decoder, inFlight) \in [session : Nat, ref : Nat, base : Nat]
      BY <1>0, <2>1 DEF Decoded, TypeOK
  <2> QED
      BY <1>10, <1>11, <2>2 DEF EndWrite
<1>12. CASE FailWrite
    BY <1>10, <1>12 DEF FailWrite, TypeOK
<1>13. ASSUME queue' = Clear(queue), closed' = TRUE,
              writer' \in WriterState \ {"asleep"},
              UNCHANGED <<inFlight, requested, greeting, greeted, source, decoder>>
       PROVE  SafetyInv'
  <2>1. /\ queue' \in Queue
        /\ queue'.inFlightBytes = 0
        /\ queue'.queuedBytes = 0
      BY <1>0, <1>13, ClearShape
  <2>2. TypeOK'
      BY <1>13, <2>1 DEF TypeOK
  <2>3. QueueBounded'
      BY <2>1, QueueAssumption DEF QueueBounded
  <2>4. NoLostWakeup' /\ GapIsRequested'
      BY <1>13 DEF NoLostWakeup, GapIsRequested
  <2> QED
      BY <2>2, <2>3, <2>4
<1>14. CASE CloseAfterFailure
    BY <1>13, <1>14 DEF CloseAfterFailure, WriterState
<1>15. CASE Close
    BY <1>13, <1>15 DEF Close, WriterState, TypeOK
<1>16. CASE SampleHighWater
  <2>1. /\ queue' \in Queue
        /\ queue'.pending = queue.pending
        /\ queue'.description = queue.description
        /\ queue'.inFlightBytes = queue.inFlightBytes
        /\ queue'.queuedBytes = queue.queuedBytes
        /\ queue'.needKeyframe = queue.needKeyframe
      BY <1>0, <1>16, SampleQueueShape DEF SampleHighWater
  <2> QED
      BY <1>16, <2>1 DEF SampleHighWater, TypeOK, QueueBounded, NoLostWakeup,
                         GapIsRequested, IsEmpty
<1>17. CASE UNCHANGED vars
    BY <1>17 DEF vars, TypeOK, QueueBounded, NoLostWakeup, GapIsRequested
<1> QED
    BY <1>1, <1>2, <1>3, <1>4, <1>5, <1>6, <1>7, <1>8, <1>9, <1>11, <1>12,
       <1>14, <1>15, <1>16, <1>17, <1>18 DEF Next, Produce, Drain

LEMMA SafetyInvariant == Spec => []SafetyInv
<1>1. Init => SafetyInv
    BY InitSafe
<1>2. SafetyInv /\ [Next]_vars => SafetyInv'
    BY NextSafe
<1> QED
    BY <1>1, <1>2, PTL DEF Spec

\* Every variable keeps its type.
THEOREM TypeCorrect == Spec => []TypeOK
BY SafetyInvariant, PTL DEF SafetyInv

\* A viewer's memory is bounded, whatever its socket does: the queue never
\* exceeds the limit or one oversized keyframe.  (ClientManager.swift:462)
THEOREM MemoryBounded == Spec => []QueueBounded
BY SafetyInvariant, PTL DEF SafetyInv

\* The writer never sleeps on work or on close(): no interleaving of enqueue,
\* close and drain loses a signal.  (AVCCClient.enqueue, drain, close)
THEOREM WakeupsKept == Spec => []NoLostWakeup
BY SafetyInvariant, PTL DEF SafetyInv

\* A closed gate always has a keyframe request behind it, or an IDR already
\* due.  (AVCCClient.enqueue, onNeedKeyframe)
THEOREM GapsRequested == Spec => []GapIsRequested
BY SafetyInvariant, PTL DEF SafetyInv

-----------------------------------------------------------------------------
(* The sum of the pending chunks' sizes.  A running total proves what       *)
(* TotalSize returns without an induction over the sequence: the queue      *)
(* operators carry one along, and no two differ.                            *)

\* f[i] is the size of the first i chunks of s.
RunningTotal(f, s) ==
    /\ f \in [0 .. Len(s) -> Int]
    /\ f[0] = 0
    /\ \A i \in 1 .. Len(s) : f[i] = f[i - 1] + s[i].size

SumsTo(s, n) == \E f : RunningTotal(f, s) /\ f[Len(s)] = n

\* No set of naturals closed under predecessor lies above 0: the step down is
\* injective, so on a finite part of it, it would reach the top.
LEMMA NoDescent ==
    ASSUME NEW D \in SUBSET Nat, 0 \notin D, \A i \in D : i - 1 \in D
    PROVE  D = {}
<1> SUFFICES ASSUME NEW top \in D PROVE FALSE
    OBVIOUS
<1> DEFINE A == {i \in D : i <= top}
           down == [i \in A |-> i - 1]
<1>1. IsFiniteSet(A)
  <2>1. A \in SUBSET Nat /\ top \in Nat /\ \A i \in A : i <= top
      OBVIOUS
  <2> HIDE DEF A
  <2> QED
      BY <2>1, FS_BoundedSetOfNaturals
<1>2. down \in [A -> A]
  <2>1. \A i \in A : i - 1 \in A
      OBVIOUS
  <2> QED
      BY <2>1
<1>3. down \in Injection(A, A)
  <2>1. \A i, j \in A : down[i] = down[j] => i = j
      OBVIOUS
  <2>2. DOMAIN down = A
      OBVIOUS
  <2> HIDE DEF down, A
  <2> QED
      BY <1>2, <2>1, <2>2 DEF Injection, IsInjective
<1> HIDE DEF down
<1>4. down \in Surjection(A, A)
  <2> HIDE DEF A
  <2> QED
      BY <1>1, <1>3, FS_Injection
<1>5. top \in A
    OBVIOUS
<1>6. PICK i \in A : down[i] = top
    BY <1>4, <1>5 DEF Surjection
<1> QED
    BY <1>6 DEF down

LEMMA RunningTotalUnique ==
    ASSUME NEW s, Len(s) \in Nat, \A i \in 1 .. Len(s) : s[i].size \in Int,
           NEW f, RunningTotal(f, s), NEW g, RunningTotal(g, s)
    PROVE  f[Len(s)] = g[Len(s)]
<1> DEFINE D == {i \in 0 .. Len(s) : f[i] # g[i]}
<1>1. /\ \A i \in 0 .. Len(s) : f[i] \in Int /\ g[i] \in Int
      /\ f[0] = 0 /\ g[0] = 0
      /\ \A i \in 1 .. Len(s) : f[i] = f[i - 1] + s[i].size /\ g[i] = g[i - 1] + s[i].size
    BY DEF RunningTotal
<1>2. D \in SUBSET Nat /\ 0 \notin D
    BY <1>1
<1>3. ASSUME NEW i \in D PROVE i - 1 \in D
  <2>1. i \in 1 .. Len(s) /\ i - 1 \in 0 .. Len(s)
      BY <1>2
  <2>2. f[i] # g[i]
      OBVIOUS
  <2>3. f[i - 1] # g[i - 1]
      BY <1>1, <2>1, <2>2
  <2> QED
      BY <2>1, <2>3
<1>4. D = {}
  <2> HIDE DEF D
  <2> QED
      BY <1>2, <1>3, NoDescent
<1> QED
    BY <1>4

\* TotalSize is the last value of any running total.
LEMMA TotalSizeIs ==
    ASSUME NEW s \in Seq(Chunk), NEW n, SumsTo(s, n)
    PROVE  TotalSize(s) = n
<1>1. PICK f : RunningTotal(f, s) /\ f[Len(s)] = n
    BY DEF SumsTo
<1>2. Len(s) \in Nat /\ \A i \in 1 .. Len(s) : s[i].size \in Int
  <2>1. Len(s) \in Nat /\ \A i \in 1 .. Len(s) : s[i] \in Chunk
      OBVIOUS
  <2> QED
      BY <2>1, ChunkFields
<1>3. f = [i \in 0 .. Len(s) |-> IF i = 0 THEN 0 ELSE f[i - 1] + s[i].size]
  <2>1. f \in [0 .. Len(s) -> Int] /\ f[0] = 0
        /\ \A i \in 1 .. Len(s) : f[i] = f[i - 1] + s[i].size
      BY <1>1 DEF RunningTotal
  <2>2. \A i \in 0 .. Len(s) : f[i] = IF i = 0 THEN 0 ELSE f[i - 1] + s[i].size
      BY <1>2, <2>1
  <2> QED
      BY <2>1, <2>2
<1>4. PICK g : /\ g = [i \in 0 .. Len(s) |-> IF i = 0 THEN 0 ELSE g[i - 1] + s[i].size]
               /\ TotalSize(s) = g[Len(s)]
    BY <1>3 DEF TotalSize
<1>5. RunningTotal(g, s)
  <2>1. DOMAIN g = 0 .. Len(s) /\ g[0] = 0
      BY <1>2, <1>4
  <2>2. \A i \in 1 .. Len(s) : g[i] = g[i - 1] + s[i].size
      BY <1>2, <1>4
  <2>3. \A i \in 0 .. Len(s) : g[i] \in Int
    <3> DEFINE D == {i \in 0 .. Len(s) : g[i] \notin Int}
    <3>1. D \in SUBSET Nat /\ 0 \notin D
        BY <1>2, <2>1
    <3>2. ASSUME NEW i \in D PROVE i - 1 \in D
      <4>1. i \in 1 .. Len(s) /\ i - 1 \in 0 .. Len(s)
          BY <1>2, <3>1
      <4>2. g[i] = g[i - 1] + s[i].size /\ s[i].size \in Int
          BY <1>2, <2>2, <4>1
      <4>3. g[i - 1] \notin Int
          BY <4>2
      <4> QED
          BY <4>1, <4>3
    <3>3. D = {}
      <4> HIDE DEF D
      <4> QED
          BY <3>1, <3>2, NoDescent
    <3> QED
        BY <3>3
  <2> QED
      BY <1>4, <2>1, <2>2, <2>3 DEF RunningTotal
<1> QED
    BY <1>1, <1>2, <1>4, <1>5, RunningTotalUnique

\* How a total moves with the sequence.
LEMMA SumsToEmpty == SumsTo(<<>>, 0)
<1> DEFINE f == [i \in 0 .. 0 |-> 0]
<1>1. Len(<<>>) = 0
    OBVIOUS
<1>2. RunningTotal(f, <<>>) /\ f[0] = 0
    BY <1>1 DEF RunningTotal
<1> QED
    BY <1>1, <1>2 DEF SumsTo

LEMMA SumsToAppend ==
    ASSUME NEW s \in Seq(Chunk), NEW n, SumsTo(s, n), NEW c \in Chunk
    PROVE  SumsTo(Append(s, c), n + c.size)
<1>1. PICK f : RunningTotal(f, s) /\ f[Len(s)] = n
    BY DEF SumsTo
<1> DEFINE t == Append(s, c)
           g == [i \in 0 .. Len(s) + 1 |-> IF i = Len(s) + 1 THEN n + c.size ELSE f[i]]
<1>2. /\ Len(s) \in Nat /\ Len(t) = Len(s) + 1
      /\ \A i \in 1 .. Len(s) : t[i] = s[i]
      /\ t[Len(s) + 1] = c
    OBVIOUS
<1>3. c.size \in Int
    BY ChunkFields
<1>4. /\ f \in [0 .. Len(s) -> Int] /\ f[0] = 0 /\ n \in Int
      /\ \A i \in 1 .. Len(s) : f[i] = f[i - 1] + s[i].size
    BY <1>1, <1>2 DEF RunningTotal
<1> HIDE DEF t
<1>5. g \in [0 .. Len(t) -> Int] /\ g[0] = 0 /\ g[Len(t)] = n + c.size
    BY <1>2, <1>3, <1>4
<1>6. \A i \in 1 .. Len(t) : g[i] = g[i - 1] + t[i].size
  <2> TAKE i \in 1 .. Len(t)
  <2>1. CASE i = Len(s) + 1
      BY <1>1, <1>2, <2>1
  <2>2. CASE i # Len(s) + 1
      BY <1>2, <1>4, <2>2
  <2> QED
      BY <2>1, <2>2
<1> HIDE DEF g
<1>7. SumsTo(t, n + c.size)
    BY <1>5, <1>6 DEF RunningTotal, SumsTo
<1> QED
    BY <1>7 DEF t

LEMMA SumsToTail ==
    ASSUME NEW s \in Seq(Chunk), s # <<>>, NEW n, SumsTo(s, n)
    PROVE  SumsTo(Tail(s), n - Head(s).size)
<1>1. PICK f : RunningTotal(f, s) /\ f[Len(s)] = n
    BY DEF SumsTo
<1> DEFINE t == Tail(s)
           g == [i \in 0 .. Len(s) - 1 |-> f[i + 1] - s[1].size]
<1>2. /\ Len(s) \in Nat /\ Len(s) >= 1 /\ Len(t) = Len(s) - 1 /\ Head(s) = s[1]
      /\ \A i \in 1 .. Len(s) - 1 : t[i] = s[i + 1]
      /\ \A i \in 1 .. Len(s) : s[i] \in Chunk
    OBVIOUS
<1>3. \A i \in 1 .. Len(s) : s[i].size \in Int
    BY <1>2, ChunkFields
<1>4. /\ f \in [0 .. Len(s) -> Int] /\ f[0] = 0 /\ n \in Int
      /\ \A i \in 0 .. Len(s) : f[i] \in Int
      /\ \A i \in 1 .. Len(s) : f[i] = f[i - 1] + s[i].size
    BY <1>1, <1>2 DEF RunningTotal
<1> HIDE DEF t
<1>5. g \in [0 .. Len(t) -> Int] /\ g[0] = 0 /\ g[Len(t)] = n - s[1].size
  <2>1. f[1] = s[1].size
      BY <1>2, <1>3, <1>4
  <2> QED
      BY <1>1, <1>2, <1>3, <1>4, <2>1
<1>6. \A i \in 1 .. Len(t) : g[i] = g[i - 1] + t[i].size
  <2> TAKE i \in 1 .. Len(t)
  <2>1. /\ i + 1 \in 1 .. Len(s) /\ i \in 1 .. Len(s) /\ (i + 1) - 1 = i
        /\ i + 1 \in 0 .. Len(s) /\ i \in 0 .. Len(s) /\ 1 \in 1 .. Len(s)
        /\ t[i] = s[i + 1]
      BY <1>2
  <2>2. f[i + 1] = f[i] + s[i + 1].size
      BY <1>4, <2>1
  <2>3. f[i + 1] \in Int /\ f[i] \in Int /\ s[i + 1].size \in Int /\ s[1].size \in Int
      BY <1>2, <1>3, <1>4, <2>1
  <2>4. i \in 0 .. Len(s) - 1 /\ i - 1 \in 0 .. Len(s) - 1 /\ (i - 1) + 1 = i
      BY <1>2
  <2>5. g[i] = f[i + 1] - s[1].size
      BY <2>4
  <2>6. g[i - 1] = f[(i - 1) + 1] - s[1].size
      BY <2>4
  <2> HIDE DEF g
  <2> QED
      BY <2>1, <2>2, <2>3, <2>4, <2>5, <2>6
<1> HIDE DEF g
<1>7. SumsTo(t, n - s[1].size)
    BY <1>5, <1>6 DEF RunningTotal, SumsTo
<1> QED
    BY <1>2, <1>7 DEF t

-----------------------------------------------------------------------------
(* The queue's operators keep queuedBytes the sum of pending.              *)

Accounted(q) == SumsTo(q.pending, q.queuedBytes)

LEMMA EnqueueAccounts ==
    ASSUME NEW q \in Queue, Accounted(q), NEW c \in Chunk
    PROVE  Accounted(Enqueue(q, c))
<1> DEFINE r == Enqueue(q, c)
<1>1. \/ r.pending = q.pending /\ r.queuedBytes = q.queuedBytes
      \/ r.pending = Append(q.pending, c) /\ r.queuedBytes = q.queuedBytes + c.size
      \/ r.pending = <<>> /\ r.queuedBytes = 0
      \/ r.pending = Append(<<>>, c) /\ r.queuedBytes = c.size
  <2>1. CASE c.kind = "keyframe"
    <3>1. r = EnqueueKeyframe(q, c)
        BY <2>1 DEF Enqueue
    <3> HIDE DEF r
    <3> QED
        BY <3>1, EnqueueKeyframeShape
  <2>2. CASE c.kind = "description"
    <3>1. r = EnqueueDescription(q, c)
        BY <2>2 DEF Enqueue
    <3> HIDE DEF r
    <3> QED
        BY <3>1, EnqueueDescriptionShape
  <2>3. CASE c.kind \in {"delta", "seed"}
    <3>1. r = EnqueueDelta(q, c)
        BY <2>3 DEF Enqueue
    <3> HIDE DEF r
    <3> QED
        BY <3>1, EnqueueDeltaShape
  <2>4. CASE c.kind = "heartbeat" \/ c.kind = "disposableDelta"
    <3>1. r = EnqueueHeartbeat(q, c) \/ r = EnqueueDisposable(q, c)
        BY <2>4 DEF Enqueue
    <3> HIDE DEF r
    <3>2. r = q \/ (r.pending = Append(q.pending, c) /\ r.queuedBytes = q.queuedBytes + c.size)
        BY <3>1, EnqueueOptionalShape
    <3> QED
        BY <3>2
  <2> QED
      BY <2>1, <2>2, <2>3, <2>4, ChunkFields DEF Kind, VideoKind
<1> HIDE DEF r
<1>2. SumsTo(Append(<<>>, c), c.size)
  <2>1. <<>> \in Seq(Chunk) /\ 0 + c.size = c.size
      BY ChunkFields
  <2>2. SumsTo(Append(<<>>, c), 0 + c.size)
      BY <2>1, SumsToEmpty, SumsToAppend
  <2> QED
      BY <2>1, <2>2
<1>3. SumsTo(Append(q.pending, c), q.queuedBytes + c.size)
    BY QueueFields, SumsToAppend DEF Accounted
<1>4. Accounted(r)
    BY <1>1, <1>2, <1>3, SumsToEmpty DEF Accounted
<1> QED
    BY <1>4 DEF r

LEMMA BeginNextWriteAccounts ==
    ASSUME NEW q \in Queue, Accounted(q), ~IsEmpty(q)
    PROVE  Accounted(BeginNextWrite(q))
<1> DEFINE r == BeginNextWrite(q)
<1>1. \/ r.pending = q.pending /\ r.queuedBytes = q.queuedBytes
      \/ /\ q.pending # <<>>
         /\ r.pending = Tail(q.pending)
         /\ r.queuedBytes = q.queuedBytes - Head(q.pending).size
    BY BeginNextWriteShape
<1> HIDE DEF r
<1>2. q.pending # <<>> => SumsTo(Tail(q.pending), q.queuedBytes - Head(q.pending).size)
    BY QueueFields, SumsToTail DEF Accounted
<1>3. Accounted(r)
    BY <1>1, <1>2 DEF Accounted
<1> QED
    BY <1>3 DEF r

\* The same of EnqueueChunk, which a closed client ignores.
LEMMA OfferAccounts ==
    ASSUME TypeOK, Accounted(queue), NEW c \in Chunk, EnqueueChunk(c)
    PROVE  Accounted(queue')
BY EnqueueAccounts DEF EnqueueChunk, TypeOK

LEMMA NextAccounts == TypeOK /\ Accounted(queue) /\ [Next]_vars => Accounted(queue')
<1> SUFFICES ASSUME TypeOK, Accounted(queue), [Next]_vars PROVE Accounted(queue')
    OBVIOUS
<1>1. /\ queue \in Queue
      /\ source.session \in Nat /\ source.ref \in Nat
      /\ source.session + 1 \in Nat /\ source.ref + 1 \in Nat
    BY DEF TypeOK
<1>2. CASE Produce
  <2>1. ASSUME NEW n \in Sizes["description"], NewSession(n) PROVE Accounted(queue')
      BY <1>1, <2>1, ChunkOfIsChunk, OfferAccounts DEF NewSession, Kind, VideoKind
  <2>2. ASSUME NEW n \in Sizes["keyframe"], EmitKeyframe(n) PROVE Accounted(queue')
      BY <1>1, <2>2, ChunkOfIsChunk, OfferAccounts DEF EmitKeyframe, Kind, VideoKind
  <2>3. ASSUME NEW n \in Sizes["delta"], EmitDelta(n) PROVE Accounted(queue')
      BY <1>1, <2>3, ChunkOfIsChunk, OfferAccounts DEF EmitDelta, Kind, VideoKind
  <2>4. ASSUME NEW n \in Sizes["disposableDelta"], EmitDisposable(n) PROVE Accounted(queue')
      BY <1>1, <2>4, ChunkOfIsChunk, OfferAccounts DEF EmitDisposable, Kind, VideoKind
  <2>5. ASSUME NEW n \in Sizes["heartbeat"], EmitHeartbeat(n) PROVE Accounted(queue')
      BY <1>1, <2>5, ChunkOfIsChunk, OfferAccounts DEF EmitHeartbeat, Kind, VideoKind
  <2>6. ASSUME NEW n \in Sizes["description"], SendInitialAvcc(n) PROVE Accounted(queue')
    <3>1. CASE closed
        BY <2>6, <3>1 DEF SendInitialAvcc
    <3>2. CASE ~closed
      <4>1. queue' = GreetDescription(queue, n)
          BY <2>6, <3>2 DEF SendInitialAvcc
      <4>2. ChunkOf("description", source.session, 0, n) \in Chunk
          BY <1>1, ChunkOfIsChunk DEF Kind, VideoKind
      <4> QED
          BY <1>1, <4>1, <4>2, EnqueueAccounts DEF GreetDescription
    <3> QED
        BY <3>1, <3>2
  <2>7. ASSUME NEW n \in Sizes["seed"], SendSeed(n) PROVE Accounted(queue')
      BY <1>1, <2>7, ChunkOfIsChunk, OfferAccounts DEF SendSeed, Kind, VideoKind
  <2> QED
      BY <1>2, <2>1, <2>2, <2>3, <2>4, <2>5, <2>6, <2>7 DEF Produce
<1>3. CASE BeginWrite
    BY <1>1, <1>3, BeginNextWriteAccounts DEF BeginWrite
<1>4. CASE EndWrite \/ FailWrite \/ SampleHighWater
    BY <1>1, <1>4, CompleteWriteShape, SampleQueueShape
       DEF EndWrite, FailWrite, SampleHighWater, Accounted
<1>5. CASE CloseAfterFailure \/ Close
    BY <1>1, <1>5, ClearShape, SumsToEmpty DEF CloseAfterFailure, Close, Accounted
<1>6. CASE Sleep \/ ReturnClosed \/ UNCHANGED vars
    BY <1>6 DEF Sleep, ReturnClosed, vars
<1> QED
    BY <1>2, <1>3, <1>4, <1>5, <1>6 DEF Next, Drain

\* The byte count the admission rules compare with the limit is the sum of
\* what is queued, after any appends, cuts, writes and close().
\* (AVCCSendQueue.append, discardPending, beginNextWrite, clear)
THEOREM BytesExact == Spec => []BytesAccounted
<1>1. Init => Accounted(queue)
    BY SumsToEmpty DEF Init, EmptyQueue, Accounted
<1>2. TypeOK /\ Accounted(queue) /\ [Next]_vars => Accounted(queue)'
    BY NextAccounts
<1>3. TypeOK /\ Accounted(queue) => BytesAccounted
    BY QueueFields, TotalSizeIs DEF TypeOK, Accounted, BytesAccounted
<1> QED
    BY <1>1, <1>2, <1>3, TypeCorrect, PTL DEF Spec
=============================================================================
