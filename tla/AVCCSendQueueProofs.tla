------------------------- MODULE AVCCSendQueueProofs -------------------------
(* Lemmas about the queue operators: what each returns, for every limit and *)
(* chunk size.                                                              *)
EXTENDS AVCCSendQueue, TLAPS

\* The types of a queue's and of a chunk's fields.
LEMMA QueueFields ==
    ASSUME NEW q \in Queue
    PROVE  /\ q.pending \in Seq(Chunk)
           /\ q.description \in Chunk \cup {NoChunk}
           /\ q.queuedBytes \in Int
           /\ q.inFlightBytes \in Nat
           /\ q.needKeyframe \in BOOLEAN
           /\ q.sampleHighWater \in Int
           /\ Pressure(q) \in Int
BY DEF Queue, Pressure

LEMMA ChunkFields ==
    ASSUME NEW c \in Chunk
    PROVE  /\ c.kind \in Kind
           /\ c.kind # "none"
           /\ c # NoChunk
           /\ c.session \in Nat
           /\ c.ref \in Nat
           /\ c.size \in 1 .. MaxChunk
           /\ c.size \in Nat
           /\ MaxChunk \in Nat
<1>1. /\ c.kind \in Kind
      /\ c.session \in Nat
      /\ c.ref \in Nat
      /\ c.size \in 1 .. MaxChunk
    BY DEF Chunk
<1>2. c.kind # "none"
    BY <1>1 DEF Kind, VideoKind
<1>3. NoChunk.kind = "none"
    BY DEF NoChunk
<1>4. MaxChunk \in Nat /\ c.size \in Nat
    BY <1>1, QueueAssumption
<1> QED
    BY <1>1, <1>2, <1>3, <1>4

LEMMA EmptyIsQueue == EmptyQueue \in Queue
BY 0 \in Int, 0 \in Nat, <<>> \in Seq(Chunk) DEF EmptyQueue, Queue

\* Replacing the chunks and their byte count leaves the other fields alone.
LEMMA Replaced ==
    ASSUME NEW q \in Queue, NEW s \in Seq(Chunk), NEW n \in Int
    PROVE  LET r == WithPending(q, s, n) IN
           /\ r \in Queue
           /\ r.pending = s
           /\ r.queuedBytes = n
           /\ r.description = q.description
           /\ r.inFlightBytes = q.inFlightBytes
           /\ r.needKeyframe = q.needKeyframe
BY DEF WithPending, Queue

\* Raising the high-water sample touches no other field.
LEMMA UpdateHighWaterShape ==
    ASSUME NEW q \in Queue
    PROVE  LET r == UpdateHighWater(q) IN
           /\ r \in Queue
           /\ r.pending = q.pending
           /\ r.queuedBytes = q.queuedBytes
           /\ r.description = q.description
           /\ r.inFlightBytes = q.inFlightBytes
           /\ r.needKeyframe = q.needKeyframe
BY DEF UpdateHighWater, Pressure, Queue

\* Appending a chunk keeps the record a queue and touches nothing else.
LEMMA AppendChunkShape ==
    ASSUME NEW q \in Queue, NEW c \in Chunk
    PROVE  LET r == AppendChunk(q, c) IN
           /\ r \in Queue
           /\ r.pending = Append(q.pending, c)
           /\ r.queuedBytes = q.queuedBytes + c.size
           /\ r.description = q.description
           /\ r.inFlightBytes = q.inFlightBytes
           /\ r.needKeyframe = q.needKeyframe
<1> DEFINE longer == WithPending(q, Append(q.pending, c), q.queuedBytes + c.size)
<1>1. Append(q.pending, c) \in Seq(Chunk) /\ q.queuedBytes + c.size \in Int
    BY QueueFields, ChunkFields
<1>2. AppendChunk(q, c) = UpdateHighWater(longer)
    BY DEF AppendChunk
<1>3. /\ longer \in Queue
      /\ longer.pending = Append(q.pending, c)
      /\ longer.queuedBytes = q.queuedBytes + c.size
      /\ longer.description = q.description
      /\ longer.inFlightBytes = q.inFlightBytes
      /\ longer.needKeyframe = q.needKeyframe
    BY <1>1, Replaced
<1> HIDE DEF longer
<1> QED
    BY <1>2, <1>3, UpdateHighWaterShape

\* Discarding empties the pending chunks and their byte count.
LEMMA DiscardPendingShape ==
    ASSUME NEW q \in Queue
    PROVE  LET r == DiscardPending(q) IN
           /\ r \in Queue
           /\ r.pending = <<>>
           /\ r.queuedBytes = 0
           /\ r.description = q.description
           /\ r.inFlightBytes = q.inFlightBytes
           /\ r.needKeyframe = q.needKeyframe
BY 0 \in Int, <<>> \in Seq(Chunk), Replaced DEF DiscardPending

\* Opening or closing the delta gate.
LEMMA GateShape ==
    ASSUME NEW q \in Queue, NEW g \in BOOLEAN
    PROVE  LET r == [q EXCEPT !.needKeyframe = g] IN
           /\ r \in Queue
           /\ r.pending = q.pending
           /\ r.queuedBytes = q.queuedBytes
           /\ r.description = q.description
           /\ r.inFlightBytes = q.inFlightBytes
           /\ r.needKeyframe = g
BY DEF Queue

-----------------------------------------------------------------------------
\* A keyframe opens the gate; it is appended, or it replaces what is pending
\* when the gate was closed or the limit is exceeded.
LEMMA EnqueueKeyframeShape ==
    ASSUME NEW q \in Queue, NEW c \in Chunk
    PROVE  LET r == EnqueueKeyframe(q, c) IN
           /\ r \in Queue
           /\ r.description = q.description
           /\ r.inFlightBytes = q.inFlightBytes
           /\ r.needKeyframe = FALSE
           /\ \/ /\ q.needKeyframe \/ ~Fits(q, c, Limit)
                 /\ r.pending = Append(<<>>, c)
                 /\ r.queuedBytes = c.size
              \/ /\ ~q.needKeyframe
                 /\ Fits(q, c, Limit)
                 /\ r.pending = Append(q.pending, c)
                 /\ r.queuedBytes = q.queuedBytes + c.size
<1> DEFINE cut  == q.needKeyframe \/ ~Fits(q, c, Limit)
           base == IF cut THEN DiscardPending(q) ELSE q
           open == [base EXCEPT !.needKeyframe = FALSE]
<1>1. EnqueueKeyframe(q, c) = AppendChunk(open, c)
    BY DEF EnqueueKeyframe
<1>2. /\ base \in Queue
      /\ base.description = q.description
      /\ base.inFlightBytes = q.inFlightBytes
      /\ cut => base.pending = <<>> /\ base.queuedBytes = 0
      /\ ~cut => base.pending = q.pending /\ base.queuedBytes = q.queuedBytes
    BY DiscardPendingShape
<1>3. ~cut <=> ~q.needKeyframe /\ Fits(q, c, Limit)
    BY QueueFields
<1> HIDE DEF base, cut
<1>4. /\ open \in Queue
      /\ open.pending = base.pending
      /\ open.queuedBytes = base.queuedBytes
      /\ open.description = base.description
      /\ open.inFlightBytes = base.inFlightBytes
      /\ open.needKeyframe = FALSE
    BY <1>2, GateShape
<1> HIDE DEF open
<1>5. LET r == EnqueueKeyframe(q, c) IN
      /\ r \in Queue
      /\ r.pending = Append(base.pending, c)
      /\ r.queuedBytes = base.queuedBytes + c.size
      /\ r.description = q.description
      /\ r.inFlightBytes = q.inFlightBytes
      /\ r.needKeyframe = FALSE
    BY <1>1, <1>2, <1>4, AppendChunkShape
<1>6. 0 + c.size = c.size
    BY ChunkFields
<1> QED
    BY <1>2, <1>3, <1>5, <1>6 DEF cut

\* A description closes the gate and takes its own slot; queued video goes.
LEMMA EnqueueDescriptionShape ==
    ASSUME NEW q \in Queue, NEW c \in Chunk
    PROVE  LET r == EnqueueDescription(q, c) IN
           /\ r \in Queue
           /\ r.description = c
           /\ r.inFlightBytes = q.inFlightBytes
           /\ r.needKeyframe = TRUE
           /\ \/ /\ r.pending = <<>>
                 /\ r.queuedBytes = 0
              \/ /\ \A i \in DOMAIN q.pending : ~IsVideo(q.pending[i])
                 /\ r.pending = q.pending
                 /\ r.queuedBytes = q.queuedBytes
<1> DEFINE video == \E i \in DOMAIN q.pending : IsVideo(q.pending[i])
           base  == IF video THEN DiscardPending(q) ELSE q
<1>1. /\ base \in Queue
      /\ base.inFlightBytes = q.inFlightBytes
      /\ video => base.pending = <<>> /\ base.queuedBytes = 0
      /\ ~video => base.pending = q.pending /\ base.queuedBytes = q.queuedBytes
    BY DiscardPendingShape
<1>2. EnqueueDescription(q, c) = [base EXCEPT !.description = c, !.needKeyframe = TRUE]
    BY DEF EnqueueDescription
<1> HIDE DEF base
<1>3. LET r == EnqueueDescription(q, c) IN
      /\ r \in Queue
      /\ r.description = c
      /\ r.inFlightBytes = base.inFlightBytes
      /\ r.needKeyframe = TRUE
      /\ r.pending = base.pending
      /\ r.queuedBytes = base.queuedBytes
    BY <1>1, <1>2, TRUE \in BOOLEAN DEF Queue
<1> QED
    BY <1>1, <1>3

\* A delta or a seed is appended under the limit, else it closes the gate.
LEMMA EnqueueDeltaShape ==
    ASSUME NEW q \in Queue, NEW c \in Chunk
    PROVE  LET r == EnqueueDelta(q, c) IN
           /\ r \in Queue
           /\ r.description = q.description
           /\ r.inFlightBytes = q.inFlightBytes
           /\ AdmitsDelta(q, c) =>
                /\ r.needKeyframe = q.needKeyframe
                /\ r.pending = Append(q.pending, c)
                /\ r.queuedBytes = q.queuedBytes + c.size
           /\ ~AdmitsDelta(q, c) =>
                /\ r.needKeyframe = TRUE
                /\ r.pending = q.pending
                /\ r.queuedBytes = q.queuedBytes
<1>1. CASE AdmitsDelta(q, c)
    BY <1>1, AppendChunkShape DEF EnqueueDelta
<1>2. CASE ~AdmitsDelta(q, c)
    BY <1>2, GateShape DEF EnqueueDelta
<1> QED
    BY <1>1, <1>2

\* A heartbeat or a disposable delta is appended or dropped without a trace.
LEMMA EnqueueOptionalShape ==
    ASSUME NEW q \in Queue, NEW c \in Chunk, NEW r,
           \/ r = EnqueueHeartbeat(q, c)
           \/ r = EnqueueDisposable(q, c)
    PROVE  /\ r \in Queue
           /\ r.description = q.description
           /\ r.inFlightBytes = q.inFlightBytes
           /\ r.needKeyframe = q.needKeyframe
           /\ \/ r = q
              \/ /\ Fits(q, c, Limit)
                 /\ r = EnqueueDisposable(q, c) => ~q.needKeyframe
                 /\ r.pending = Append(q.pending, c)
                 /\ r.queuedBytes = q.queuedBytes + c.size
<1>1. CASE r = q
    BY <1>1
<1>2. CASE r # q
  <2>1. r = AppendChunk(q, c)
      BY <1>2 DEF EnqueueHeartbeat, EnqueueDisposable
  <2>2. Fits(q, c, Limit) \/ AdmitsDisposable(q, c)
      BY <1>2 DEF EnqueueHeartbeat, EnqueueDisposable
  <2>3. r = EnqueueDisposable(q, c) => ~q.needKeyframe
      BY <1>2 DEF EnqueueDisposable, AdmitsDisposable
  <2>4. Limit \in Nat /\ Limit \div 2 \in Nat /\ Limit \div 2 <= Limit
      BY QueueAssumption
  <2>5. Fits(q, c, Limit \div 2) => Fits(q, c, Limit)
      BY <2>4, QueueFields, ChunkFields DEF Fits
  <2>6. Fits(q, c, Limit)
      BY <2>2, <2>5 DEF AdmitsDisposable
  <2> QED
      BY <2>1, <2>3, <2>6, AppendChunkShape
<1> QED
    BY <1>1, <1>2

-----------------------------------------------------------------------------
\* The writer takes the description, else the first pending chunk.
LEMMA BeginNextWriteShape ==
    ASSUME NEW q \in Queue, ~IsEmpty(q)
    PROVE  LET r == BeginNextWrite(q) IN
           /\ r \in Queue
           /\ NextChunk(q) \in Chunk
           /\ r.inFlightBytes = NextChunk(q).size
           /\ r.description = NoChunk
           /\ r.needKeyframe = q.needKeyframe
           /\ \/ /\ q.description # NoChunk
                 /\ NextChunk(q) = q.description
                 /\ r.pending = q.pending
                 /\ r.queuedBytes = q.queuedBytes
              \/ /\ q.description = NoChunk
                 /\ q.pending # <<>>
                 /\ NextChunk(q) = Head(q.pending)
                 /\ r.pending = Tail(q.pending)
                 /\ r.queuedBytes = q.queuedBytes - NextChunk(q).size
<1> DEFINE next == NextChunk(q)
           rest == IF next = q.description
                   THEN [q EXCEPT !.description = NoChunk]
                   ELSE WithPending(q, Tail(q.pending), q.queuedBytes - next.size)
           busy == [rest EXCEPT !.inFlightBytes = next.size]
<1>1. next \in Chunk
    BY QueueFields DEF NextChunk, IsEmpty
<1>2. next.size \in Nat /\ next # NoChunk
    BY <1>1, ChunkFields
<1>3. BeginNextWrite(q) = UpdateHighWater(busy)
    BY DEF BeginNextWrite
<1>4. /\ rest \in Queue
      /\ rest.description = NoChunk
      /\ rest.needKeyframe = q.needKeyframe
      /\ \/ /\ q.description # NoChunk
            /\ next = q.description
            /\ rest.pending = q.pending
            /\ rest.queuedBytes = q.queuedBytes
         \/ /\ q.description = NoChunk
            /\ q.pending # <<>>
            /\ next = Head(q.pending)
            /\ rest.pending = Tail(q.pending)
            /\ rest.queuedBytes = q.queuedBytes - next.size
  <2>1. CASE q.description # NoChunk
    <3>1. next = q.description
        BY <2>1 DEF NextChunk
    <3>2. rest = [q EXCEPT !.description = NoChunk]
        BY <3>1
    <3> HIDE DEF next, rest
    <3> QED
        BY <2>1, <3>1, <3>2 DEF Queue
  <2>2. CASE q.description = NoChunk
    <3>1. next = Head(q.pending) /\ next # q.description /\ q.pending # <<>>
        BY <1>2, <2>2 DEF NextChunk, IsEmpty
    <3>2. rest = WithPending(q, Tail(q.pending), q.queuedBytes - next.size)
        BY <3>1
    <3>3. Tail(q.pending) \in Seq(Chunk) /\ q.queuedBytes - next.size \in Int
        BY <1>2, <3>1, QueueFields
    <3> HIDE DEF next, rest
    <3> QED
        BY <2>2, <3>1, <3>2, <3>3, Replaced
  <2> QED
      BY <2>1, <2>2
<1> HIDE DEF rest, next
<1>5. /\ busy \in Queue
      /\ busy.inFlightBytes = next.size
      /\ busy.pending = rest.pending
      /\ busy.queuedBytes = rest.queuedBytes
      /\ busy.description = rest.description
      /\ busy.needKeyframe = rest.needKeyframe
    BY <1>2, <1>4 DEF Queue
<1> HIDE DEF busy
<1>6. LET r == BeginNextWrite(q) IN
      /\ r \in Queue
      /\ r.inFlightBytes = next.size
      /\ r.pending = rest.pending
      /\ r.queuedBytes = rest.queuedBytes
      /\ r.description = rest.description
      /\ r.needKeyframe = rest.needKeyframe
    BY <1>3, <1>5, UpdateHighWaterShape
<1> QED
    BY <1>1, <1>4, <1>6 DEF next

\* completeWrite and sampleHighWater touch only their own field.
LEMMA CompleteWriteShape ==
    ASSUME NEW q \in Queue
    PROVE  LET r == CompleteWrite(q) IN
           /\ r \in Queue
           /\ r.inFlightBytes = 0
           /\ r.pending = q.pending
           /\ r.queuedBytes = q.queuedBytes
           /\ r.description = q.description
           /\ r.needKeyframe = q.needKeyframe
BY 0 \in Nat DEF CompleteWrite, Queue

LEMMA SampleQueueShape ==
    ASSUME NEW q \in Queue
    PROVE  LET r == SampleQueue(q) IN
           /\ r \in Queue
           /\ r.inFlightBytes = q.inFlightBytes
           /\ r.pending = q.pending
           /\ r.queuedBytes = q.queuedBytes
           /\ r.description = q.description
           /\ r.needKeyframe = q.needKeyframe
<1>1. Pressure(q) \in Int
    BY QueueFields
<1> QED
    BY <1>1 DEF SampleQueue, Queue

LEMMA ClearShape ==
    ASSUME NEW q \in Queue
    PROVE  LET r == Clear(q) IN
           /\ r \in Queue
           /\ r.inFlightBytes = 0
           /\ r.pending = <<>>
           /\ r.queuedBytes = 0
           /\ r.description = NoChunk
           /\ r.needKeyframe = FALSE
<1>1. q.sampleHighWater \in Int
    BY QueueFields
<1> QED
    BY <1>1, EmptyIsQueue DEF Clear, Queue, EmptyQueue
=============================================================================
