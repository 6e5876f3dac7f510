--------------------------- MODULE AVCCChainProofs ---------------------------
(* The reference chain of one viewer, for every limit, every chunk size and *)
(* any number of frames and sessions: IInv is inductive, hence what is      *)
(* written is decodable, the stream converges, and AVCCClient implements    *)
(* DecodableStream.                                                         *)
EXTENDS AVCCClientProofs

-----------------------------------------------------------------------------
(* Sequences of chunks.                                                    *)

LEMMA AppendFacts ==
    ASSUME NEW s \in Seq(Chunk), NEW c \in Chunk
    PROVE  /\ Len(s) \in Nat
           /\ DOMAIN s = 1 .. Len(s)
           /\ Len(Append(s, c)) = Len(s) + 1
           /\ DOMAIN Append(s, c) = 1 .. Len(s) + 1
           /\ \A i \in 1 .. Len(s) : Append(s, c)[i] = s[i]
           /\ Append(s, c)[Len(s) + 1] = c
           /\ \A i \in 1 .. Len(s) : s[i] \in Chunk
OBVIOUS

LEMMA SingletonFacts ==
    ASSUME NEW c \in Chunk
    PROVE  /\ Len(Append(<<>>, c)) = 1
           /\ DOMAIN Append(<<>>, c) = 1 .. 1
           /\ Append(<<>>, c)[1] = c
OBVIOUS

LEMMA TailFacts ==
    ASSUME NEW s \in Seq(Chunk), s # <<>>
    PROVE  /\ Len(s) \in Nat /\ Len(s) > 0
           /\ DOMAIN s = 1 .. Len(s)
           /\ Head(s) = s[1]
           /\ Len(Tail(s)) = Len(s) - 1
           /\ DOMAIN Tail(s) = 1 .. Len(s) - 1
           /\ \A i \in 1 .. Len(s) - 1 : Tail(s)[i] = s[i + 1]
           /\ \A i \in 1 .. Len(s) : s[i] \in Chunk
OBVIOUS

\* What enqueue does to the pending chunks, the description slot and the
\* gate, by the kind of the chunk.
LEMMA EnqueueOutcome ==
    ASSUME NEW q \in Queue, NEW c \in Chunk
    PROVE  LET r == Enqueue(q, c) IN
           /\ c.kind # "description" => r.description = q.description
           /\ c.kind = "keyframe" =>
                /\ ~r.needKeyframe
                /\ \/ r.pending = Append(q.pending, c)
                   \/ r.pending = Append(<<>>, c)
           /\ c.kind = "delta" =>
                \/ ~q.needKeyframe /\ ~r.needKeyframe /\ r.pending = Append(q.pending, c)
                \/ r.needKeyframe /\ r.pending = q.pending
           /\ c.kind = "disposableDelta" =>
                /\ r.needKeyframe = q.needKeyframe
                /\ \/ r.pending = q.pending
                   \/ ~q.needKeyframe /\ r.pending = Append(q.pending, c)
           /\ c.kind \in {"heartbeat", "seed"} =>
                \/ r.needKeyframe = q.needKeyframe /\ r.pending = q.pending
                \/ r.needKeyframe = q.needKeyframe /\ r.pending = Append(q.pending, c)
                \/ r.needKeyframe /\ r.pending = q.pending
           /\ c.kind = "description" =>
                /\ r.description = c
                /\ r.needKeyframe
                /\ \/ r.pending = <<>>
                   \/ /\ r.pending = q.pending
                      /\ \A i \in DOMAIN q.pending : ~IsVideo(q.pending[i])
<1> DEFINE r == Enqueue(q, c)
<1>1. CASE c.kind = "keyframe"
  <2>1. r = EnqueueKeyframe(q, c)
      BY <1>1 DEF Enqueue
  <2> HIDE DEF r
  <2> QED
      BY <1>1, <2>1, EnqueueKeyframeShape DEF r
<1>2. CASE c.kind = "description"
  <2>1. r = EnqueueDescription(q, c)
      BY <1>2 DEF Enqueue
  <2> HIDE DEF r
  <2>2. /\ r.description = c
        /\ r.needKeyframe
        /\ \/ r.pending = <<>>
           \/ /\ r.pending = q.pending
              /\ \A i \in DOMAIN q.pending : ~IsVideo(q.pending[i])
      BY <2>1, EnqueueDescriptionShape
  <2> QED
      BY <1>2, <2>2 DEF r
<1>3. CASE c.kind \in {"delta", "seed"}
  <2>1. r = EnqueueDelta(q, c)
      BY <1>3 DEF Enqueue
  <2>2. c.kind = "delta" /\ AdmitsDelta(q, c) => ~q.needKeyframe
      BY DEF AdmitsDelta
  <2> HIDE DEF r
  <2>3. /\ r.description = q.description
        /\ AdmitsDelta(q, c) =>
             r.needKeyframe = q.needKeyframe /\ r.pending = Append(q.pending, c)
        /\ ~AdmitsDelta(q, c) => r.needKeyframe /\ r.pending = q.pending
      BY <2>1, EnqueueDeltaShape
  <2> QED
      BY <1>3, <2>2, <2>3 DEF r
<1>4. CASE c.kind = "heartbeat" \/ c.kind = "disposableDelta"
  <2>1. /\ r = EnqueueHeartbeat(q, c) \/ r = EnqueueDisposable(q, c)
        /\ c.kind = "disposableDelta" => r = EnqueueDisposable(q, c)
      BY <1>4 DEF Enqueue
  <2> HIDE DEF r
  <2>2. /\ r.description = q.description
        /\ r.needKeyframe = q.needKeyframe
        /\ \/ r = q
           \/ /\ r = EnqueueDisposable(q, c) => ~q.needKeyframe
              /\ r.pending = Append(q.pending, c)
      BY <2>1, EnqueueOptionalShape
  <2> QED
      BY <1>4, <2>1, <2>2 DEF r
<1> QED
    BY <1>1, <1>2, <1>3, <1>4, ChunkFields DEF Kind, VideoKind

\* The same of EnqueueChunk: a closed client keeps its (empty) queue, and the
\* writer is woken or left.
LEMMA OfferOutcome ==
    ASSUME queue \in Queue, NEW c \in Chunk, EnqueueChunk(c)
    PROVE  /\ closed => queue' = queue
           /\ ~closed => queue' = Enqueue(queue, c)
           /\ writer' = "writing" <=> writer = "writing"
           /\ writer' = "failed" <=> writer = "failed"
           /\ writer' = "returned" <=> writer = "returned"
BY DEF EnqueueChunk, WakeOnEnqueue

-----------------------------------------------------------------------------
(* One lemma per way a step can change what the chain depends on.          *)

\* The thread stays on its side of a write, and returns only once closed.
WriterStays ==
    /\ writer' = "writing" <=> writer = "writing"
    /\ writer' = "failed" <=> writer = "failed"
    /\ writer' = "returned" => closed

\* A greeted viewer is greeted still; one that is now greeted has no encoder
\* session to be told about.
GreetingStays == greeted' = greeted \/ closed \/ source'.session = 0

LEMMA InvFields ==
    ASSUME TypeOK
    PROVE  /\ queue.pending \in Seq(Chunk)
           /\ Len(queue.pending) \in Nat
           /\ DOMAIN queue.pending = 1 .. Len(queue.pending)
           /\ \A i \in DOMAIN queue.pending :
                queue.pending[i] \in Chunk /\ queue.pending[i].ref \in Nat
                /\ queue.pending[i].session \in Nat
           /\ queue.description \in Chunk \cup {NoChunk}
           /\ queue.needKeyframe \in BOOLEAN
           /\ inFlight \in Chunk \cup {NoChunk}
           /\ inFlight.session \in Nat /\ inFlight.ref \in Nat
           /\ decoder.session \in Nat /\ decoder.ref \in Nat /\ decoder.base \in Nat
           /\ source.session \in Nat /\ source.ref \in Nat /\ source.idrDue \in BOOLEAN
<1>1. queue \in Queue /\ queue.pending \in Seq(Chunk)
    BY QueueFields DEF TypeOK
<1>2. \A i \in DOMAIN queue.pending : queue.pending[i] \in Chunk
    BY <1>1
<1>3. inFlight.session \in Nat /\ inFlight.ref \in Nat
    BY ChunkFields DEF TypeOK, NoChunk
<1> QED
    BY <1>1, <1>2, <1>3, QueueFields, ChunkFields DEF TypeOK

LEMMA NewFields ==
    ASSUME TypeOK'
    PROVE  /\ queue'.pending \in Seq(Chunk)
           /\ DOMAIN queue'.pending = 1 .. Len(queue'.pending)
           /\ Len(queue'.pending) \in Nat
           /\ queue'.needKeyframe \in BOOLEAN
           /\ source'.session \in Nat /\ source'.ref \in Nat /\ source'.idrDue \in BOOLEAN
           /\ decoder'.session \in Nat /\ decoder'.ref \in Nat /\ decoder'.base \in Nat
<1>1. queue' \in Queue
    BY DEF TypeOK
<1> QED
    BY <1>1, QueueFields DEF TypeOK

\* The queue keeps its chunks; its gate may close.
LEMMA KeptStep ==
    ASSUME IInv, TypeOK', WriterStays, GreetingStays,
           queue'.pending = queue.pending,
           queue'.description = queue.description,
           queue.needKeyframe => queue'.needKeyframe,
           UNCHANGED <<closed, inFlight, decoder>>,
           source.session <= source'.session,
           source'.session # source.session => closed,
           source.ref <= source'.ref,
           source'.ref = source.ref \/ queue'.needKeyframe \/ closed,
           SourceInv'
    PROVE  IInv'
<1>1. TypeOK
    BY DEF IInv
<1>2. Live' <=> Live
    BY DEF Live, WriterStays
<1>3. closed => queue.pending = <<>> /\ queue.description = NoChunk
    BY DEF IInv, WriterInv, IsEmpty
<1>4. WriterInv'
    BY DEF IInv, WriterInv, WriterStays, IsEmpty
<1>5. DecoderInv'
    BY <1>1, InvFields, NewFields DEF IInv, DecoderInv
<1>6. (Configuring' <=> Configuring)
    BY DEF Configuring
<1>7. SessionInv'
  <2>1. CASE closed
      BY <1>1, <1>2, <1>3, <2>1, InvFields, NewFields DEF IInv, SessionInv, Live
  <2>2. CASE ~closed
    <3>1. source'.session = source.session
        BY <2>2
    <3> QED
        BY <1>1, <1>2, <1>6, <3>1, InvFields, NewFields DEF IInv, SessionInv
  <2> QED
      BY <2>1, <2>2
<1>8. OrderInv'
    BY DEF IInv, OrderInv
<1>9. \A j, m : Linked(j, m)' <=> Linked(j, m)
    BY <1>6 DEF Linked, Link
<1>10. ChainInv'
    BY <1>1, <1>2, <1>9, InvFields DEF IInv, ChainInv, Live
<1>11. KeyframeAhead' <=> KeyframeAhead
    BY <1>6 DEF KeyframeAhead
<1>12. StartedInv'
  <2> SUFFICES ASSUME Live', greeted', source'.session > 0
               PROVE  /\ Configuring' \/ decoder'.session > 0
                      /\ ~queue'.needKeyframe => KeyframeAhead'
      BY DEF StartedInv
  <2>1. ~closed /\ Live
      BY <1>2 DEF Live
  <2>2. source'.session = source.session /\ source'.session # 0
      BY <2>1, NewFields
  <2>3. greeted
      BY <2>1, <2>2 DEF GreetingStays
  <2>4. /\ Configuring \/ decoder.session > 0
        /\ ~queue.needKeyframe => KeyframeAhead
      BY <2>1, <2>2, <2>3 DEF IInv, StartedInv
  <2> QED
      BY <1>6, <1>11, <2>4
<1>13. InFlightDecodable'
    BY DEF IInv, InFlightDecodable
<1> QED
    BY <1>4, <1>5, <1>7, <1>8, <1>10, <1>12, <1>13 DEF IInv

\* Appending a chunk breaks no link, and what finds its reference after it
\* finds it in the chunk, or did before.
LEMMA LinkedAppend ==
    ASSUME TypeOK, NEW c \in Chunk, NEW m, NEW n, n = Len(queue.pending),
           queue'.pending = Append(queue.pending, c),
           queue'.description = queue.description,
           UNCHANGED <<inFlight, decoder>>
    PROVE  /\ \A j \in 1 .. n + 1 : Linked(j, m) => Linked(j, m)'
           /\ IsReference(c) /\ c.ref = m => Linked(n + 2, m)'
           /\ ~IsReference(c) /\ Linked(n + 1, m) => Linked(n + 2, m)'
<1>1. /\ n \in Nat /\ DOMAIN queue.pending = 1 .. n
      /\ DOMAIN queue'.pending = 1 .. n + 1
      /\ \A i \in 1 .. n : queue'.pending[i] = queue.pending[i]
      /\ queue'.pending[n + 1] = c
    BY InvFields, AppendFacts
<1>2. Link(m)' <=> Link(m)
    BY DEF Link, Configuring
<1>3. ASSUME NEW j \in 1 .. n + 1, Linked(j, m) PROVE Linked(j, m)'
  <2>1. \A i \in 1 .. n + 1 : i < j => i \in 1 .. n
      BY <1>1
  <2> QED
      BY <1>1, <1>2, <1>3, <2>1 DEF Linked
<1>4. ASSUME IsReference(c), c.ref = m PROVE Linked(n + 2, m)'
  <2>1. n + 1 \in 1 .. n + 1 /\ n + 1 < n + 2
      BY <1>1
  <2> QED
      BY <1>1, <1>4, <2>1 DEF Linked
<1>5. ASSUME ~IsReference(c), Linked(n + 1, m) PROVE Linked(n + 2, m)'
  <2>1. \A i \in 1 .. n + 1 : i \in 1 .. n \/ i = n + 1
      BY <1>1
  <2>2. \A i \in 1 .. n : i < n + 1 /\ i < n + 2 /\ i \in 1 .. n + 1
      BY <1>1
  <2> QED
      BY <1>1, <1>2, <1>5, <2>1, <2>2 DEF Linked
<1> QED
    BY <1>3, <1>4, <1>5

\* The queue takes a chunk behind those it has: not a description, video of
\* the current session, a delta only through an open gate.
LEMMA AppendedStep ==
    ASSUME IInv, TypeOK', WriterStays, GreetingStays, ~closed, NEW c \in Chunk,
           queue'.pending = Append(queue.pending, c),
           queue'.description = queue.description,
           UNCHANGED <<closed, inFlight, decoder>>,
           source'.session = source.session,
           c.kind # "description",
           IsVideo(c) => c.session = source.session /\ c.ref \in 1 .. source'.ref,
           IF IsReference(c) THEN source'.ref = source.ref + 1 /\ c.ref = source.ref + 1
                             ELSE source'.ref = source.ref,
           c.kind = "delta" => ~queue.needKeyframe,
           c.kind = "disposableDelta" => ~queue.needKeyframe /\ c.ref = source.ref,
           ~queue'.needKeyframe => ~queue.needKeyframe \/ c.kind = "keyframe",
           SourceInv'
    PROVE  IInv'
<1>1. TypeOK
    BY DEF IInv
<1>0. PICK n \in Nat : n = Len(queue.pending)
    BY <1>1, InvFields
<1>2. /\ n \in Nat /\ DOMAIN queue.pending = 1 .. n
      /\ DOMAIN queue'.pending = 1 .. n + 1
      /\ Len(queue'.pending) = n + 1
      /\ \A i \in 1 .. n : queue'.pending[i] = queue.pending[i]
      /\ queue'.pending[n + 1] = c
      /\ \A i \in 1 .. n + 1 : i \in 1 .. n \/ i = n + 1
      /\ \A i \in 1 .. n : i \in 1 .. n + 1
    BY <1>0, <1>1, InvFields, AppendFacts
<1>3. Live' <=> Live
    BY DEF Live, WriterStays
<1>4. Configuring' <=> Configuring
    BY DEF Configuring
<1>5. /\ source.session \in Nat /\ source.ref \in Nat
      /\ source.ref <= source'.ref
      /\ source'.ref \in Nat
    BY <1>1, InvFields
<1>6. \A i \in 1 .. n : IsVideo(queue.pending[i]) => queue.pending[i].ref \in 1 .. source.ref
    BY <1>2 DEF IInv, SessionInv
<1>7. WriterInv'
    BY <1>1 DEF IInv, WriterInv, WriterStays
<1>8. DecoderInv'
    BY <1>1, <1>5, InvFields DEF IInv, DecoderInv
<1>9. SessionInv'
  <2>1. \A i \in 1 .. n + 1 :
           /\ queue'.pending[i].kind # "description"
           /\ IsVideo(queue'.pending[i]) =>
                /\ queue'.pending[i].session = source'.session
                /\ queue'.pending[i].ref \in 1 .. source'.ref
    <3>1. ASSUME NEW i \in 1 .. n
          PROVE  /\ queue'.pending[i].kind # "description"
                 /\ IsVideo(queue'.pending[i]) =>
                      /\ queue'.pending[i].session = source'.session
                      /\ queue'.pending[i].ref \in 1 .. source'.ref
        BY <1>2, <1>5, <1>6 DEF IInv, SessionInv
    <3> QED
        BY <1>2, <3>1
  <2>2. IsVideo(inFlight) => inFlight.ref \in 1 .. source'.ref
      BY <1>5 DEF IInv, SessionInv
  <2> QED
      BY <1>2, <1>3, <1>4, <2>1, <2>2 DEF IInv, SessionInv
<1>10. OrderInv'
  <2>1. ASSUME NEW i \in 1 .. n + 1, NEW j \in 1 .. n + 1, i < j,
               IsVideo(queue'.pending[i]), IsVideo(queue'.pending[j])
        PROVE  /\ queue'.pending[i].ref <= queue'.pending[j].ref
               /\ IsReference(queue'.pending[j]) =>
                        queue'.pending[i].ref < queue'.pending[j].ref
    <3>1. i \in 1 .. n
        BY <1>2, <2>1
    <3>2. CASE j \in 1 .. n
        BY <1>2, <2>1, <3>1, <3>2 DEF IInv, OrderInv
    <3>3. CASE j = n + 1
      <4>1. queue'.pending[i].ref \in 1 .. source.ref
          BY <1>2, <1>6, <2>1, <3>1
      <4>2. source.ref <= c.ref /\ (IsReference(c) => source.ref < c.ref)
          BY <1>2, <1>5, <2>1, <3>3 DEF IsVideo, VideoKind, IsReference
      <4>3. c.ref \in Nat
          BY ChunkFields
      <4> QED
          BY <1>2, <1>5, <3>3, <4>1, <4>2, <4>3
    <3> QED
        BY <1>2, <3>2, <3>3
  <2>2. ASSUME NEW i \in 1 .. n + 1, IsReference(queue'.pending[i])
        PROVE  /\ queue'.pending[i].ref > decoder'.ref
               /\ IsVideo(inFlight') => queue'.pending[i].ref > inFlight'.ref
    <3>1. CASE i \in 1 .. n
        BY <1>2, <2>2, <3>1 DEF IInv, OrderInv
    <3>2. CASE i = n + 1
      <4>1. c.ref = source.ref + 1
          BY <1>2, <2>2, <3>2
      <4>2. decoder.ref <= source.ref /\ decoder.ref \in Nat
          BY <1>1, InvFields DEF IInv, DecoderInv
      <4>3. IsVideo(inFlight) => inFlight.ref \in 1 .. source.ref
          BY DEF IInv, SessionInv
      <4> QED
          BY <1>2, <1>5, <3>2, <4>1, <4>2, <4>3
    <3> QED
        BY <1>2, <3>1, <3>2
  <2> QED
      BY <1>2, <2>1, <2>2 DEF IInv, OrderInv
<1>11. ChainInv'
  <2> SUFFICES ASSUME Live
               PROVE  /\ \A j \in 1 .. n + 1 :
                            /\ queue'.pending[j].kind = "delta" =>
                                  Linked(j, queue.pending[j].ref - 1)'
                            /\ queue'.pending[j].kind = "disposableDelta" =>
                                  Linked(j, queue.pending[j].ref)'
                      /\ ~queue'.needKeyframe => Linked(n + 2, source.ref)'
    <3>1. Len(queue'.pending) + 1 = n + 2
        BY <1>2
    <3> QED
        BY <1>2, <1>3, <3>1 DEF ChainInv
  <2>1. ASSUME NEW m
        PROVE  /\ \A j \in 1 .. n + 1 : Linked(j, m) => Linked(j, m)'
               /\ IsReference(c) /\ c.ref = m => Linked(n + 2, m)'
               /\ ~IsReference(c) /\ Linked(n + 1, m) => Linked(n + 2, m)'
      BY <1>0, <1>1, LinkedAppend
  <2>2. ~queue.needKeyframe => Linked(n + 1, source.ref)
      BY <1>0 DEF IInv, ChainInv
  <2>3. ASSUME NEW j \in 1 .. n + 1
        PROVE  /\ queue'.pending[j].kind = "delta" =>
                        Linked(j, queue.pending[j].ref - 1)'
               /\ queue'.pending[j].kind = "disposableDelta" =>
                        Linked(j, queue.pending[j].ref)'
    <3>1. CASE j \in 1 .. n
      <4>1. /\ queue'.pending[j] = queue.pending[j]
            /\ queue.pending[j].kind = "delta" => Linked(j, queue.pending[j].ref - 1)
            /\ queue.pending[j].kind = "disposableDelta" => Linked(j, queue.pending[j].ref)
          BY <1>2, <3>1 DEF IInv, ChainInv
      <4>2. \A m : Linked(j, m) => Linked(j, m)'
          BY <2>1
      <4> QED
          BY <4>1, <4>2
    <3>2. CASE j = n + 1
      <4>0. PICK r \in Nat : r = source.ref
          BY <1>5
      <4>1. c.kind = "delta" => c.ref - 1 = r /\ Linked(n + 1, r)
          BY <1>5, <2>2, <4>0 DEF IsReference
      <4>2. c.kind = "disposableDelta" => c.ref = r /\ Linked(n + 1, r)
          BY <2>2, <4>0
      <4>3. Linked(n + 1, r) => Linked(n + 1, r)'
          BY <2>1, n + 1 \in 1 .. n + 1
      <4>4. queue'.pending[j] = c
          BY <1>2, <3>2
      <4> QED
          BY <3>2, <4>1, <4>2, <4>3, <4>4
    <3> QED
        BY <1>2, <3>1, <3>2
  <2>4. ASSUME ~queue'.needKeyframe
        PROVE  Linked(n + 2, source.ref)'
    <3>1. CASE IsReference(c)
        BY <2>1, <3>1
    <3>2. CASE ~IsReference(c)
      <4>1. source'.ref = source.ref /\ Linked(n + 1, source.ref)
          BY <2>2, <2>4, <3>2 DEF IsReference
      <4> QED
          BY <2>1, <3>2, <4>1
    <3> QED
        BY <3>1, <3>2
  <2> QED
      BY <2>3, <2>4
<1>12. StartedInv'
  <2> SUFFICES ASSUME Live', greeted', source'.session > 0
               PROVE  /\ Configuring' \/ decoder'.session > 0
                      /\ ~queue'.needKeyframe => KeyframeAhead'
      BY DEF StartedInv
  <2>0. source'.session # 0
      BY <1>5
  <2>1. greeted
      BY <2>0 DEF GreetingStays
  <2>2. /\ Configuring \/ decoder.session > 0
        /\ ~queue.needKeyframe => KeyframeAhead
      BY <1>3, <2>1 DEF IInv, StartedInv
  <2>3. KeyframeAhead \/ c.kind = "keyframe" => KeyframeAhead'
    <3>1. n + 1 \in 1 .. n + 1
        BY <1>2
    <3> QED
        BY <1>2, <1>4, <3>1 DEF KeyframeAhead
  <2> QED
      BY <1>4, <2>2, <2>3
<1>13. InFlightDecodable'
    BY DEF IInv, InFlightDecodable
<1> QED
    BY <1>7, <1>8, <1>9, <1>10, <1>11, <1>12, <1>13 DEF IInv

\* A keyframe takes the place of everything that was pending.
LEMMA RestartStep ==
    ASSUME IInv, TypeOK', WriterStays, ~closed, NEW c \in Chunk,
           c.kind = "keyframe",
           queue'.pending = Append(<<>>, c),
           queue'.description = queue.description,
           UNCHANGED <<closed, inFlight, greeted, decoder>>,
           source'.session = source.session,
           source'.ref = source.ref + 1,
           c.session = source.session,
           c.ref = source.ref + 1,
           SourceInv'
    PROVE  IInv'
<1>1. TypeOK
    BY DEF IInv
<1>2. /\ DOMAIN queue'.pending = 1 .. 1 /\ Len(queue'.pending) = 1
      /\ queue'.pending[1] = c
      /\ \A i \in 1 .. 1 : i = 1
      /\ 1 \in 1 .. 1
    BY SingletonFacts
<1>3. IsVideo(c) /\ IsReference(c)
    BY DEF IsVideo, VideoKind, IsReference
<1>4. Live' <=> Live
    BY DEF Live, WriterStays
<1>5. Configuring' <=> Configuring
    BY DEF Configuring
<1>6. /\ source.session \in Nat /\ source.ref \in Nat
      /\ decoder.ref \in Nat /\ decoder.ref <= source.ref
      /\ IsVideo(inFlight) => inFlight.ref \in 1 .. source.ref
    BY <1>1, InvFields DEF IInv, DecoderInv, SessionInv
<1>7. WriterInv'
    BY DEF IInv, WriterInv, WriterStays
<1>8. DecoderInv'
    BY <1>6 DEF IInv, DecoderInv
<1>9. SessionInv'
  <2>1. c.ref \in 1 .. source'.ref
      BY <1>6
  <2>2. IsVideo(inFlight) => inFlight.ref \in 1 .. source'.ref
      BY <1>6
  <2> QED
      BY <1>2, <1>4, <1>5, <2>1, <2>2 DEF IInv, SessionInv
<1>10. OrderInv'
  <2>1. c.ref > decoder'.ref /\ (IsVideo(inFlight') => c.ref > inFlight'.ref)
      BY <1>6
  <2>2. \A i, j \in 1 .. 1 : ~(i < j)
      OBVIOUS
  <2> QED
      BY <1>2, <2>1, <2>2 DEF IInv, OrderInv
<1>11. ChainInv'
  <2>1. PICK r \in Nat : r = source'.ref
      BY <1>6
  <2>2. Linked(2, r)'
      BY <1>2, <1>3, <2>1, 1 < 2 DEF Linked
  <2>3. Len(queue'.pending) + 1 = 2
      BY <1>2
  <2>4. queue'.pending[1].kind = "keyframe"
      BY <1>2
  <2> QED
      BY <1>2, <2>1, <2>2, <2>3, <2>4 DEF ChainInv
<1>12. StartedInv'
  <2>1. KeyframeAhead'
      BY <1>2 DEF KeyframeAhead
  <2> QED
      BY <1>4, <1>5, <2>1 DEF IInv, StartedInv
<1>13. InFlightDecodable'
    BY DEF IInv, InFlightDecodable
<1> QED
    BY <1>7, <1>8, <1>9, <1>10, <1>11, <1>12, <1>13 DEF IInv

\* The queue holds the description of the encoder's session, and no video.
LEMMA DescribedStep ==
    ASSUME IInv, TypeOK', WriterStays, ~closed, NEW c \in Chunk,
           c.kind = "description",
           queue'.description = c,
           queue'.needKeyframe,
           \A i \in DOMAIN queue'.pending :
                queue'.pending[i].kind # "description" /\ ~IsVideo(queue'.pending[i]),
           UNCHANGED <<closed, inFlight, decoder>>,
           c.session = source'.session,
           source'.session > 0,
           source.session <= source'.session,
           source'.ref = source.ref,
           SourceInv'
    PROVE  IInv'
<1>1. TypeOK
    BY DEF IInv
<1>2. Configuring'
    BY ChunkFields DEF Configuring
<1>3. Live' <=> Live
    BY DEF Live, WriterStays
<1>4. \A k : IsReference(k) => IsVideo(k)
    BY DEF IsReference, IsVideo, VideoKind
<1>5. WriterInv'
    BY DEF IInv, WriterInv, WriterStays
<1>6. DecoderInv'
    BY <1>1, InvFields, NewFields DEF IInv, DecoderInv
<1>7. SessionInv'
  <2>1. inFlight.kind = "description" =>
            inFlight.session \in decoder.session .. source'.session /\ inFlight.session > 0
      BY <1>1, InvFields, NewFields DEF IInv, SessionInv
  <2>2. c # NoChunk
      BY ChunkFields
  <2> QED
      BY <1>2, <2>1, <2>2 DEF IInv, SessionInv
<1>8. OrderInv'
    BY <1>4 DEF IInv, OrderInv
<1>9. ChainInv'
  <2>1. \A i \in DOMAIN queue'.pending :
            queue'.pending[i].kind \notin {"delta", "disposableDelta"}
      BY DEF IsVideo, VideoKind
  <2> QED
      BY <2>1 DEF ChainInv
<1>10. StartedInv'
    BY <1>2 DEF StartedInv
<1>11. InFlightDecodable'
    BY DEF IInv, InFlightDecodable
<1> QED
    BY <1>5, <1>6, <1>7, <1>8, <1>9, <1>10, <1>11 DEF IInv

\* A client that closes, or whose write failed, has nothing to keep.
LEMMA CloseStep ==
    ASSUME IInv, TypeOK', closed',
           queue'.pending = <<>>, queue'.description = NoChunk,
           writer' = "writing" <=> writer = "writing",
           UNCHANGED <<inFlight, greeted, source, decoder>>
    PROVE  IInv'
<1>1. DOMAIN queue'.pending = {}
    OBVIOUS
<1>2. ~Live'
    BY DEF Live
<1>3. SourceInv' /\ DecoderInv' /\ InFlightDecodable'
    BY DEF IInv, SourceInv, DecoderInv, InFlightDecodable
<1>4. WriterInv'
    BY DEF IInv, WriterInv, IsEmpty
<1>5. SessionInv' /\ OrderInv'
    BY <1>1, <1>2 DEF IInv, SessionInv, OrderInv
<1>6. ChainInv' /\ StartedInv'
    BY <1>2 DEF ChainInv, StartedInv
<1> QED
    BY <1>3, <1>4, <1>5, <1>6 DEF IInv

LEMMA FailStep ==
    ASSUME IInv, TypeOK', FailWrite
    PROVE  IInv'
<1>1. /\ queue'.pending = queue.pending
      /\ queue'.description = queue.description
    BY CompleteWriteShape DEF FailWrite, IInv, TypeOK
<1>2. /\ writer' = "failed" /\ inFlight' = NoChunk
      /\ UNCHANGED <<closed, greeted, source, decoder>>
    BY DEF FailWrite
<1>3. ~Live' /\ ~IsVideo(inFlight') /\ ~IsReference(inFlight') /\ inFlight'.kind = "none"
    BY <1>2 DEF Live, IsVideo, VideoKind, IsReference, NoChunk
<1>4. SourceInv' /\ DecoderInv' /\ InFlightDecodable'
    BY <1>2, <1>3 DEF IInv, SourceInv, DecoderInv, InFlightDecodable
<1>5. WriterInv'
    BY <1>1, <1>2 DEF IInv, WriterInv, IsEmpty
<1>6. SessionInv' /\ OrderInv'
    BY <1>1, <1>2, <1>3 DEF IInv, SessionInv, OrderInv
<1>7. ChainInv' /\ StartedInv'
    BY <1>3 DEF ChainInv, StartedInv
<1> QED
    BY <1>4, <1>5, <1>6, <1>7 DEF IInv

\* What the decoder makes of the chunk that arrived, by the chunk's kind.
LEMMA DecodedFields ==
    ASSUME TypeOK, NEW d, d = Decoded(decoder, inFlight)
    PROVE  \/ /\ inFlight.kind = "description"
              /\ d = [session |-> inFlight.session, ref |-> 0, base |-> 0]
           \/ /\ inFlight.kind = "keyframe" /\ decoder.session > 0
              /\ d.session = decoder.session /\ d.ref = inFlight.ref
              /\ d.base = inFlight.ref
           \/ /\ inFlight.kind = "delta" /\ decoder.ref > 0
              /\ d.session = decoder.session /\ d.ref = inFlight.ref
              /\ d.base = decoder.base
           \/ /\ inFlight.kind # "description"
              /\ inFlight.kind = "keyframe" => ~(decoder.session > 0)
              /\ inFlight.kind = "delta" => ~(decoder.ref > 0)
              /\ d = decoder
BY DEF Decoded, TypeOK

\* The chunk being written arrives: where it was about to leave the decoder,
\* the decoder is.
LEMMA EndStep ==
    ASSUME IInv, TypeOK', EndWrite
    PROVE  IInv'
<1>1. /\ writer = "writing" /\ writer' = "ready" /\ inFlight' = NoChunk
      /\ decoder' = Decoded(decoder, inFlight)
      /\ UNCHANGED <<closed, requested, greeted, source>>
    BY DEF EndWrite
<1>2. TypeOK
    BY DEF IInv
<1>3. /\ queue'.pending = queue.pending
      /\ queue'.description = queue.description
      /\ queue'.needKeyframe = queue.needKeyframe
    BY <1>2, CompleteWriteShape DEF EndWrite, TypeOK
<1>4. /\ inFlight'.kind = "none"
      /\ ~IsVideo(inFlight') /\ ~IsReference(inFlight')
    BY <1>1 DEF IsVideo, VideoKind, IsReference, NoChunk
<1>5. Live' <=> Live
    BY <1>1 DEF Live
<1>6. \/ /\ inFlight.kind = "description"
         /\ decoder'.session = inFlight.session /\ decoder'.ref = 0
      \/ /\ inFlight.kind \in {"keyframe", "delta"}
         /\ decoder.session > 0
         /\ decoder'.session = decoder.session /\ decoder'.ref = inFlight.ref
      \/ /\ inFlight.kind # "description"
         /\ IsReference(inFlight) => decoder.ref = 0
         /\ inFlight.kind = "keyframe" => decoder.session = 0
         /\ inFlight.kind = "delta" => decoder.ref = 0
         /\ decoder' = decoder
  <2>1. /\ decoder.session \in Nat /\ decoder.ref \in Nat
        /\ decoder.session = 0 => decoder.ref = 0
      BY <1>2, InvFields DEF IInv, DecoderInv
  <2>2. decoder.ref > 0 => decoder.session > 0
      BY <2>1
  <2> QED
      BY <1>1, <1>2, <2>1, <2>2, DecodedFields DEF IsReference
<1>7. /\ inFlight.session \in Nat /\ inFlight.ref \in Nat
      /\ decoder.session \in Nat /\ decoder.ref \in Nat
      /\ source.session \in Nat /\ source.ref \in Nat
    BY <1>2, InvFields
<1>8. inFlight.kind \in {"keyframe", "delta"} <=> IsReference(inFlight)
    BY DEF IsReference
<1>9. IsReference(inFlight) => IsVideo(inFlight)
    BY DEF IsReference, IsVideo, VideoKind
<1>10. IsVideo(inFlight) => inFlight.ref \in 1 .. source.ref
    BY DEF IInv, SessionInv
<1>11. SourceInv'
    BY <1>1 DEF IInv, SourceInv
<1>12. WriterInv'
    BY <1>1, <1>3 DEF IInv, WriterInv, IsEmpty
<1>13. DecoderInv'
  <2>1. inFlight.kind = "description" =>
            inFlight.session > 0 /\ inFlight.session <= source.session
      BY <1>7 DEF IInv, SessionInv
  <2> QED
      BY <1>1, <1>6, <1>7, <1>8, <1>9, <1>10, <2>1 DEF IInv, DecoderInv
<1>14. SessionInv'
  <2>1. ASSUME Live, queue.description = NoChunk
        PROVE  decoder'.session \in {0, source.session}
    <3>1. CASE inFlight.kind = "description"
        BY <1>6, <2>1, <3>1 DEF IInv, SessionInv
    <3>2. CASE inFlight.kind # "description"
        BY <1>6, <2>1, <3>2 DEF IInv, SessionInv, Configuring
    <3> QED
        BY <3>1, <3>2
  <2>2. \A i \in DOMAIN queue.pending :
            /\ queue.pending[i].kind # "description"
            /\ IsVideo(queue.pending[i]) =>
                    /\ queue.pending[i].session = source.session
                    /\ queue.pending[i].ref \in 1 .. source.ref
      BY DEF IInv, SessionInv
  <2>3. queue.description # NoChunk =>
            /\ queue.description.kind = "description"
            /\ queue.description.session = source.session
            /\ source.session > 0
      BY DEF IInv, SessionInv
  <2>4. ~Configuring' => queue.description = NoChunk
      BY <1>3 DEF Configuring
  <2> QED
      BY <1>1, <1>3, <1>4, <1>5, <2>1, <2>2, <2>3, <2>4 DEF SessionInv
<1>15. OrderInv'
  <2>1. ASSUME NEW i \in DOMAIN queue.pending, IsReference(queue.pending[i])
        PROVE  queue.pending[i].ref > decoder'.ref
    <3>1. queue.pending[i].ref > decoder.ref /\ queue.pending[i].ref \in Nat
        BY <1>2, <2>1, InvFields DEF IInv, OrderInv
    <3>2. IsVideo(inFlight) => queue.pending[i].ref > inFlight.ref
        BY <2>1 DEF IInv, OrderInv
    <3> QED
        BY <1>6, <1>7, <1>8, <1>9, <3>1, <3>2
  <2> QED
      BY <1>3, <1>4, <2>1 DEF IInv, OrderInv
<1>16. ASSUME NEW j, NEW m, Linked(j, m) PROVE Linked(j, m)'
  <2>1. Link(m) => Link(m)'
    <3>1. CASE queue.description # NoChunk
        BY <1>3, <3>1 DEF Link, Configuring
    <3>2. CASE queue.description = NoChunk /\ inFlight.kind = "description"
        BY <1>4, <1>6, <3>2 DEF Link
    <3>3. CASE queue.description = NoChunk /\ inFlight.kind # "description"
        BY <1>4, <1>6, <1>8, <3>3 DEF Link, Configuring
    <3> QED
        BY <3>1, <3>2, <3>3
  <2> QED
      BY <1>3, <1>16, <2>1 DEF Linked
<1>17. ChainInv'
  <2> SUFFICES ASSUME Live
               PROVE  /\ \A j \in DOMAIN queue.pending :
                            /\ queue.pending[j].kind = "delta" =>
                                    Linked(j, queue.pending[j].ref - 1)'
                            /\ queue.pending[j].kind = "disposableDelta" =>
                                    Linked(j, queue.pending[j].ref)'
                      /\ ~queue.needKeyframe =>
                            Linked(Len(queue.pending) + 1, source.ref)'
      BY <1>1, <1>3, <1>5 DEF ChainInv
  <2>1. ASSUME NEW j \in DOMAIN queue.pending
        PROVE  /\ queue.pending[j].kind = "delta" =>
                        Linked(j, queue.pending[j].ref - 1)'
               /\ queue.pending[j].kind = "disposableDelta" =>
                        Linked(j, queue.pending[j].ref)'
      BY <1>3, <1>16 DEF IInv, ChainInv
  <2>2. ~queue.needKeyframe => Linked(Len(queue.pending) + 1, source.ref)'
      BY <1>1, <1>3, <1>16 DEF IInv, ChainInv
  <2> QED
      BY <2>1, <2>2
<1>18. StartedInv'
  <2> SUFFICES ASSUME Live, greeted, source.session > 0
               PROVE  /\ Configuring' \/ decoder'.session > 0
                      /\ ~queue.needKeyframe => KeyframeAhead'
      BY <1>1, <1>3, <1>5 DEF StartedInv
  <2>1. /\ Configuring \/ decoder.session > 0
        /\ ~queue.needKeyframe => KeyframeAhead
      BY DEF IInv, StartedInv
  <2>2. Configuring' <=> queue.description # NoChunk
      BY <1>3, <1>4 DEF Configuring
  <2>3. Configuring' \/ decoder'.session > 0
    <3>1. inFlight.kind = "description" => inFlight.session > 0
        BY DEF IInv, SessionInv
    <3> QED
        BY <1>6, <2>1, <2>2, <3>1 DEF Configuring
  <2>4. KeyframeAhead => KeyframeAhead'
    <3>1. CASE \E i \in DOMAIN queue.pending : queue.pending[i].kind = "keyframe"
        BY <1>3, <3>1 DEF KeyframeAhead
    <3>2. CASE ~Configuring /\ (inFlight.kind = "keyframe" \/ decoder.ref > 0)
      <4>1. decoder.session > 0 /\ ~Configuring' /\ inFlight.kind # "description"
          BY <2>1, <2>2, <3>2 DEF Configuring
      <4>2. decoder'.ref > 0
          BY <1>6, <1>7, <1>8, <1>9, <1>10, <3>2, <4>1
      <4> QED
          BY <4>1, <4>2 DEF KeyframeAhead
    <3> QED
        BY <3>1, <3>2 DEF KeyframeAhead
  <2> QED
      BY <2>1, <2>3, <2>4
<1>19. InFlightDecodable'
    BY <1>4 DEF InFlightDecodable
<1> QED
    BY <1>11, <1>12, <1>13, <1>14, <1>15, <1>17, <1>18, <1>19 DEF IInv

\* The writer takes the description: the decoder is about to be configured.
LEMMA BeginDescriptionStep ==
    ASSUME IInv, TypeOK', ~closed, writer = "ready", writer' = "writing",
           queue.description # NoChunk,
           inFlight' = queue.description,
           queue'.description = NoChunk,
           queue'.pending = queue.pending,
           queue'.needKeyframe = queue.needKeyframe,
           UNCHANGED <<closed, greeted, source, decoder>>
    PROVE  IInv'
<1>1. TypeOK
    BY DEF IInv
<1>2. /\ queue.description.kind = "description"
      /\ queue.description.session = source.session
      /\ source.session > 0
    BY DEF IInv, SessionInv
<1>3. /\ Configuring /\ Configuring'
      /\ ~IsVideo(inFlight') /\ ~IsReference(inFlight')
    BY <1>2 DEF Configuring, IsVideo, VideoKind, IsReference
<1>4. Live' <=> Live
    BY DEF Live
<1>5. SourceInv' /\ DecoderInv'
    BY DEF IInv, SourceInv, DecoderInv
<1>6. WriterInv'
  <2>1. ~closed /\ inFlight' # NoChunk
      OBVIOUS
  <2> QED
      BY <2>1 DEF WriterInv
<1>7. SessionInv'
  <2>1. inFlight'.session \in decoder'.session .. source'.session
      BY <1>1, <1>2, InvFields DEF IInv, DecoderInv
  <2> QED
      BY <1>2, <1>3, <1>4, <2>1 DEF IInv, SessionInv
<1>8. OrderInv'
    BY <1>3 DEF IInv, OrderInv
<1>9. ASSUME NEW j, NEW m, Linked(j, m) PROVE Linked(j, m)'
    BY <1>3, <1>9 DEF Linked, Link
<1>10. ChainInv'
    BY <1>4, <1>9 DEF IInv, ChainInv
<1>11. StartedInv'
  <2>1. KeyframeAhead => KeyframeAhead'
      BY <1>3 DEF KeyframeAhead
  <2> QED
      BY <1>3, <1>4, <2>1 DEF IInv, StartedInv
<1>12. InFlightDecodable'
    BY <1>2 DEF InFlightDecodable
<1> QED
    BY <1>5, <1>6, <1>7, <1>8, <1>10, <1>11, <1>12 DEF IInv

\* The writer takes the first pending chunk: it finds its reference decoded,
\* and the chunks behind it find theirs in it or where they did.
LEMMA BeginPendingStep ==
    ASSUME IInv, TypeOK', ~closed, writer = "ready", writer' = "writing",
           queue.description = NoChunk, queue'.description = NoChunk,
           queue.pending # <<>>,
           inFlight' = Head(queue.pending),
           queue'.pending = Tail(queue.pending),
           queue'.needKeyframe = queue.needKeyframe,
           UNCHANGED <<closed, greeted, source, decoder>>
    PROVE  IInv'
<1>1. TypeOK
    BY DEF IInv
<1>2. PICK n \in Nat : n = Len(queue.pending) - 1
  <2>1. Len(queue.pending) \in Nat /\ Len(queue.pending) > 0
      BY <1>1, InvFields, TailFacts
  <2>2. Len(queue.pending) - 1 \in Nat
      BY <2>1
  <2> QED
      BY <2>2
<1>3. /\ Len(queue.pending) = n + 1
      /\ DOMAIN queue.pending = 1 .. n + 1
      /\ inFlight' = queue.pending[1]
      /\ Len(queue'.pending) = n
      /\ DOMAIN queue'.pending = 1 .. n
      /\ \A i \in 1 .. n : queue'.pending[i] = queue.pending[i + 1]
      /\ \A i \in 1 .. n : i + 1 \in 1 .. n + 1
      /\ 1 \in 1 .. n + 1
    BY <1>1, <1>2, InvFields, TailFacts
<1>4. \A i \in 1 .. n + 1 :
        /\ queue.pending[i] \in Chunk /\ queue.pending[i].ref \in Nat
        /\ queue.pending[i].kind # "description"
        /\ IsVideo(queue.pending[i]) =>
                /\ queue.pending[i].session = source.session
                /\ queue.pending[i].ref \in 1 .. source.ref
    BY <1>1, <1>3, InvFields DEF IInv, SessionInv
<1>5. inFlight' \in Chunk /\ inFlight' # NoChunk
    BY <1>3, <1>4, ChunkFields
<1>6. /\ inFlight = NoChunk /\ ~IsReference(inFlight)
      /\ inFlight.kind = "none"
    BY DEF IInv, WriterInv, IsReference, NoChunk
<1>7. Live /\ Live'
  <2>1. writer # "failed" /\ writer' # "failed"
      OBVIOUS
  <2> QED
      BY <2>1 DEF Live
<1>8. ~Configuring /\ ~Configuring'
  <2>1. inFlight'.kind # "description"
      BY <1>3, <1>4
  <2> QED
      BY <1>6, <2>1 DEF Configuring
<1>9. /\ decoder.session \in Nat /\ decoder.ref \in Nat
      /\ source.session \in Nat /\ source.ref \in Nat
      /\ decoder.session \in {0, source.session}
      /\ decoder.session = 0 => decoder.ref = 0
    BY <1>1, <1>7, <1>8, InvFields DEF IInv, SessionInv, DecoderInv
<1>10. \A k : IsReference(k) => IsVideo(k)
    BY DEF IsReference, IsVideo, VideoKind
<1>11. SourceInv' /\ DecoderInv'
    BY DEF IInv, SourceInv, DecoderInv
<1>12. WriterInv'
    BY <1>5 DEF WriterInv
<1>13. SessionInv'
    BY <1>3, <1>4, <1>8, <1>9 DEF SessionInv
<1>14. OrderInv'
  <2>1. ASSUME NEW i \in 1 .. n, NEW j \in 1 .. n, i < j,
               IsVideo(queue'.pending[i]), IsVideo(queue'.pending[j])
        PROVE  /\ queue'.pending[i].ref <= queue'.pending[j].ref
               /\ IsReference(queue'.pending[j]) =>
                        queue'.pending[i].ref < queue'.pending[j].ref
    <3>1. i + 1 < j + 1
        BY <2>1
    <3> QED
        BY <1>3, <2>1, <3>1 DEF IInv, OrderInv
  <2>2. ASSUME NEW i \in 1 .. n, IsReference(queue'.pending[i])
        PROVE  /\ queue'.pending[i].ref > decoder'.ref
               /\ IsVideo(inFlight') => queue'.pending[i].ref > inFlight'.ref
    <3>1. 1 < i + 1
        OBVIOUS
    <3>2. queue.pending[i + 1].ref > decoder.ref
        BY <1>3, <2>2 DEF IInv, OrderInv
    <3>3. IsVideo(queue.pending[1]) => queue.pending[1].ref < queue.pending[i + 1].ref
        BY <1>3, <1>10, <2>2, <3>1 DEF IInv, OrderInv
    <3> QED
        BY <1>3, <1>4, <3>2, <3>3
  <2>3. IsReference(inFlight') => inFlight'.ref > decoder'.ref
      BY <1>3 DEF IInv, OrderInv
  <2> QED
      BY <1>3, <2>1, <2>2, <2>3 DEF OrderInv
\* No reference behind the first chunk and before the place j is another
\* than the one j needs.
<1>15. ASSUME NEW j \in 1 .. n + 1, NEW m \in Int, Linked(j + 1, m),
              \A i \in 2 .. n + 1 :
                    i < j + 1 /\ IsReference(queue.pending[i]) => queue.pending[i].ref <= m
       PROVE  Linked(j, m)'
  <2>1. CASE \E i \in 1 .. n + 1 :
                i > 1 /\ i < j + 1 /\ IsReference(queue.pending[i]) /\ queue.pending[i].ref = m
    <3>1. PICK i \in 1 .. n + 1 :
                i > 1 /\ i < j + 1 /\ IsReference(queue.pending[i]) /\ queue.pending[i].ref = m
        BY <2>1
    <3>2. i - 1 \in 1 .. n /\ i - 1 < j /\ (i - 1) + 1 = i
        BY <3>1
    <3>3. queue'.pending[i - 1] = queue.pending[i]
        BY <1>3, <3>2
    <3> QED
        BY <1>3, <3>1, <3>2, <3>3 DEF Linked
  <2>2. CASE IsReference(queue.pending[1]) /\ queue.pending[1].ref = m
    <3>1. ASSUME NEW i \in 1 .. n, i < j, IsReference(queue'.pending[i]) PROVE FALSE
      <4>1. /\ i + 1 \in 2 .. n + 1 /\ i + 1 < j + 1 /\ 1 < i + 1
            /\ IsReference(queue.pending[i + 1])
          BY <1>3, <3>1
      <4>2. queue.pending[i + 1].ref <= m
          BY <1>15, <4>1
      <4>3. queue.pending[1].ref < queue.pending[i + 1].ref
          BY <1>3, <1>10, <2>2, <4>1 DEF IInv, OrderInv
      <4> QED
          BY <1>3, <1>4, <2>2, <4>2, <4>3
    <3>2. Link(m)'
        BY <1>3, <2>2 DEF Link
    <3> QED
        BY <1>3, <3>1, <3>2 DEF Linked
  <2>3. CASE /\ \A i \in 1 .. n + 1 : i < j + 1 => ~IsReference(queue.pending[i])
             /\ Link(m)
    <3>1. ~IsReference(inFlight')
      <4>1. 1 < j + 1
          OBVIOUS
      <4> QED
          BY <1>3, <2>3, <4>1
    <3>2. \A i \in 1 .. n : i < j => ~IsReference(queue'.pending[i])
      <4>1. \A i \in 1 .. n : i < j => i + 1 < j + 1
          OBVIOUS
      <4> QED
          BY <1>3, <2>3, <4>1
    <3>3. decoder.ref \in {0, m}
        BY <1>6, <1>8, <2>3 DEF Link
    <3>4. Link(m)'
        BY <3>1, <3>3 DEF Link
    <3> QED
        BY <1>3, <3>2, <3>4 DEF Linked
  <2>4. \/ \E i \in 1 .. n + 1 :
              i < j + 1 /\ IsReference(queue.pending[i]) /\ queue.pending[i].ref = m
        \/ /\ \A i \in 1 .. n + 1 : i < j + 1 => ~IsReference(queue.pending[i])
           /\ Link(m)
      BY <1>3, <1>15 DEF Linked
  <2>5. \A i \in 1 .. n + 1 : i > 1 \/ i = 1
      OBVIOUS
  <2> QED
      BY <2>1, <2>2, <2>3, <2>4, <2>5
<1>16. ChainInv'
  <2>1. ASSUME NEW j \in 1 .. n
        PROVE  /\ queue'.pending[j].kind = "delta" =>
                        Linked(j, queue.pending[j].ref - 1)'
               /\ queue'.pending[j].kind = "disposableDelta" =>
                        Linked(j, queue.pending[j].ref)'
    <3>1. PICK r \in Nat : r = queue.pending[j + 1].ref /\ r = queue'.pending[j].ref
        BY <1>3, <1>4
    <3>2. /\ j + 1 \in 1 .. n + 1 /\ j \in 1 .. n + 1
          /\ queue'.pending[j] = queue.pending[j + 1]
        BY <1>3
    <3>3. ASSUME IsVideo(queue.pending[j + 1])
          PROVE  \A i \in 2 .. n + 1 :
                    i < j + 1 /\ IsReference(queue.pending[i]) =>
                        /\ queue.pending[i].ref <= r
                        /\ IsReference(queue.pending[j + 1]) => queue.pending[i].ref <= r - 1
      <4>1. \A i \in 2 .. n + 1 : i \in 1 .. n + 1
          OBVIOUS
      <4>2. \A i \in 2 .. n + 1 :
                i < j + 1 /\ IsReference(queue.pending[i]) =>
                    /\ queue.pending[i].ref <= r
                    /\ IsReference(queue.pending[j + 1]) => queue.pending[i].ref < r
          BY <1>3, <1>10, <3>1, <3>2, <3>3, <4>1 DEF IInv, OrderInv
      <4> QED
          BY <1>4, <4>1, <4>2
    <3>4. CASE queue'.pending[j].kind = "delta"
      <4>1. IsVideo(queue.pending[j + 1]) /\ IsReference(queue.pending[j + 1])
          BY <3>2, <3>4 DEF IsVideo, VideoKind, IsReference
      <4>2. Linked(j + 1, r - 1)
          BY <1>3, <1>7, <3>1, <3>2, <3>4 DEF IInv, ChainInv
      <4>3. Linked(j, r - 1)'
          BY <1>15, <3>2, <3>3, <4>1, <4>2
      <4> QED
          BY <3>1, <3>4, <4>3
    <3>5. CASE queue'.pending[j].kind = "disposableDelta"
      <4>1. IsVideo(queue.pending[j + 1])
          BY <3>2, <3>5 DEF IsVideo, VideoKind
      <4>2. Linked(j + 1, r)
          BY <1>3, <1>7, <3>1, <3>2, <3>5 DEF IInv, ChainInv
      <4>3. \A i \in 2 .. n + 1 :
                i < j + 1 /\ IsReference(queue.pending[i]) => queue.pending[i].ref <= r
          BY <3>3, <4>1
      <4>4. Linked(j, r)'
          BY <1>15, <3>2, <4>2, <4>3, r \in Int
      <4> QED
          BY <3>1, <3>5, <4>4
    <3> QED
        BY <3>4, <3>5
  <2>2. ASSUME ~queue'.needKeyframe PROVE Linked(n + 1, source.ref)'
    <3>1. PICK r \in Nat : r = source.ref /\ r = source'.ref
        BY <1>9
    <3>2. Linked(n + 2, r)
      <4>1. Len(queue.pending) + 1 = n + 2
          BY <1>3
      <4> QED
          BY <1>7, <2>2, <3>1, <4>1 DEF IInv, ChainInv
    <3>3. \A i \in 2 .. n + 1 :
            i < n + 2 /\ IsReference(queue.pending[i]) => queue.pending[i].ref <= r
      <4>1. \A i \in 2 .. n + 1 : i \in 1 .. n + 1
          OBVIOUS
      <4> QED
          BY <1>4, <1>10, <3>1, <4>1
    <3>4. n + 1 \in 1 .. n + 1 /\ (n + 1) + 1 = n + 2
        OBVIOUS
    <3>5. Linked(n + 1, r)'
        BY <1>15, <3>2, <3>3, <3>4
    <3> QED
        BY <3>1, <3>5
  <2> QED
      BY <1>3, <2>1, <2>2 DEF ChainInv
<1>17. StartedInv'
  <2> SUFFICES ASSUME greeted, source.session > 0, ~queue.needKeyframe
               PROVE  KeyframeAhead'
      BY <1>7, <1>8 DEF IInv, StartedInv
  <2>1. KeyframeAhead
      BY <1>7 DEF IInv, StartedInv
  <2>2. CASE decoder.ref > 0
      BY <1>8, <2>2 DEF KeyframeAhead
  <2>3. CASE \E i \in 1 .. n + 1 : queue.pending[i].kind = "keyframe"
    <3>1. PICK i \in 1 .. n + 1 : queue.pending[i].kind = "keyframe"
        BY <2>3
    <3>2. CASE i = 1
        BY <1>3, <1>8, <3>1, <3>2 DEF KeyframeAhead
    <3>3. CASE i > 1
      <4>1. i - 1 \in 1 .. n /\ (i - 1) + 1 = i
          BY <3>3
      <4> QED
          BY <1>3, <3>1, <4>1 DEF KeyframeAhead
    <3> QED
        BY <3>2, <3>3
  <2> QED
      BY <1>3, <1>6, <2>1, <2>2, <2>3 DEF KeyframeAhead
<1>18. InFlightDecodable'
  <2>1. inFlight'.kind = "keyframe" =>
            decoder.session \in {0, inFlight'.session} /\ inFlight'.ref > decoder.ref
      BY <1>3, <1>4, <1>9 DEF IInv, OrderInv, IsVideo, VideoKind, IsReference
  <2>2. ASSUME NEW m, Linked(1, m), decoder.ref > 0
        PROVE  decoder.ref = m
    <3>1. Link(m)
        BY <1>3, <2>2 DEF Linked
    <3> QED
        BY <1>6, <1>8, <1>9, <2>2, <3>1 DEF Link
  <2>3. ASSUME inFlight'.kind = "delta", decoder.ref > 0
        PROVE  decoder.session = inFlight'.session /\ inFlight'.ref = decoder.ref + 1
    <3>1. Linked(1, queue.pending[1].ref - 1)
        BY <1>3, <1>7, <2>3 DEF IInv, ChainInv
    <3>2. decoder.ref = queue.pending[1].ref - 1
        BY <2>2, <2>3, <3>1
    <3>3. queue.pending[1].ref \in Nat /\ queue.pending[1].session = source.session
        BY <1>3, <1>4, <2>3 DEF IsVideo, VideoKind
    <3> QED
        BY <1>3, <1>9, <2>3, <3>2, <3>3
  <2>4. ASSUME inFlight'.kind = "disposableDelta", decoder.ref > 0
        PROVE  decoder.session = inFlight'.session /\ inFlight'.ref = decoder.ref
    <3>1. Linked(1, queue.pending[1].ref)
        BY <1>3, <1>7, <2>4 DEF IInv, ChainInv
    <3>2. decoder.ref = queue.pending[1].ref
        BY <2>2, <2>4, <3>1
    <3>3. queue.pending[1].session = source.session
        BY <1>3, <1>4, <2>4 DEF IsVideo, VideoKind
    <3> QED
        BY <1>3, <1>9, <2>4, <3>2, <3>3
  <2> QED
      BY <2>1, <2>3, <2>4 DEF InFlightDecodable
<1> QED
    BY <1>11, <1>12, <1>13, <1>14, <1>16, <1>17, <1>18 DEF IInv

-----------------------------------------------------------------------------
(* The invariant.                                                          *)

LEMMA InitChained == Init => IInv
<1> SUFFICES ASSUME Init PROVE IInv
    OBVIOUS
<1>1. TypeOK
    BY InitSafe DEF SafetyInv
<1>2. /\ queue.pending = <<>> /\ DOMAIN queue.pending = {}
      /\ queue.description = NoChunk
      /\ inFlight = NoChunk /\ decoder.session = 0 /\ decoder.ref = 0
      /\ ~greeted /\ writer = "ready" /\ ~closed
    BY DEF Init, EmptyQueue, NoDecoder
<1>3. /\ inFlight.kind = "none" /\ ~IsVideo(inFlight) /\ ~IsReference(inFlight)
    BY <1>2 DEF NoChunk, IsVideo, VideoKind, IsReference
<1>4. SourceInv
    BY DEF Init, SourceInv
<1>5. WriterInv
    BY <1>2 DEF WriterInv
<1>6. DecoderInv
    BY <1>1, <1>2, InvFields DEF DecoderInv
<1>7. SessionInv /\ OrderInv /\ InFlightDecodable
    BY <1>2, <1>3 DEF SessionInv, OrderInv, InFlightDecodable
<1>8. ChainInv
    BY <1>2, <1>3 DEF ChainInv, Linked, Link
<1>9. StartedInv
    BY <1>2 DEF StartedInv
<1> QED
    BY <1>1, <1>4, <1>5, <1>6, <1>7, <1>8, <1>9 DEF IInv

\* An emission of the encoder, whatever becomes of the chunk in the queue.
LEMMA EmissionStep ==
    ASSUME IInv, TypeOK', NEW c \in Chunk, EnqueueChunk(c),
           UNCHANGED <<closed, inFlight, greeted, decoder>>,
           SourceInv',
           \/ /\ c.kind = "description"
              /\ c.session = source'.session
              /\ source'.session = source.session + 1 /\ source'.ref = source.ref
           \/ /\ c.kind \in {"keyframe", "delta"}
              /\ c.session = source.session /\ c.ref = source.ref + 1
              /\ source'.session = source.session /\ source'.ref = source.ref + 1
           \/ /\ c.kind = "disposableDelta"
              /\ c.session = source.session /\ c.ref = source.ref /\ source.ref > 0
              /\ source' = source
           \/ c.kind \in {"heartbeat", "seed"} /\ source' = source
    PROVE  IInv'
<1>1. TypeOK /\ queue \in Queue
    BY DEF IInv, TypeOK
<1>2. source.session \in Nat /\ source.ref \in Nat
    BY <1>1, InvFields
<1>3. WriterStays
    BY <1>1, OfferOutcome DEF WriterStays, IInv, WriterInv
<1>4. GreetingStays
    BY DEF GreetingStays
<1>5. CASE closed
  <2>1. queue' = queue
      BY <1>1, <1>5, OfferOutcome
  <2>2. source.session <= source'.session /\ source.ref <= source'.ref
      BY <1>2
  <2> QED
      BY <1>3, <1>4, <1>5, <2>1, <2>2, KeptStep
<1>6. CASE ~closed
  <2>1. queue' = Enqueue(queue, c)
      BY <1>1, <1>6, OfferOutcome
  <2>2. CASE c.kind = "description"
    <3>1. /\ queue'.description = c
          /\ queue'.needKeyframe
          /\ \/ queue'.pending = <<>>
             \/ /\ queue'.pending = queue.pending
                /\ \A i \in DOMAIN queue.pending : ~IsVideo(queue.pending[i])
        BY <1>1, <2>1, <2>2, EnqueueOutcome
    <3>2. \A i \in DOMAIN queue'.pending :
                queue'.pending[i].kind # "description" /\ ~IsVideo(queue'.pending[i])
        BY <3>1 DEF IInv, SessionInv
    <3>3. c.session = source'.session /\ source'.session > 0
          /\ source.session <= source'.session /\ source'.ref = source.ref
        BY <1>2, <2>2
    <3> QED
        BY <1>3, <1>6, <2>2, <3>1, <3>2, <3>3, DescribedStep
  <2>3. CASE c.kind = "keyframe"
    <3>1. /\ queue'.description = queue.description
          /\ ~queue'.needKeyframe
          /\ \/ queue'.pending = Append(queue.pending, c)
             \/ queue'.pending = Append(<<>>, c)
        BY <1>1, <2>1, <2>3, EnqueueOutcome
    <3>2. /\ c.session = source.session /\ c.ref = source.ref + 1
          /\ source'.session = source.session /\ source'.ref = source.ref + 1
        BY <2>3
    <3>3. CASE queue'.pending = Append(<<>>, c)
        BY <1>3, <1>6, <2>3, <3>1, <3>2, <3>3, RestartStep
    <3>4. CASE queue'.pending = Append(queue.pending, c)
      <4>1. IsReference(c) /\ c.ref \in 1 .. source'.ref
          BY <1>2, <2>3, <3>2 DEF IsReference
      <4> QED
          BY <1>3, <1>4, <1>6, <2>3, <3>1, <3>2, <3>4, <4>1, AppendedStep
    <3> QED
        BY <3>1, <3>3, <3>4
  <2>4. CASE c.kind = "delta"
    <3>1. /\ queue'.description = queue.description
          /\ \/ ~queue.needKeyframe /\ ~queue'.needKeyframe
                /\ queue'.pending = Append(queue.pending, c)
             \/ queue'.needKeyframe /\ queue'.pending = queue.pending
        BY <1>1, <2>1, <2>4, EnqueueOutcome
    <3>2. /\ c.session = source.session /\ c.ref = source.ref + 1
          /\ source'.session = source.session /\ source'.ref = source.ref + 1
          /\ source.ref <= source'.ref /\ source.session <= source'.session
        BY <1>2, <2>4
    <3>3. CASE queue'.needKeyframe /\ queue'.pending = queue.pending
        BY <1>3, <1>4, <3>1, <3>2, <3>3, KeptStep
    <3>4. CASE ~queue.needKeyframe /\ queue'.pending = Append(queue.pending, c)
      <4>1. IsReference(c) /\ c.ref \in 1 .. source'.ref
          BY <1>2, <2>4, <3>2 DEF IsReference
      <4> QED
          BY <1>3, <1>4, <1>6, <2>4, <3>1, <3>2, <3>4, <4>1, AppendedStep
    <3> QED
        BY <3>1, <3>3, <3>4
  <2>5. CASE c.kind \in {"disposableDelta", "heartbeat", "seed"}
    <3>1. /\ queue'.description = queue.description
          /\ \/ queue'.pending = queue.pending
             \/ queue'.pending = Append(queue.pending, c)
          /\ c.kind = "disposableDelta" =>
                /\ queue'.needKeyframe = queue.needKeyframe
                /\ queue'.pending = queue.pending \/ ~queue.needKeyframe
          /\ queue.needKeyframe => queue'.needKeyframe
        BY <1>1, <2>1, <2>5, EnqueueOutcome
    <3>2. /\ source'.session = source.session /\ source'.ref = source.ref
          /\ source.ref <= source'.ref /\ source.session <= source'.session
        BY <1>2, <2>5
    <3>3. CASE queue'.pending = queue.pending
        BY <1>3, <1>4, <3>1, <3>2, <3>3, KeptStep
    <3>4. CASE queue'.pending = Append(queue.pending, c) /\ queue'.pending # queue.pending
      <4>1. /\ ~IsReference(c)
            /\ IsVideo(c) => c.kind = "disposableDelta"
          BY <2>5 DEF IsReference, IsVideo, VideoKind
      <4>2. c.kind = "disposableDelta" =>
              c.session = source.session /\ c.ref = source.ref /\ c.ref \in 1 .. source'.ref
          BY <1>2, <3>2
      <4>3. ~queue'.needKeyframe => ~queue.needKeyframe
          BY <3>1
      <4> QED
          BY <1>3, <1>4, <1>6, <2>5, <3>1, <3>2, <3>4, <4>1, <4>2, <4>3, AppendedStep
    <3> QED
        BY <3>1, <3>3, <3>4
  <2> QED
      BY <2>2, <2>3, <2>4, <2>5
<1> QED
    BY <1>5, <1>6

\* The greeting's second part: the description of a running encoder.
LEMMA GreetingStep ==
    ASSUME IInv, TypeOK', NEW n \in Sizes["description"], SendInitialAvcc(n)
    PROVE  IInv'
<1> DEFINE desc == ChunkOf("description", source.session, 0, n)
<1>1. TypeOK /\ queue \in Queue
    BY DEF IInv, TypeOK
<1>2. /\ source.session \in Nat /\ source.ref \in Nat
    BY <1>1, InvFields
<1>3. desc \in Chunk /\ desc.kind = "description" /\ desc.session = source.session
    BY <1>2, ChunkOfIsChunk DEF Kind
<1>4. UNCHANGED <<closed, inFlight, source, decoder>>
    BY DEF SendInitialAvcc
<1>5. SourceInv'
    BY <1>4 DEF IInv, SourceInv
<1>6. WriterStays
    BY DEF SendInitialAvcc, WriterStays, IInv, WriterInv
<1>7. CASE closed
  <2>1. queue' = queue
      BY <1>7 DEF SendInitialAvcc
  <2> QED
      BY <1>2, <1>4, <1>5, <1>6, <1>7, <2>1, KeptStep DEF GreetingStays
<1>8. CASE ~closed
  <2>1. queue' = GreetDescription(queue, n)
      BY <1>8 DEF SendInitialAvcc
  <2>3. CASE source.session = 0
    <3>1. queue' = queue
        BY <2>1, <2>3 DEF GreetDescription
    <3>2. GreetingStays
        BY <1>4, <2>3 DEF GreetingStays
    <3> QED
        BY <1>2, <1>4, <1>5, <1>6, <3>1, <3>2, KeptStep
  <2>4. CASE source.session # 0
    <3>1. queue' = Enqueue(queue, desc)
        BY <2>1, <2>4 DEF GreetDescription
    <3> HIDE DEF desc
    <3>2. /\ queue'.description = desc
          /\ queue'.needKeyframe
          /\ \/ queue'.pending = <<>>
             \/ /\ queue'.pending = queue.pending
                /\ \A i \in DOMAIN queue.pending : ~IsVideo(queue.pending[i])
        BY <1>1, <1>3, <3>1, EnqueueOutcome
    <3>4. \A i \in DOMAIN queue'.pending :
                queue'.pending[i].kind # "description" /\ ~IsVideo(queue'.pending[i])
        BY <3>2 DEF IInv, SessionInv
    <3>5. source'.session > 0 /\ source.session <= source'.session
        BY <1>2, <1>4, <2>4
    <3> QED
        BY <1>3, <1>4, <1>5, <1>6, <1>8, <3>2, <3>4, <3>5, DescribedStep
  <2> QED
      BY <2>3, <2>4
<1> QED
    BY <1>7, <1>8

LEMMA NextChained == IInv /\ TypeOK' /\ [Next]_vars => IInv'
<1> SUFFICES ASSUME IInv, TypeOK', [Next]_vars PROVE IInv'
    OBVIOUS
<1>1. /\ TypeOK /\ queue \in Queue
      /\ source.session \in Nat /\ source.ref \in Nat /\ source.idrDue \in BOOLEAN
      /\ source \in [session : Nat, ref : Nat, idrDue : BOOLEAN]
    BY InvFields DEF IInv, TypeOK
<1>2. SourceInv
    BY DEF IInv
<1>3. ASSUME NEW n \in Sizes["description"], NewSession(n) PROVE IInv'
  <2> DEFINE c == ChunkOf("description", source.session + 1, 0, n)
  <2>1. c \in Chunk /\ c.kind = "description" /\ c.session = source.session + 1
      BY <1>1, ChunkOfIsChunk DEF Kind
  <2>2. /\ EnqueueChunk(c)
        /\ UNCHANGED <<closed, inFlight, greeted, decoder>>
        /\ source'.session = source.session + 1 /\ source'.ref = source.ref
        /\ source'.idrDue
      BY <1>1, <1>3 DEF NewSession
  <2>3. SourceInv'
      BY <1>1, <2>2 DEF SourceInv
  <2> HIDE DEF c
  <2> QED
      BY <2>1, <2>2, <2>3, EmissionStep
<1>4. ASSUME NEW n \in Sizes["keyframe"], EmitKeyframe(n) PROVE IInv'
  <2> DEFINE c == ChunkOf("keyframe", source.session, source.ref + 1, n)
  <2>1. c \in Chunk /\ c.kind = "keyframe" /\ c.session = source.session
        /\ c.ref = source.ref + 1
      BY <1>1, ChunkOfIsChunk DEF Kind, VideoKind
  <2>2. /\ EnqueueChunk(c)
        /\ UNCHANGED <<closed, inFlight, greeted, decoder>>
        /\ source'.session = source.session /\ source'.ref = source.ref + 1
        /\ source'.idrDue = FALSE
        /\ source.session > 0
      BY <1>1, <1>4 DEF EmitKeyframe
  <2>3. SourceInv'
      BY <1>1, <2>2 DEF SourceInv
  <2> HIDE DEF c
  <2> QED
      BY <2>1, <2>2, <2>3, EmissionStep
<1>5. ASSUME NEW n \in Sizes["delta"], EmitDelta(n) PROVE IInv'
  <2> DEFINE c == ChunkOf("delta", source.session, source.ref + 1, n)
  <2>1. c \in Chunk /\ c.kind = "delta" /\ c.session = source.session
        /\ c.ref = source.ref + 1
      BY <1>1, ChunkOfIsChunk DEF Kind, VideoKind
  <2>2. /\ EnqueueChunk(c)
        /\ UNCHANGED <<closed, inFlight, greeted, decoder>>
        /\ source'.session = source.session /\ source'.ref = source.ref + 1
        /\ source'.idrDue = source.idrDue
      BY <1>1, <1>5 DEF EmitDelta
  <2>3. SourceInv'
      BY <1>1, <1>2, <2>2 DEF SourceInv
  <2> HIDE DEF c
  <2> QED
      BY <2>1, <2>2, <2>3, EmissionStep
<1>6. ASSUME NEW n \in Sizes["disposableDelta"], EmitDisposable(n) PROVE IInv'
  <2> DEFINE c == ChunkOf("disposableDelta", source.session, source.ref, n)
  <2>1. c \in Chunk /\ c.kind = "disposableDelta" /\ c.session = source.session
        /\ c.ref = source.ref
      BY <1>1, ChunkOfIsChunk DEF Kind, VideoKind
  <2>2. /\ EnqueueChunk(c)
        /\ UNCHANGED <<closed, inFlight, greeted, decoder>>
        /\ source' = source
        /\ source.ref > 0
      BY <1>2, <1>6 DEF EmitDisposable, SourceInv
  <2>3. SourceInv'
      BY <1>2, <2>2 DEF SourceInv
  <2> HIDE DEF c
  <2> QED
      BY <2>1, <2>2, <2>3, EmissionStep
<1>7. ASSUME NEW n \in Sizes["heartbeat"], EmitHeartbeat(n) PROVE IInv'
  <2> DEFINE c == ChunkOf("heartbeat", 0, 0, n)
  <2>1. c \in Chunk /\ c.kind = "heartbeat"
      BY ChunkOfIsChunk DEF Kind
  <2>2. /\ EnqueueChunk(c)
        /\ UNCHANGED <<closed, inFlight, greeted, decoder>>
        /\ source' = source
      BY <1>7 DEF EmitHeartbeat
  <2>3. SourceInv'
      BY <1>2, <2>2 DEF SourceInv
  <2> HIDE DEF c
  <2> QED
      BY <2>1, <2>2, <2>3, EmissionStep
<1>8. ASSUME NEW n \in Sizes["description"], SendInitialAvcc(n) PROVE IInv'
    BY <1>8, GreetingStep
<1>19. ASSUME NEW n \in Sizes["seed"], SendSeed(n) PROVE IInv'
  <2> DEFINE c == ChunkOf("seed", 0, 0, n)
  <2>1. c \in Chunk /\ c.kind = "seed"
      BY ChunkOfIsChunk DEF Kind
  <2>2. /\ EnqueueChunk(c)
        /\ UNCHANGED <<closed, inFlight, greeted, decoder>>
        /\ source' = source
      BY <1>19 DEF SendSeed
  <2>3. SourceInv'
      BY <1>2, <2>2 DEF SourceInv
  <2> HIDE DEF c
  <2> QED
      BY <2>1, <2>2, <2>3, EmissionStep
\* Steps that leave the queue's chunks, its gate, the decoder and the encoder.
<1>9. ASSUME WriterStays,
             queue'.pending = queue.pending,
             queue'.description = queue.description,
             queue'.needKeyframe = queue.needKeyframe,
             UNCHANGED <<closed, inFlight, greeted, source, decoder>>
      PROVE  IInv'
  <2>1. SourceInv'
      BY <1>2, <1>9 DEF SourceInv
  <2>2. source.session <= source'.session /\ source.ref <= source'.ref
      BY <1>1, <1>9
  <2> QED
      BY <1>9, <2>1, <2>2, KeptStep DEF GreetingStays
<1>10. CASE Sleep
    BY <1>9, <1>10 DEF Sleep, WriterStays
<1>11. CASE ReturnClosed
    BY <1>9, <1>11 DEF ReturnClosed, WriterStays
<1>12. CASE SampleHighWater
  <2>1. WriterStays
      BY <1>12 DEF SampleHighWater, WriterStays, IInv, WriterInv
  <2> QED
      BY <1>1, <1>9, <1>12, <2>1, SampleQueueShape DEF SampleHighWater
<1>13. CASE UNCHANGED vars
    BY <1>9, <1>13 DEF vars, WriterStays, IInv, WriterInv
<1>14. CASE BeginWrite
  <2>1. /\ writer = "ready" /\ writer' = "writing" /\ ~closed /\ ~IsEmpty(queue)
        /\ inFlight' = NextChunk(queue)
        /\ queue' = BeginNextWrite(queue)
        /\ UNCHANGED <<closed, greeted, source, decoder>>
      BY <1>14 DEF BeginWrite
  <2>2. /\ queue'.description = NoChunk
        /\ queue'.needKeyframe = queue.needKeyframe
        /\ \/ /\ queue.description # NoChunk
              /\ inFlight' = queue.description
              /\ queue'.pending = queue.pending
           \/ /\ queue.description = NoChunk
              /\ queue.pending # <<>>
              /\ inFlight' = Head(queue.pending)
              /\ queue'.pending = Tail(queue.pending)
      BY <1>1, <2>1, BeginNextWriteShape
  <2> QED
      BY <2>1, <2>2, BeginDescriptionStep, BeginPendingStep
<1>15. CASE EndWrite
    BY <1>15, EndStep
<1>16. CASE FailWrite
    BY <1>16, FailStep
<1>17. CASE CloseAfterFailure
    BY <1>1, <1>17, ClearShape, CloseStep DEF CloseAfterFailure
<1>18. CASE Close
    BY <1>1, <1>18, ClearShape, CloseStep DEF Close
<1> QED
    BY <1>3, <1>4, <1>5, <1>6, <1>7, <1>8, <1>10, <1>11, <1>12, <1>13, <1>14,
       <1>15, <1>16, <1>17, <1>18, <1>19 DEF Next, Produce, Drain

LEMMA ChainInvariant == Spec => []IInv
<1>1. Init => IInv
    BY InitChained
<1>2. IInv /\ TypeOK' /\ [Next]_vars => IInv'
    BY NextChained
<1> QED
    BY <1>1, <1>2, TypeCorrect, PTL DEF Spec

\* Whatever was dropped, coalesced or discarded before it, the chunk being
\* written finds what it builds on in the decoder it arrives at.
\* (AVCCSendQueue.enqueue, beginNextWrite)
THEOREM WrittenIsDecodable == Spec => []InFlightDecodable
<1>1. IInv => InFlightDecodable
    BY DEF IInv
<1> QED
    BY <1>1, ChainInvariant, PTL

\* "The stream always converges": a greeted viewer whose queue has drained and
\* whose gate is open holds the newest reference frame of the current session.
\* (ClientManager.swift:462-464)
THEOREM StreamConverges == Spec => []Converged
<1>1. IInv => Converged
  <2> SUFFICES ASSUME IInv, Drained, greeted, ~queue.needKeyframe, source.session > 0
               PROVE  decoder.session = source.session /\ decoder.ref = source.ref
      BY DEF Converged
  <2>1. TypeOK
      BY DEF IInv
  <2>2. /\ queue.pending = <<>> /\ DOMAIN queue.pending = {}
        /\ Len(queue.pending) + 1 = 1
        /\ queue.description = NoChunk /\ ~closed
        /\ writer # "writing" /\ writer # "failed"
      BY DEF Drained, IsEmpty
  <2>3. inFlight.kind = "none" /\ ~IsReference(inFlight)
      BY <2>2 DEF IInv, WriterInv, NoChunk, IsReference
  <2>4. Live /\ ~Configuring
      BY <2>2, <2>3 DEF Live, Configuring
  <2>5. decoder.ref > 0 /\ decoder.session > 0
      BY <2>2, <2>3, <2>4 DEF IInv, StartedInv, KeyframeAhead
  <2>6. Link(source.ref)
      BY <2>2, <2>4 DEF IInv, ChainInv, Linked
  <2> QED
      BY <2>1, <2>3, <2>4, <2>5, <2>6, InvFields DEF Link, IInv, SessionInv
<1> QED
    BY <1>1, ChainInvariant, PTL

-----------------------------------------------------------------------------
(* The refinement: hiding the queue and the threads, what is left of a step *)
(* is a step of the decodable stream or nothing.                            *)

LEMMA StepRefines == IInv /\ [Next]_vars => [Viewer!Next]_decoder
<1> SUFFICES ASSUME IInv, [Next]_vars, decoder' # decoder PROVE Viewer!Next
    OBVIOUS
<1>1. /\ TypeOK
      /\ decoder \in [session : Nat, ref : Nat, base : Nat]
    BY DEF IInv, TypeOK
<1>2. EndWrite
    BY DEF Next, Produce, Drain, vars, NewSession, EmitKeyframe, EmitDelta,
           EmitDisposable, EmitHeartbeat, SendSeed, SendInitialAvcc, Sleep, BeginWrite,
           ReturnClosed, FailWrite, CloseAfterFailure, Close, SampleHighWater
<1>3. decoder' = Decoded(decoder, inFlight)
    BY <1>2 DEF EndWrite
<1>4. /\ inFlight.session \in Nat /\ inFlight.ref \in Nat
      /\ decoder.session \in Nat /\ decoder.ref \in Nat
    BY <1>1, InvFields
<1>5. CASE inFlight.kind = "description"
  <2>1. decoder' = [session |-> inFlight.session, ref |-> 0, base |-> 0]
      BY <1>3, <1>5 DEF Decoded
  <2>2. inFlight.session > 0 /\ inFlight.session >= decoder.session
      BY <1>4, <1>5 DEF IInv, SessionInv
  <2> QED
      BY <2>1, <2>2 DEF Viewer!Next, Viewer!Configure
<1>6. CASE inFlight.kind = "keyframe" /\ decoder.session > 0
  <2>1. decoder' = [decoder EXCEPT !.ref = inFlight.ref, !.base = inFlight.ref]
      BY <1>3, <1>6 DEF Decoded
  <2>2. decoder' = [session |-> decoder.session, ref |-> inFlight.ref, base |-> inFlight.ref]
      BY <1>1, <2>1
  <2>3. inFlight.ref > decoder.ref
      BY <1>6 DEF IInv, InFlightDecodable
  <2> QED
      BY <1>6, <2>2, <2>3 DEF Viewer!Next, Viewer!Resync
<1>7. CASE inFlight.kind = "delta" /\ decoder.ref > 0
  <2>1. decoder' = [decoder EXCEPT !.ref = inFlight.ref]
      BY <1>3, <1>7 DEF Decoded
  <2>2. inFlight.ref = decoder.ref + 1
      BY <1>7 DEF IInv, InFlightDecodable
  <2>3. decoder' = [session |-> decoder.session, ref |-> decoder.ref + 1, base |-> decoder.base]
      BY <1>1, <2>1, <2>2
  <2> QED
      BY <1>7, <2>3 DEF Viewer!Next, Viewer!Advance
<1> QED
    BY <1>1, <1>3, <1>5, <1>6, <1>7 DEF Decoded

\* AVCCClient implements DecodableStream: the viewer is configured for ever newer
\* sessions, starts at a keyframe, and is then handed each next reference or a
\* newer keyframe, whatever the queue, its threads and its socket do.
THEOREM ViewerSeesDecodableStream == Spec => ViewerDecodes
<1>1. Init => Viewer!Init
    BY DEF Init, Viewer!Init, NoDecoder
<1>2. IInv /\ [Next]_vars => [Viewer!Next]_decoder
    BY StepRefines
<1> QED
    BY <1>1, <1>2, ChainInvariant, PTL DEF Spec, ViewerDecodes, Viewer!Spec
=============================================================================
