-------------------------- MODULE KeyframeRecovery --------------------------
(***************************************************************************)
(* How a viewer of the H.264 stream gets a picture, and gets it back: the  *)
(* coalesced keyframe request, the capture queue that turns it into a      *)
(* forced frame (at once when the screen changes, on the idle timer when   *)
(* it does not), the encoder that may swallow any frame, and the viewer    *)
(* that waits for a keyframe and asks again.                               *)
(*                                                                         *)
(* The pump is its contract (H264Pump.tla): one parked frame, at most      *)
(* Depth inside the encoder, requests inherited.  The send queue is its    *)
(* contract (AVCCClient.tla): it delivers in order, and after it drops a   *)
(* delta it asks for a keyframe and delivers no delta before one.          *)
(***************************************************************************)
EXTENDS Integers, Sequences, FiniteSets

CONSTANTS
    Depth,          \* h264InFlightDepth
    SilentLimit,    \* silentFramesBeforeFallback
    MaxChanges,     \* bound: changes of the screen
    Resizes,        \* the contents that also change the frame's dimensions
    MaxSession,     \* bound: encoder sessions built
    Faults          \* the failures that occur, beside swallowed frames

AllFaults == {"snapshot", "submit", "session", "extract"}

ASSUME RecoveryAssumption ==
    /\ Depth \in Nat \ {0}
    /\ SilentLimit \in Nat \ {0}
    /\ MaxChanges \in Nat
    /\ Resizes \subseteq 2 .. MaxChanges + 1
    /\ MaxSession \in Nat
    /\ Faults \subseteq AllFaults

VARIABLES
    content,    \* what the simulator's framebuffer holds, numbered
    captured,   \* the content of the last capture: lastSeeds
    request,    \* keyframeRequest.pending
    parked,     \* the pump's pending frame
    queued,     \* frames dispatched to h264Queue
    inside,     \* frames VideoToolbox accepted
    encoder,    \* the H264Encoder's session and its health
    mute,       \* sizes at which a low-latency session swallows every frame
    cached,     \* session of ClientManager.cachedAvccDescription; 0: none
    conn,       \* the viewer's connection: away, added or open
    viewer      \* its send queue's gate and its decoder

vars == <<content, captured, request, parked, queued, inside, encoder, mute,
          cached, conn, viewer>>

\* The pixels of a content's frame, ranked: every resize enlarges it.
Size(n) == Cardinality({r \in Resizes : r <= n})
AllSizes == {Size(n) : n \in 1 .. MaxChanges + 1}
NoCeiling == Cardinality(Resizes) + 1

\* A frame on its way: its content, its force flag, and the encoder session
\* that took it (0 before) with its rate control (lowLatency).
NoFrame == [content |-> 0, forced |-> FALSE, session |-> 0, low |-> FALSE]

\* session: 0 while there is none; size: of the last frame; low: low-latency
\* rate control; started: the sessions VideoToolbox produced a keyframe of.
\* emitted, silent, fallback, force, described: sessionEmitted, silentFrames,
\* fallbackRequested, forceNextKeyframe, emittedDescription.  ceiling:
\* lowLatencyCeilingPixels.  built: sessions built so far.
NoEncoder == [session |-> 0, size |-> 0, low |-> FALSE, started |-> {},
              emitted |-> FALSE, silent |-> 0, fallback |-> FALSE,
              force |-> FALSE, described |-> FALSE, ceiling |-> NoCeiling, built |-> 0]

\* gate: the send queue's needKeyframe.  session: of the configured decoder,
\* 0 while there is none.  awaiting: awaitingKeyframe.  shown: content of the
\* last picture decoded.  from: the session of the last keyframe decoded.
NoViewer == [gate |-> FALSE, session |-> 0, awaiting |-> TRUE, shown |-> 0,
             from |-> 0]

Frames == [content : 0 .. MaxChanges + 1, forced : BOOLEAN,
           session : 0 .. MaxSession, low : BOOLEAN]

TypeOK ==
    /\ content \in 1 .. MaxChanges + 1
    /\ captured \in 0 .. MaxChanges + 1
    /\ request \in BOOLEAN
    /\ parked \in Frames
    /\ queued \in Seq(Frames) /\ inside \in Seq(Frames)
    /\ Len(queued) + Len(inside) <= Depth
    /\ encoder \in [session : 0 .. MaxSession, size : AllSizes, low : BOOLEAN,
                    started : SUBSET (1 .. MaxSession), emitted : BOOLEAN,
                    silent : 0 .. SilentLimit, fallback : BOOLEAN,
                    force : BOOLEAN, described : BOOLEAN,
                    ceiling : 0 .. NoCeiling, built : 0 .. MaxSession]
    /\ mute \in SUBSET AllSizes
    /\ cached \in 0 .. MaxSession
    /\ conn \in {"away", "added", "open"}
    /\ viewer \in [gate : BOOLEAN, session : 0 .. MaxSession, awaiting : BOOLEAN,
                   shown : 0 .. MaxChanges + 1, from : 0 .. MaxSession]

Init ==
    /\ content = 1
    /\ captured = 0
    /\ request = FALSE
    /\ parked = NoFrame
    /\ queued = <<>>
    /\ inside = <<>>
    /\ encoder = NoEncoder
    /\ mute \in SUBSET AllSizes
    /\ cached = 0
    /\ conn = "away"
    /\ viewer = NoViewer

-----------------------------------------------------------------------------
(* Capture: the framebuffer callback and the idle timer, then encodeFrame. *)

ScreenChanges ==
    /\ content <= MaxChanges
    /\ content' = content + 1
    /\ UNCHANGED <<captured, request, parked, queued, inside, encoder, mute,
                   cached, conn, viewer>>

HasAvccClients == conn # "away"

\* The pump's offer: submit when the encoder has room, else take the slot.
Offer(frame) ==
    LET merged == [frame EXCEPT !.forced = frame.forced \/ parked.forced]
    IN  IF Len(queued) + Len(inside) < Depth
        THEN queued' = Append(queued, merged) /\ parked' = NoFrame
        ELSE parked' = merged /\ UNCHANGED queued

\* encodeFrame: a frame is offered when an AVCC viewer is there and the
\* content changed or a keyframe is pending; the offer consumes the request.
EncodeFrame(changed) ==
    IF ~HasAvccClients \/ ~(changed \/ request)
    THEN UNCHANGED <<request, parked, queued>>
    ELSE /\ Offer([NoFrame EXCEPT !.content = content, !.forced = request])
         /\ request' = FALSE

\* captureFrame saw a new seed.
CaptureChange ==
    /\ captured # content
    /\ captured' = content
    /\ EncodeFrame(TRUE)
    /\ UNCHANGED <<content, inside, encoder, mute, cached, conn, viewer>>

\* The idle timer, when requiresIdleFrame: only a pending request asks for
\* the pixels of a screen that does not change.  (No MJPEG viewer.)
CaptureIdle ==
    /\ captured = content
    /\ request /\ HasAvccClients
    /\ EncodeFrame(FALSE)
    /\ UNCHANGED <<content, captured, inside, encoder, mute, cached, conn, viewer>>

\* The seed is already recorded when the snapshot fails; nothing is offered
\* and the request stays pending.
SnapshotFails ==
    /\ "snapshot" \in Faults
    /\ HasAvccClients
    /\ captured # content \/ request
    /\ captured' = content
    /\ UNCHANGED <<content, request, parked, queued, inside, encoder, mute, cached, conn,
                   viewer>>

-----------------------------------------------------------------------------
(* H264Encoder.encode on h264Queue.                                        *)

\* The frame left the encoder: complete, then drain submits the parked one.
Completed(rest) ==
    IF parked = NoFrame
    THEN queued' = rest /\ UNCHANGED parked
    ELSE queued' = Append(rest, parked) /\ parked' = NoFrame

\* rebuildSession, when it succeeds: a fresh session, described by its first
\* keyframe.  The flags encode has taken over are cleared.
Rebuilt(frame) ==
    [encoder EXCEPT !.session = encoder.built + 1, !.built = encoder.built + 1,
                    !.size = Size(frame.content),
                    !.low = Size(frame.content) < encoder.ceiling,
                    !.emitted = FALSE, !.silent = 0,
                    !.fallback = FALSE, !.force = FALSE, !.described = FALSE]

NeedsSession(frame) ==
    \/ encoder.session = 0
    \/ encoder.fallback
    \/ encoder.size # Size(frame.content)

ForcedAgain(frame) == frame.forced \/ encoder.force

\* The session the frame is submitted to.
InSession(frame) ==
    IF NeedsSession(frame)
    THEN encoder.built < MaxSession /\ encoder' = Rebuilt(frame)
    ELSE encoder' = [encoder EXCEPT !.force = FALSE]

EncodeAccepted ==
    /\ queued # <<>>
    /\ LET frame == Head(queued) IN
       /\ InSession(frame)
       /\ inside' = Append(inside, [frame EXCEPT !.forced  = ForcedAgain(frame),
                                                !.session = encoder'.session,
                                                !.low     = encoder'.low])
    /\ queued' = Tail(queued)
    /\ UNCHANGED <<content, captured, request, parked, mute, cached, conn, viewer>>

\* VideoToolbox refuses the frame, or there is no session to refuse it.  The
\* request the frame carried is lost.
SubmitFails ==
    /\ "submit" \in Faults
    /\ queued # <<>>
    /\ InSession(Head(queued))
    /\ Completed(Tail(queued))
    /\ UNCHANGED <<content, captured, request, inside, mute, cached, conn, viewer>>

SessionFails ==
    /\ "session" \in Faults
    /\ queued # <<>>
    /\ NeedsSession(Head(queued))
    /\ encoder' = [encoder EXCEPT !.session = 0, !.size = Size(Head(queued).content),
                                  !.fallback = FALSE, !.force = FALSE]
    /\ Completed(Tail(queued))
    /\ UNCHANGED <<content, captured, request, inside, mute, cached, conn, viewer>>

-----------------------------------------------------------------------------
(* VideoToolbox's output handler, and what of it reaches the viewer.       *)

Configured(v, session) ==
    [v EXCEPT !.gate = TRUE, !.session = session, !.awaiting = TRUE]

\* A keyframe opens the gate; a configured decoder decodes it.
Keyed(v, frame) ==
    IF v.session = 0 THEN [v EXCEPT !.gate = FALSE]
    ELSE [v EXCEPT !.gate = FALSE, !.awaiting = FALSE,
                   !.shown = frame.content, !.from = frame.session]

Delivered(v, frame) ==
    IF v.gate \/ v.awaiting THEN v ELSE [v EXCEPT !.shown = frame.content]

\* The first frame of a session is a keyframe, a forced one too; any other
\* may be (the periodic interval).
Keyframe(frame, isKey) ==
    isKey \/ frame.forced \/ frame.session \notin encoder.started

\* The output handler does not take the session lock: the callback of a frame
\* may still run when encode has invalidated its session and built the next.
CanEmit(frame) == ~(frame.low /\ Size(frame.content) \in mute)

Current(frame) == frame.session = encoder.session

Started(frame) == [encoder EXCEPT !.started = @ \cup {frame.session}]

\* noteEmitted, by a frame of the current generation.
NotedEmitted(frame, e) ==
    IF Current(frame) THEN [e EXCEPT !.emitted = TRUE, !.silent = 0] ELSE e

\* onEncoded: a keyframe is preceded by its session's description, once.
EmitKey(frame) ==
    LET described == IF encoder.described THEN viewer
                     ELSE Configured(viewer, frame.session)
    IN  /\ cached' = IF encoder.described THEN cached ELSE frame.session
        /\ viewer' = IF HasAvccClients THEN Keyed(described, frame) ELSE viewer
        /\ UNCHANGED request

\* A delta is delivered, or dropped by a full send queue that asks for a
\* keyframe when the drop closes its gate.
EmitDelta(frame) ==
    /\ UNCHANGED cached
    /\ \/ /\ viewer' = IF HasAvccClients THEN Delivered(viewer, frame) ELSE viewer
          /\ UNCHANGED request
       \/ /\ HasAvccClients /\ ~viewer.gate
          /\ viewer' = [viewer EXCEPT !.gate = TRUE]
          /\ request' = TRUE

Emit(isKey) ==
    /\ inside # <<>>
    /\ CanEmit(Head(inside))
    /\ LET frame == Head(inside) IN
       IF Keyframe(frame, isKey)
       THEN /\ EmitKey(frame)
            /\ encoder' = NotedEmitted(frame, [Started(frame) EXCEPT !.described = TRUE])
       ELSE /\ EmitDelta(frame)
            /\ encoder' = NotedEmitted(frame, encoder)
    /\ inside' = Tail(inside)
    /\ Completed(queued)
    /\ UNCHANGED <<content, captured, mute, conn>>

\* noteSilent: a swallowed forced frame is forced again; a low-latency
\* session that never emitted is given up after SilentLimit frames.
NotedSilent(frame) ==
    LET silent == IF encoder.silent < SilentLimit THEN encoder.silent + 1
                  ELSE SilentLimit
        giveUp == frame.low /\ ~encoder.emitted /\ silent = SilentLimit
                    /\ ~encoder.fallback
    IN  [encoder EXCEPT !.force    = encoder.force \/ frame.forced,
                        !.silent   = silent,
                        !.fallback = encoder.fallback \/ giveUp,
                        !.ceiling  = IF giveUp /\ Size(frame.content) < @
                                     THEN Size(frame.content) ELSE @]

\* The callback fires without a sample.
Swallow ==
    /\ inside # <<>>
    /\ LET frame == Head(inside) IN
       encoder' = IF Current(frame) THEN NotedSilent(frame) ELSE encoder
    /\ inside' = Tail(inside)
    /\ Completed(queued)
    /\ UNCHANGED <<content, captured, request, mute, cached, conn, viewer>>

\* The sample cannot be extracted: neither silent nor emitted is noted.
Unextractable ==
    /\ "extract" \in Faults
    /\ inside # <<>>
    /\ CanEmit(Head(inside))
    /\ encoder' = Started(Head(inside))
    /\ inside' = Tail(inside)
    /\ Completed(queued)
    /\ UNCHANGED <<content, captured, request, mute, cached, conn, viewer>>

-----------------------------------------------------------------------------
(* The viewer's connection and its decoder.                                *)

Connect ==
    /\ conn = "away"
    /\ conn' = "added"
    /\ viewer' = NoViewer
    /\ UNCHANGED <<content, captured, request, parked, queued, inside, encoder,
                   mute, cached>>

\* sendInitialAvcc: the cached description, then the request for an IDR.
\* (The JPEG seed changes nothing the decoder waits for.)
Greeted == IF cached = 0 THEN viewer ELSE Configured(viewer, cached)

SendInitialAvcc ==
    /\ conn = "added"
    /\ conn' = "open"
    /\ viewer' = Greeted
    /\ request' = TRUE
    /\ UNCHANGED <<content, captured, parked, queued, inside, encoder, mute, cached>>

Disconnect ==
    /\ conn # "away"
    /\ conn' = "away"
    /\ viewer' = NoViewer
    /\ UNCHANGED <<content, captured, request, parked, queued, inside, encoder,
                   mute, cached>>

\* Mutant: the viewer relies on the server's own forced keyframe.
NeverAsks == FALSE

\* keyframeRecoveryAction, on the watchdog: only a configured decoder asks.
AsksForKeyframe == viewer.awaiting /\ viewer.session # 0

RequestKeyframe ==
    /\ conn = "open"
    /\ AsksForKeyframe
    /\ request' = TRUE
    /\ UNCHANGED <<content, captured, parked, queued, inside, encoder, mute,
                   cached, conn, viewer>>

\* resetDecoderForKeyframe: a decoder that stalls, falls behind or refuses a
\* chunk is rebuilt from the current description.  Its request is debounced.
ResetDecoder ==
    /\ conn = "open"
    /\ viewer.session # 0 /\ ~viewer.awaiting
    /\ viewer' = [viewer EXCEPT !.awaiting = TRUE]
    /\ request' \in {request, TRUE}
    /\ UNCHANGED <<content, captured, parked, queued, inside, encoder, mute,
                   cached, conn>>

Capture == CaptureChange \/ CaptureIdle

Next ==
    \/ ScreenChanges
    \/ Capture
    \/ SnapshotFails
    \/ EncodeAccepted
    \/ SubmitFails
    \/ SessionFails
    \/ \E isKey \in BOOLEAN : Emit(isKey)
    \/ Swallow
    \/ Unextractable
    \/ Connect
    \/ SendInitialAvcc
    \/ Disconnect
    \/ RequestKeyframe
    \/ ResetDecoder

Spec == Init /\ [][Next]_vars

\* The queues run and VideoToolbox calls back.  A snapshot, a session or a
\* frame does not fail for ever: what is tried again and again succeeds.
\* Nothing makes the screen change or the viewer reconnect.
Fairness ==
    /\ SF_vars(Capture)
    /\ SF_vars(EncodeAccepted)
    /\ WF_vars(EncodeAccepted \/ SubmitFails \/ SessionFails)
    /\ SF_vars(\E isKey \in BOOLEAN : Emit(isKey))
    /\ WF_vars(Swallow \/ (\E isKey \in BOOLEAN : Emit(isKey)) \/ Unextractable)
    /\ WF_vars(SendInitialAvcc)
    /\ WF_vars(RequestKeyframe)

FairSpec == Spec /\ Fairness

-----------------------------------------------------------------------------
(* Properties.                                                             *)

\* The description "emitted once on the first IDR per session" is the one
\* the viewer's picture starts under: the keyframe a decoder starts from was
\* encoded by the session it is configured for, whenever the viewer joined
\* and whenever the session was rebuilt.  (H264Encoder.swift:15,
\* H264Encoder.extract, ClientManager.sendInitialAvcc)
DecoderMatchesSession == ~viewer.awaiting => viewer.from = viewer.session

\* A configured decoder that waits for a keyframe gets one, on a still screen
\* too, whatever the encoder swallowed before.  (stream-liveness.ts:50-54)
KeyframeRecovered ==
    conn = "open" /\ viewer.session # 0 /\ viewer.awaiting
        ~> conn = "away" \/ ~viewer.awaiting

\* "A forced keyframe the encoder swallowed is forced again on the next
\* frame, or a viewer that asked to resync waits on a static screen forever":
\* the decoder of every viewer starts.  (H264Encoder.swift:110-111)
ViewerStartsDecoding ==
    conn = "open" ~> conn = "away" \/ ~viewer.awaiting

\* "The stream always converges": a viewer whose decoder runs is shown what
\* the screen shows last.  (ClientManager.swift:462-464)
PictureConverges ==
    conn = "open" /\ ~viewer.awaiting
        ~> conn = "away" \/ viewer.awaiting \/ viewer.shown = content
=============================================================================
