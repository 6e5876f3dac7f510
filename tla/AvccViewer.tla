----------------------------- MODULE AvccViewer -----------------------------
(***************************************************************************)
(* The browser's side of the H.264 stream (use-avcc-stream.ts with the     *)
(* demuxer of avcc-codec.ts and the presenter): connections that end,      *)
(* fall silent or are given up, the decoder and its callbacks, the JPEG    *)
(* seed that is decoded on the side, the timers and the watchdog.          *)
(*                                                                         *)
(* Everything runs on one event loop: an action is one task, and the       *)
(* hazards are tasks of an old connection or decoder that run late.  The   *)
(* effect's local variables are the fields of view.  Time is abstracted:   *)
(* a timeout may fire whenever its condition can hold.                     *)
(***************************************************************************)
EXTENDS FramePresenter, Integers, FiniteSets

CONSTANTS
    Faults,         \* what goes wrong, of AllFaults
    MaxFrames,      \* bound: video frames told apart
    MaxDecoding,    \* bound: frames inside the decoders
    MaxSeeds,       \* bound: seeds inside createImageBitmap
    MaxRecoveries,  \* bound: resets and reconnects (recoveries)
    MaxConnections, \* bound: connectionGeneration
    MaxDescriptions \* bound: descriptions that one connection is sent

\* end: the response ends or fails; cut: a connection is left inside a chunk;
\* silence: no bytes for byteTimeoutMs; stall: no output for decodeTimeoutMs;
\* backlog: decodeQueueSize above its limit; error: the decoder's error
\* callback; throw: decode() throws; config: configure() throws;
\* undescribed: the helper may never send a connection its description.
AllFaults == {"end", "cut", "silence", "stall", "backlog", "error", "throw", "config",
              "undescribed"}

ASSUME ViewerAssumption ==
    /\ Faults \subseteq AllFaults
    /\ MaxFrames \in Nat \ {0} /\ MaxDecoding \in Nat \ {0}
    /\ MaxRecoveries \in Nat /\ MaxConnections \in Nat \ {0}
    /\ MaxDescriptions \in Nat \ {0} /\ MaxSeeds \in Nat

VARIABLES
    view,       \* the effect's state, see InitView
    net,        \* the current fetch: connecting, open or closed; visiting:
                \* given up, and its last read still inside demuxer.visit
    server,     \* what this connection has been sent
    frames,     \* the newest video frame that was decoded
    owed,       \* a keyframe was asked for and not sent
    seeds       \* seeds inside createImageBitmap

vars == <<view, net, server, frames, owed, seeds>>

Kind == {"seed", "description", "keyframe", "delta", "disposable"}

\* A picture on the canvas: connectionGeneration when it was handled, and
\* its frame; 0 for the seed.
Picture == [connection : 0 .. MaxConnections, n : 0 .. MaxFrames]
Blank   == [connection |-> 0, n |-> 0]

\* config: the connection currentDescription came from, 0 for null.
\* configured: configuredAtMs is set, which it is exactly with a decoder.
\* connection: connectionGeneration.  timer: what retryTimer will do.
\* buffer: the connection whose bytes demuxer.buffer holds, 0 if it is empty.
\* decoding: frames inside the decoders; live: of decoderGeneration, and so
\* one of the pendingDecodes.
\* givenUp: history, the last connection that reconnect() gave up.
InitView == [stopped |-> FALSE, painted |-> FALSE, awaiting |-> TRUE,
             configured |-> FALSE, config |-> 0, connection |-> 1,
             reconnecting |-> FALSE, timer |-> "none",
             recoveries |-> 0, buffer |-> 0, decoding |-> <<>>,
             presenter |-> NewPresenter, canvas |-> Blank, givenUp |-> 0]

NothingSent == [seed |-> FALSE, description |-> 0, keyframe |-> FALSE]

Decoding == [live : BOOLEAN, connection : 1 .. MaxConnections, n : 1 .. MaxFrames]

TypeOK ==
    /\ view \in [stopped : BOOLEAN, painted : BOOLEAN, awaiting : BOOLEAN,
                 configured : BOOLEAN, config : 0 .. MaxConnections,
                 connection : 1 .. MaxConnections,
                 reconnecting : BOOLEAN, timer : {"none", "retry", "reconnect"},
                 recoveries : 0 .. MaxRecoveries, buffer : 0 .. MaxConnections,
                 decoding : Seq(Decoding), presenter : PresenterOf(Picture),
                 canvas : Picture, givenUp : 0 .. MaxConnections]
    /\ net \in {"connecting", "open", "visiting", "closed"}
    /\ server \in [seed : BOOLEAN, description : 0 .. MaxDescriptions,
                   keyframe : BOOLEAN]
    /\ frames \in 0 .. MaxFrames
    /\ owed \in BOOLEAN
    /\ seeds \subseteq [connection : 1 .. MaxConnections]
    /\ Len(view.presenter.waiting) <= MaxWaiting
    /\ view.reconnecting <=> view.timer = "reconnect"

\* The effect has called read().
Init ==
    /\ view = InitView
    /\ net = "connecting"
    /\ server = NothingSent
    /\ frames = 0
    /\ owed = FALSE
    /\ seeds = {}

-----------------------------------------------------------------------------
(* The effect's functions, from view to view.                              *)

Paint(v, picture) ==
    IF v.stopped THEN v ELSE [v EXCEPT !.painted = TRUE, !.canvas = picture]

Pending(v) == \E i \in DOMAIN v.decoding : v.decoding[i].live

\* decoderGeneration++, which disowns what is inside the decoder.
Disowned(decoding) ==
    [i \in DOMAIN decoding |-> [decoding[i] EXCEPT !.live = FALSE]]

\* Mutant: the frames that wait for a tick outlive their decoder.
CloseKeepsWaiting(v) ==
    [v EXCEPT !.configured = FALSE, !.decoding = Disowned(@)]

CloseDecoder(v) ==
    [v EXCEPT !.configured = FALSE, !.decoding = Disowned(@),
              !.presenter = Cleared(@)]

\* A fresh decoder takes currentDescription.
MakeDecoder(v) == [v EXCEPT !.configured = TRUE]

Reconnect(v) ==
    IF v.stopped \/ v.reconnecting THEN v
    ELSE [CloseDecoder(v) EXCEPT
            !.reconnecting = TRUE,   !.connection = @ + 1,
            !.recoveries = @ + 1,    !.config = 0,
            !.awaiting = TRUE,       !.buffer = 0,
            !.timer = "reconnect",   !.givenUp = v.connection]

\* From here on a function has a set of outcomes: configure() and decode()
\* may throw.
When(fault, outcomes) == IF fault \in Faults THEN outcomes ELSE {}

ConfigureDecoder(v, connection) ==
    LET closed == [CloseDecoder(v) EXCEPT !.config = connection, !.awaiting = TRUE]
    IN  {MakeDecoder(closed)} \cup When("config", {Reconnect(closed)})

\* A configured decoder is rebuilt from the description it had.
ResetDecoderForKeyframe(v) ==
    LET closed == [CloseDecoder(v) EXCEPT !.recoveries = @ + 1, !.awaiting = TRUE]
    IN  {IF v.config = 0 THEN closed ELSE MakeDecoder(closed)}
            \cup When("config", {Reconnect(closed)})

\* The presenter draws the frame at once, or keeps it for a tick.
Present(v, picture) ==
    LET kept == [v EXCEPT !.presenter = Enqueued(@, picture)]
    IN  IF DrawsNow(v.presenter) THEN Paint(kept, picture) ELSE kept

-----------------------------------------------------------------------------
(* handleChunk.                                                            *)

Decode(v, n) ==
    [v EXCEPT !.decoding = Append(@, [live |-> TRUE, n |-> n,
                                      connection |-> v.connection])]

Threw(v) == When("throw", ResetDecoderForKeyframe(v))

Keyframe(v, n) ==
    IF ~v.configured THEN {v}
    ELSE {[Decode(v, n) EXCEPT !.awaiting = FALSE]} \cup Threw(v)

Skipped(v) == ~v.configured \/ v.awaiting

Delta(v, n) ==
    IF Skipped(v) THEN {v}
    ELSE {Decode(v, n)} \cup Threw(v)
            \cup (IF Pending(v) THEN When("backlog", ResetDecoderForKeyframe(v))
                  ELSE {})

Disposable(v, n) ==
    IF Skipped(v) THEN {v}
    ELSE {Decode(v, n)} \cup Threw(v) \cup (IF Pending(v) THEN {v} ELSE {})

HandleChunk(v, kind, n) ==
    CASE kind = "seed"        -> {v}
      [] kind = "description" -> ConfigureDecoder(v, v.connection)
      [] kind = "keyframe"    -> Keyframe(v, n)
      [] kind = "delta"       -> Delta(v, n)
      [] kind = "disposable"  -> Disposable(v, n)

-----------------------------------------------------------------------------
(* read: the server's bytes and demuxer.visit.                             *)

\* What the helper sends a connection: its greeting's seed once, before or
\* behind the description, and another description for every session of the
\* encoder, which starts with a keyframe.  Video may come before any of them.
Sendable(kind) ==
    /\ kind = "seed" => ~server.seed
    /\ kind = "description" => server.description < MaxDescriptions

Sent(kind) ==
    server' = [seed        |-> server.seed \/ kind = "seed",
               description |-> server.description
                                 + (IF kind = "description" THEN 1 ELSE 0),
               keyframe    |-> \/ kind = "keyframe"
                               \/ server.keyframe /\ kind # "description"]

\* The number of the next frame that is decoded.
NextFrame == IF frames < MaxFrames THEN frames + 1 ELSE frames

Decoded(v) == Len(v.decoding) > Len(view.decoding)

\* requestKeyframe at the end of a reset, which its debounce may drop.
Requested(v, before) ==
    IF v.recoveries > view.recoveries THEN {before, TRUE} ELSE {before}

\* The bounds: a step into trouble is taken only while they allow for it.
Within(v) ==
    /\ v.recoveries <= MaxRecoveries
    /\ v.timer # "none" => v.connection < MaxConnections

\* demuxer.buffer holds bytes of another connection than the one being read.
Misframed == view.buffer \notin {0, view.connection}

\* demuxer.visit finds a complete chunk of the read, and handling it gives v.
Visits(kind, v) ==
    /\ Sendable(kind)
    /\ Len(view.decoding) < MaxDecoding
    /\ kind = "seed" => Cardinality(seeds) < MaxSeeds
    /\ frames' = IF Decoded(v) THEN NextFrame ELSE frames
    /\ Within(v)
    /\ owed' \in IF kind = "description" THEN {owed}
                ELSE Requested(v, owed /\ kind # "keyframe")
    /\ seeds' = IF kind = "seed"
                THEN seeds \cup {[connection |-> view.connection]} ELSE seeds
    /\ Sent(kind)

\* The first chunk of a read.  When the chunk has it given up, the chunks
\* behind it are visited all the same; otherwise they are a read of their
\* own.  more: the remainder is part of a chunk, and kept.
Read(kind, more) ==
    /\ net = "open"
    /\ ~Misframed
    /\ \E v \in HandleChunk(view, kind, NextFrame) :
        /\ Visits(kind, v)
        /\ IF v.reconnecting
           THEN view' = v /\ net' = "visiting"
           ELSE /\ view' = [v EXCEPT !.buffer = IF more THEN view.connection ELSE 0]
                /\ net' = net

\* A chunk behind the one that had the connection given up.
VisitRest(kind) ==
    /\ net = "visiting"
    /\ \E v \in HandleChunk(view, kind, NextFrame) : Visits(kind, v) /\ view' = v
    /\ UNCHANGED net

\* The visit keeps the remainder, though reconnect() has reset the demuxer.
VisitEnds(more) ==
    /\ net = "visiting"
    /\ more => "cut" \in Faults
    /\ view' = [view EXCEPT !.buffer = IF more THEN view.givenUp ELSE 0]
    /\ net' = "closed"
    /\ UNCHANGED <<server, frames, owed, seeds>>

\* No other task of the event loop runs inside a visit.
Idle == net # "visiting"

\* Part of a chunk arrived.
ReadPart ==
    /\ net = "open"
    /\ view.buffer = 0
    /\ view' = [view EXCEPT !.buffer = view.connection]
    /\ UNCHANGED <<net, server, frames, owed, seeds>>

\* The bytes only fill the other connection's chunk up to its declared
\* length.  (What the demuxer makes of them after that is not modelled.)
ReadMisframed(kind) ==
    /\ net = "open"
    /\ Misframed
    /\ Sendable(kind)
    /\ Sent(kind)
    /\ owed' = (owed /\ kind # "keyframe")
    /\ UNCHANGED <<view, net, frames, seeds>>

-----------------------------------------------------------------------------
(* Connections and timers.                                                 *)

Connects ==
    /\ net = "connecting"
    /\ net' = "open"
    /\ UNCHANGED <<view, server, frames, owed, seeds>>

\* read's finally: another read in a second.  (demuxer.buffer stays.)
ScheduleRetry(v) ==
    IF v.stopped \/ v.reconnecting \/ v.timer # "none" THEN v
    ELSE [v EXCEPT !.timer = "retry"]

StreamEnds ==
    /\ "end" \in Faults
    /\ net \in {"connecting", "open"}
    /\ view.buffer # 0 => "cut" \in Faults
    /\ view' = ScheduleRetry(view)
    /\ Within(view')
    /\ net' = "closed"
    /\ UNCHANGED <<server, frames, owed, seeds>>

\* The retry or reconnect timer calls read(), a new connection.
TimerFires ==
    /\ Idle
    /\ view.timer # "none"
    /\ view' = [view EXCEPT !.timer = "none", !.reconnecting = FALSE,
                           !.connection = @ + 1]
    /\ net' = "connecting"
    /\ server' = NothingSent
    /\ UNCHANGED <<frames, owed, seeds>>

-----------------------------------------------------------------------------
(* The decoder's callbacks, the seed's bitmap and the display.             *)

\* A frame of a closed decoder is closed; one of this decoder is presented.
Output ==
    /\ Idle
    /\ view.decoding # <<>>
    /\ LET frame == Head(view.decoding)
           rest  == [view EXCEPT !.decoding = Tail(@)]
           shown == [connection |-> frame.connection, n |-> frame.n]
           live  == ~view.stopped /\ frame.live
       IN  view' = IF live THEN Present(rest, shown) ELSE rest
    /\ UNCHANGED <<net, server, frames, owed, seeds>>

DecoderError ==
    /\ Idle
    /\ "error" \in Faults
    /\ ~view.stopped /\ view.configured
    /\ view' = Reconnect(view)
    /\ Within(view')
    /\ net' = IF view'.reconnecting THEN "closed" ELSE net
    /\ UNCHANGED <<server, frames, owed, seeds>>

SeedPaints(seed) ==
    /\ ~view.stopped
    /\ ~view.painted \/ view.awaiting
    /\ seed.connection = view.connection

\* createImageBitmap resolves.
SeedDecoded(seed) ==
    /\ Idle
    /\ seeds' = seeds \ {seed}
    /\ view' = IF SeedPaints(seed)
               THEN Paint(view, [connection |-> seed.connection, n |-> 0]) ELSE view
    /\ UNCHANGED <<net, server, frames, owed>>

\* The animation frame: the tick, and then the display shows the canvas.
Tick ==
    /\ Idle
    /\ view.presenter.scheduled
    /\ LET p == view.presenter
           ticked == [view EXCEPT !.presenter = Ticked(p)]
       IN  view' = IF DrawsAtTick(p) THEN Paint(ticked, Head(p.waiting)) ELSE ticked
    /\ UNCHANGED <<net, server, frames, owed, seeds>>
-----------------------------------------------------------------------------
(* The watchdog, and unmounting.                                           *)

Watching == ~view.stopped /\ ~view.reconnecting

\* No bytes for too long, on an open connection, before it opens or after.
Silence ==
    /\ "silence" \in Faults
    /\ Watching
    /\ view' = Reconnect(view)
    /\ Within(view')
    /\ net' = "closed"
    /\ UNCHANGED <<server, frames, owed, seeds>>

Stall ==
    /\ "stall" \in Faults
    /\ Watching
    /\ Pending(view)
    /\ view' \in ResetDecoderForKeyframe(view)
    /\ Within(view')
    /\ net' = IF view'.reconnecting THEN "closed" ELSE net
    /\ owed' \in Requested(view', owed)
    /\ UNCHANGED <<server, frames, seeds>>

\* Mutant: only the reset asks, and its request may be debounced.
NeverAsks == FALSE

\* keyframeRecoveryAction
AsksForKeyframe == view.awaiting /\ view.configured

RequestKeyframe ==
    /\ Watching
    /\ AsksForKeyframe
    /\ owed' = TRUE
    /\ UNCHANGED <<view, net, server, frames, seeds>>

Unmount ==
    /\ Idle
    /\ ~view.stopped
    /\ LET closed == [CloseDecoder(view) EXCEPT !.stopped = TRUE, !.timer = "none",
                                                !.reconnecting = FALSE,
                                                !.buffer = 0]
       IN  view' = [closed EXCEPT !.presenter = Closed(@)]
    /\ net' = "closed"
    /\ UNCHANGED <<server, frames, owed, seeds>>

-----------------------------------------------------------------------------
Next ==
    \/ \E kind \in Kind, more \in BOOLEAN : Read(kind, more)
    \/ \E kind \in Kind : VisitRest(kind)
    \/ \E more \in BOOLEAN : VisitEnds(more)
    \/ ReadPart
    \/ \E kind \in Kind : ReadMisframed(kind)
    \/ Connects
    \/ StreamEnds
    \/ TimerFires
    \/ Output
    \/ DecoderError
    \/ \E seed \in seeds : SeedDecoded(seed)
    \/ Tick
    \/ Silence
    \/ Stall
    \/ RequestKeyframe
    \/ Unmount

Spec == Init /\ [][Next]_vars

\* What the helper owes a viewer: its description, unless it is lost on the
\* way (MCFirstViewer), the keyframe behind a description, and one for every
\* request (KeyframeRecovery).
Owed(kind) ==
    \/ kind = "description" /\ server.description = 0 /\ "undescribed" \notin Faults
    \/ kind = "keyframe" /\ server.description > 0 /\ (~server.keyframe \/ owed)

\* The event loop runs timers, callbacks and animation frames and finishes a
\* visit; the helper sends what it owes.  Nothing else is sent, and no
\* trouble is due.
Fairness ==
    /\ WF_vars(Connects)
    /\ WF_vars(TimerFires)
    /\ WF_vars(Output)
    /\ WF_vars(Tick)
    /\ WF_vars(RequestKeyframe)
    /\ WF_vars(\E more \in BOOLEAN : VisitEnds(more))
    /\ SF_vars(\E kind \in Kind : Owed(kind) /\ Read(kind, FALSE))

FairSpec == Spec /\ Fairness

-----------------------------------------------------------------------------
(* Properties.                                                             *)

\* What was handled before reconnect() is not painted after it: no seed's
\* bitmap, no decoder output, no frame that waited for its tick, whatever
\* closes and rebuilds the decoder between.  (use-avcc-stream.ts:341,
\* connectionGeneration, and the decoderGeneration of closeDecoder.)
NothingOutlivesReconnect ==
    [][view'.canvas # view.canvas => view'.canvas.connection > view.givenUp]_vars

\* The stronger claim that nothing at all is painted before the next
\* connection: "a JPEG seed from a closed connection cannot paint after
\* reconnect" (avcc-jpeg-composition.test.ts:49).  It does not hold: see the
\* chunks of VisitRest.
BackoffPaintsNothing == [][view.reconnecting => view'.canvas = view.canvas]_vars

\* Video is painted in the order it was encoded, through waiting, dropped
\* frames, resets and reconnections.
VideoInOrder ==
    [][view'.canvas.n > 0 => view'.canvas.n >= view.canvas.n]_vars

ShowsLiveVideo == view.canvas.connection = view.connection /\ view.canvas.n > 0

\* Whatever goes wrong for a while, the picture of the connection that is
\* left is video of that connection in the end: "frozen pipelines reconnect
\* or request an IDR" (STREAM_PERFORMANCE.md:43).
StreamRecovers == <>[](view.stopped \/ ShowsLiveVideo)

\* A stream stays frozen only with bytes kept from another connection, or
\* on a connection that was never sent a description: from every other
\* trouble, at any time and combined, it recovers.
FrozenOnlyMisframedOrUndescribed ==
    <>[](view.stopped \/ ShowsLiveVideo \/ Misframed \/ server.description = 0)

\* "A delayed JPEG seed never overwrites a newer decoded frame"
\* (avcc-seed.test.ts:5)
SeedNeverOverwrites ==
    [][view.canvas.n > 0 /\ view'.canvas.n = 0 =>
        view'.canvas.connection # view.canvas.connection]_vars
=============================================================================
