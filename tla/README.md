# A TLA+ verification of headless-serve-sim

headless-serve-sim shows a running iOS simulator in a browser and lets the
browser control it. This directory models its video path, the processes around
it and the parts of the page and of the helpers that keep state of their own in
TLA+, checks the models with TLC and proves the invariants that matter most with
TLAPS. Paths below are relative to `src/packages/`; `SSH/` stands for
`headless-serve-sim-binary/Sources/SimStreamHelper/`.

1. [The system](#1-the-system)
2. [What is hard about it](#2-what-is-hard-about-it)
3. [The modules](#3-the-modules)
4. [The runs](#4-the-runs)
5. [The proofs](#5-the-proofs)
6. [What the project found](#6-what-the-project-found)
7. [What is not modelled](#7-what-is-not-modelled)
8. [The plan](#8-the-plan)

## 1. The system

```
 simulator          helper process (Swift, one per device)            browser
+-----------+  +----------------------------------------------+  +-----------------+
|framebuffer|->|FrameCapture -> encodeFrame -> H264Pump -+    |  | use-avcc-stream |
|           |  |  seeds, idle timer  ^                   v    |  |  demux, decoder |
|           |  |             KeyframeRequest     h264Queue    |  |  watchdog, retry|
|           |  |                     ^                   v    |  |       |         |
|           |  |ClientManager <- onEncoded <- VideoToolbox    |  |       v         |
|           |  |  one AVCCSendQueue + thread per viewer ------|->| frame presenter |
|           |<-|HIDInjector, accessibility <- WebSocket <-----|<-| transport       |
+-----------+  +----------------------------------------------+  +-----------------+
                     ^ spawned, watched, killed by
               CLI and preview server (headless-serve-sim/src)
```

| Component | State it keeps | Operations | Talks to | What makes it correct |
|---|---|---|---|---|
| `SSH/FrameCapture.swift`, `SSH/main.swift` `encodeFrame` | last framebuffer seeds, idle timer, "encoder busy" flags | capture on a seed change, capture on the idle timer, snapshot, offer | pump, keyframe request, JPEG encoder | every change and every pending keyframe request leads to a frame |
| `SSH/KeyframeRequest.swift` | one pending bit under a lock | request, consume, isPending | client manager, capture | requests coalesce, none is lost |
| `SSH/H264Pump.swift` | the parked frame, the in-flight count | offer, drain, complete | h264Queue, encoder | slots exact, newest frame wins, a request survives supersession, nothing stays parked beside a free slot |
| `SSH/H264Encoder.swift` | VideoToolbox session, generation, health, forced-again flag, description flag, low-latency ceiling | encode, rebuildSession, output handler, setBitrate | VideoToolbox, client manager | a swallowed forced keyframe is forced again; a mute low-latency session is given up; each session is described once |
| `SSH/AVCCSendQueue.swift` | pending chunks, description slot, gate, byte counts, high-water mark | enqueue (five kinds), beginNextWrite, completeWrite, sample, clear | `AVCCClient` | bounded, and what it delivers is decodable |
| `SSH/ClientManager.swift` | clients, cached description and JPEG; per viewer a queue, a condition and a closed flag | add, greet, broadcast, remove, stop; per viewer enqueue, drain, close | HTTP server threads, encoder, keyframe request | no lost wakeup, close ends the thread, a refused delta is followed by a request |
| `SSH/AdaptiveController.swift`, `AdaptiveDriver.swift` | bitrate, QP, bounds, streaks | tick, setBounds, setMode | samples of the queues, encoder | values stay within bounds that move |
| `SSH/HTTPServer.swift`, `Protocol.swift` | routes | streams, WebSocket, configuration | client manager | a stream ends when its client does |
| `SSH/HIDInjector.swift`, `AccessibilityBridge.swift`, `ScrollDrag.swift` | gesture state, cached trees | touches, keys, trees | private simulator frameworks | gestures begin and end in pairs |
| `headless-serve-sim-client/src/simulator/use-avcc-stream.ts`, `avcc-codec.ts`, `stream-liveness.ts` | connection, demuxer remainder, decoder and its generation, awaiting flag, timers | read, handle a chunk, reset, reconnect, retry, watchdog | fetch, WebCodecs, presenter | only the current connection and decoder paint; a stalled stream recovers |
| `headless-serve-sim-client/src/frame-presenter.ts` | waiting frames, last drawn | enqueue, tick, clear, close | display callback | frames closed once, drawn in order |
| `headless-serve-sim-client/src/transport.ts`, `gateway.ts` | socket, throttled touches, heartbeat | connect, send, retry | helper's WebSocket | the last touch of a gesture is sent |
| `headless-serve-sim/src/index.ts`, `orphan-helpers.ts`, `state.ts` | state file per device, helper processes, ports | start, follow, detach, kill, list, reap | process table, helper `/health` | one live helper per device, named by its state file |
| `headless-serve-sim/src/middleware.ts`, `helper-proxy.ts`, `exec-ws.ts`, `event-log.ts` | proxied sockets, subscriptions, ring of events | proxy, subscribe, exec | helper, browser | messages buffered before a socket opens are sent in order |
| `headless-serve-sim/src/client/` (Stage) | React state, MJPEG fallback, recorder | render, switch, record | client library | fallback is entered and left once |
| camera, motion and settings injectors (`Sources/SimCamera*`, `SimDeviceMotion`, ...) | shared memory, interposed classes | publish, read | simulator apps | a frame is read whole |

## 2. What is hard about it

The video path crosses six threads of the helper and the event loop of the
browser. Five mechanisms on the way drop frames on purpose: capture
coalesces, the pump keeps only the newest frame, VideoToolbox swallows
frames, the send queue refuses them, and the viewer skips what it cannot
decode. H.264 deltas depend on the frames before them, and nothing is
encoded while the screen is still. So each drop must be repaired by a keyframe
that somebody asks for, the request must survive every other drop, and it
must be answered without help from a screen that may never change again. A
test drives one component through one order of calls; what can go wrong sits
between the components and in the orders nobody wrote down. The list of
hazards in `PROJECT.json` gives each at its line, with the properties that
watch it.

## 3. The modules

### `AVCCSendQueue` - one viewer's queue (`SSH/AVCCSendQueue.swift`)

A data structure, so a module of operators on a record: `pending`,
`description`, `needKeyframe`, `queuedBytes`, `inFlightBytes`,
`sampleHighWater` are the fields of the Swift struct. A chunk is its kind, its
size, the encoder session it belongs to and the number of its reference frame;
a disposable delta carries the number of the reference it needs. `Enqueue`
has one operator per case of the `switch`, with the order of its tests;
`Admission` is the value it returns. Write durations and drop counters only
feed statistics and are left out.

### `AVCCClient` - the threads around the queue (`SSH/ClientManager.swift` 465-541)

Producers (encoder output, heartbeat, greeting), the connection thread in
`drain`, `close`, and the sampling controller. Each critical section of `cond`
is one action. The writer is `ready` (about to test), `asleep` (in
`cond.wait`), `writing` (outside the lock), `failed` (a write threw and
`completeWrite` ran, `close()` has not) or `returned`. `source` is what the
encoder has emitted, `decoder` what the browser's decoder made of the chunks
that reached it (`Decoded`, from `handleChunk`). `onNeedKeyframe` runs after the
lock is released: `requested` is set and stays until a keyframe is enqueued.
`sendInitialAvcc` is two critical sections, the seed (`SendSeed`) and the cached
description with the keyframe request (`SendInitialAvcc`); broadcasts wait, on
the manager's queue, until both are over.
`Produce` and `Drain` interleave freely.

### `DecodableStream` - what a viewer is promised

The abstract specification: the decoder is configured for ever newer
sessions, starts at a keyframe, and then sees each next reference frame or jumps
forward to a newer keyframe. `AVCCClient` implements it (`ViewerDecodes`); the
refinement maps `decoder` to itself and hides the queue and all threads.

### `H264Pump` - the mailbox (`SSH/H264Pump.swift`, with `main.swift` 124-129)

Three threads run `drain`: the capture queue after `offer`, the `h264Queue`
after a synchronous failure, VideoToolbox after a callback. `drain` releases
its lock before it calls `submit`, so `Claim`, `Submit` and the next look are
separate actions. `shown` is the number of the last frame emitted.
`forceAsked` and `forceGiven` are history variables.

### `KeyframeRecovery` - how a viewer gets a picture, and gets it back

Composes the request bit, capture on a change and on the idle timer, the
encoder with its sessions, one viewer's gate and decoder, and the greeting of a
viewer that joins. The pump and the send queue appear as their contracts: one
parked frame and `Depth` in the encoder with requests inherited (what
`H264Pump` checks), delivery in order and, after a drop, a request and no delta
before a keyframe (what `AVCCClient` checks). The queue may drop any
delta. The environment chooses at the start which frame sizes a
low-latency session is mute at; VideoToolbox may swallow any frame, and may
call back for a frame of a session that was invalidated, as the generation
checks of `noteSilent` and `noteEmitted` provide for. `Faults` selects which
other failures occur: a failed snapshot, submission, session or extraction.

### `FramePresenter` - one frame per display tick (`headless-serve-sim-client/src/frame-presenter.ts`)

Operators on the presenter's record, one per method. Everything runs on the
browser's event loop, so a call is a step. `VideoFrame.close()` is left out: a
frame that leaves the record is closed.

### `AvccViewer` - the browser's side (`use-avcc-stream.ts`, `avcc-codec.ts`, `stream-liveness.ts`)

One action per task of the event loop: a read, a response that
connects or ends, a timer, a decoder callback, a seed's bitmap, an animation
frame, a branch of the watchdog, unmounting. `view` holds the local variables of
the effect; the functions it calls (`closeDecoder`, `configureDecoder`,
`resetDecoderForKeyframe`, `reconnect`, `handleChunk`) are operators from view to
view, or to a set of views where WebCodecs may throw. `decoderGeneration` is
the `live` flag of the frames inside the decoders, and what `pendingDecodes`
holds are the live ones. A frame is a number, `canvas` the picture shown and the
connection it came from. The demuxer's remainder is the connection its bytes
came from: a chunk begun on one connection and continued with the bytes of
another is the state `Misframed`, in which nothing is parsed. A read holds
several chunks when one of them has the connection given up: `demuxer.visit` goes
on to the chunks behind it (`net` is `visiting`, `VisitRest`, `VisitEnds`) and
keeps their remainder, and no other task runs before it returns. Other reads of
several chunks are the same as reads of one.
`Sendable` and `Owed` are what the helper sends a connection, and what it must
send in the end: the contract `AVCCClient` and `KeyframeRecovery` check from
the other side: one seed, before or behind the description, a description for
each session, and video at any time. `Faults` selects what goes wrong;
`undescribed` takes from the helper the duty to send a description, which
`first_viewer` shows it may fail in.

### `HelperLifecycle` - processes, ports and state files (`headless-serve-sim/src/index.ts`, `orphan-helpers.ts`)

The commands of the CLI share the process table, the ports and one file per
device, and take no lock. A step of a command is what it does between two looks
at them: reading the state files drops stale ones and terminates their helpers
(`ReadStates`), a start reaps (`Reap`), reads, probes a port, boots, kills the
port's holder, spawns, waits, retries, writes; a follow waits for its child and
clears its file; a kill reads and then signals. Helpers bind their port late and
leave after a signal in their own time. Deaths, shutdowns, swept files and
crashes of commands are `MaxFaults` steps of the environment, and so is a `ps` that
fails (`ReapFails`): nothing is reaped then. `alone` and `calm`
are history: whether a command was disturbed (by another command, by a fault, or by
a stray helper that took its port after `killPortHolder`), and whether commands
ever overlapped, crashed or lost a file.

### `AdaptiveControl` - bitrate (`SSH/AdaptiveController.swift`, `AdaptiveDriver.swift`)

Timer, connection and capture callback meet at the driver's lock. A tick is
computed under it and applied to the encoder after it (`Tick`, `Apply`), a mode
switch reads the size before it (`RequestMode`, `SetMode`). Rates are steps
between `Least` and `Most`, which are parameters of mode and size.

### `DuoFramePump`, `PanelCapture`, `DisplayMonitor` - foldables

`DuoFramePump` (`SSH/DuoFramePump.swift`): callers take the lock once to record
a change and once to schedule a drain; the drain takes, composes, looks again
and sleeps. The springs are `moving` or at rest. `PanelCapture`
(`SSH/FrameCapture.swift`): seeds of the panels, callbacks, the idle timer, the
refresh that is owed while nobody watches, rewiring, and the picture whose
surface cannot be wrapped: its seed is recorded all the same. `DisplayMonitor`
(`SSH/FrameDisplayMonitor.swift`, `SimDeviceMotion/sim-display-observer.m`): the
observer's stream and the `devicectl` poll on two queues, each of which posts
what it found to a third.

### `CameraFrames` - the camera's ring (`SimCameraHelper/main.m`, `SimCameraInjector/SimCamFrameSource.m`)

`PublishFrame` in five steps (look, pick, copy, point, count) for each thread
that may be in it, source switching with the threads it does not wait for, and
the app's `Sample`, `Locate`, `Wrap`, `Check` without a lock, for each of two
`Readers`: the pump, which compares the sequence with the last one seen and once
more at the end, and a photo or snapshot, which forces its frame past both
comparisons. They share `gLastSeenSeq` (`seen`), so the pump skips a frame that a
photo took. The app holds a surface until it is done with it.

### `TouchThrottle`, `GatewaySession` - the transport (`headless-serve-sim-client/src/transport.ts`)

`TouchThrottle`: what a throttled channel of touches puts on the wire.
`GatewaySession`: calls and file transfers over a connection that may die
without a word, with the heartbeat that finds out; `heartbeat` is its option,
on or off.

### `MotionSession`, `SimulatorSettings` - controls

`MotionSession` (`headless-serve-sim/src/device-motion.ts`): one native helper
that takes one request at a time; every piece of an async function between two
awaits is an action. `SimulatorSettings` (`latest-wins.ts`,
`simulator-settings-cache.ts`, `simulator-settings-tool.tsx`,
`simulator-appearance.ts`): the appearance, the option with two writers. The
panel makes a queue of its own at every mount (`queue[m]`), and the loop of the
one before goes on; the dock's toggle reads or trusts the cached value and sends
beside them. Sets and reads run in processes of their own on the server.

### `PreviewConnection`, `DeviceSwitch`, `ExecSocket`, `ScreenRecording` - the page

`PreviewConnection` (`middleware.ts`, `client.tsx`): the server-sent events with
their watcher, debounce, heartbeat and recomputation, the cached list of booted
simulators, and the page that asks for its helper to be attached again. The
effect that posts does not abort its request when it ends, so older attaches
(`strays`) run beside the newest.
`DeviceSwitch` (`client.tsx`, `latest-switch.ts`, `device-switch.ts`): clicks,
Back and Forward over a history of devices. `ExecSocket` (`client/utils/exec.ts`,
`exec-ws.ts`): one cached connection, its token and its server's restarts.
`ScreenRecording` (`use-screen-recording.ts`, `native-stream-recorder.ts`,
`screen-recorder.ts`): the hook, the two recorders and the encoded pictures
that reach them.

### The instances

`MCAVCCClient` gives the small instance of `AVCCClient`: chunk sizes per kind. `MCHelperLifecycle` adds symmetry.
`MCHelperParts` and `MCBrowserParts` instantiate five and eight modules that
share no state. A behaviour runs one of them, chosen at the start by `part`, and
the others rest in their initial state: their product would be large and show
nothing more. Each part's fairness is assumed in the behaviours that run it. The
other modules are checked as they are, with numbers in their `.cfg`.

## 4. The runs

| Run | Question | Bounds |
|---|---|---|
| `avcc_client` | Is the queue bounded and its count exact, is no wakeup lost, is every refused delta followed by a request, does the decoder see a decodable stream, and does `close()` end the thread from any point? | limit 4 bytes, keyframes of 2 and 5, other chunks of 1 or 2; 5 reference frames, 2 sessions |
| `h264_pump` | Are slots exact, is a parked frame seen and submitted, does a request survive and arrive? | depth 2, 4 frames |
| `keyframe_recovery` | Does a configured decoder that waits for a keyframe get one, whatever fails on the way? | depth 2, 2 screen contents of different size, every failure |
| `description_race` | Is a decoder configured for the session its keyframe comes from? *(violated)* | depth 2, no failure |
| `first_viewer` | Does every viewer's decoder start? *(violated)* | depth 1, no failure |
| `avcc_viewer` | Is nothing painted that was handled before a reconnect, is video painted in order, and does the stream recover from everything but foreign bytes in the demuxer and a missing description? | every fault, 3 connections, 2 recoveries, 2 descriptions a connection, 1 seed being decoded, 3 frames told apart, 2 inside the decoder, 2 waiting |
| `viewer_cut_stream` | Does it recover when a response ends inside a chunk? *(violated)* | 2 connections, 1 recovery |
| `helper_lifecycle` | Does a start left alone end with one named helper however the machine was left, do sequential commands leave no helper behind, are other devices spared? | 2 devices, 2 commands at a time and 3 in all, 3 helpers, 1 fault |
| `start_race` | Is a helper that another start has just brought up never reaped? *(violated)* | 1 device, 2 starts, no fault |
| `helper_parts` | Does the rate stay in bounds and follow the link, is no revision and no panel stranded, does capture settle on the panel in use, is a frame whole that the app's pump holds? | 2 modes and 2 sizes; 2 callers and 4 revisions; 2 panels, 2 seeds each; ring of 3, 4 frames, 2 readers |
| `torn_frame` | Is a frame that the pump holds whole while a source that was switched off is late to stop? *(violated)* | ring of 4, 6 frames |
| `browser_parts` | Does input keep its order, does the last request of a kind land, do calls, reconnections and recordings end? | 2 to 4 requests, clicks or events of each kind, 1 death, drop or restart; 7 helpers, 2 older attaches under way; 2 mounts, 2 clicks, 1 press, 1 read; 2 recorders |

Why the bounds are enough. The rules of the send queue compare sums with the
limit and half the limit: a limit of four chunks reaches every rule, a keyframe
of 5 is larger than the limit, and 5 reference frames over 2 sessions fill the
queue, empty it and fill it again. The pump has three threads and one slot;
with 4 frames and depth 2 every thread can hold a frame while another is parked
and one is superseded. In `KeyframeRecovery` the second content has another
size, so that sessions are rebuilt both for the size and for the fallback:
`MaxSession = 4` is all that two
sizes, each with and without low latency, can need; a failed rebuild uses none,
so no behaviour is cut short. `SilentLimit` is 6 in the code and 2 here: what
matters is that a session may be given up after more than one silent frame.

In `AvccViewer` two recoveries and three connections let a second fault strike
while the first is being repaired, by a reset, by a reconnection and by a
retry; frames beyond the third share its number, so video never runs out, and
three outputs between two ticks already push a waiting frame out of the presenter.
A second description is what a rebuilt session sends. With one seed being decoded
the seeds of two connections do not race each other, but each races every
reconnection; the proof of `NothingOutlivesReconnect` is for any number.

`HelperLifecycle` reaches every step of every command with two commands at a
time; a third gives one that comes to a machine the first two have left in any
state, and three helpers are what a start, its retry and another start need. In
the parts, two of a kind meet (two callers, two panels, two requests, two
descriptions), and the counters allow one more of each event than the longest
chain the code handles: a move that waits while two later ones are sent, a
queued angle behind a command behind a read, a helper that dies after a stale
list has stopped another, a click and a Back that overlap twice, a set of one
mount, of the next and of the toggle in flight at once. The second picture of a
panel follows one that was handed on or one that could not be wrapped. The ring of 3
is smaller than the code's, so that all slots are soon in use. Heartbeats,
debounces and intervals are steps that may happen at any time.

`CHECK_DEADLOCK FALSE` is set where the system may stop: the pump after
`MaxFrames`, the recovery model on a still screen with nothing to do, the viewer
once it is unmounted, the commands once all have run, the parts once their
counters are spent.

### Fairness

* `AVCCClient`: `WF(Drain)`. The connection thread runs, and a write returns or
  throws: the operating system gives up on a dead peer. No producer is fair.
* `H264Pump`: each thread in `drain` runs, `h264Queue` runs its blocks, and
  VideoToolbox calls back for each accepted frame - with or without a sample.
  Capture is not fair: frames may stop for ever.
* `KeyframeRecovery`: the queues run and VideoToolbox calls back (weak
  fairness); a capture, a submission and an emission that are possible again
  and again succeed in the end (strong fairness), because the failures are
  transient; the viewer's watchdog runs. Nothing makes the screen change, a
  viewer connect or a decoder reset. The violations do not rest on an unfair
  scheduler: their counterexamples stutter in states where nothing is left to
  run.
* `AvccViewer`: the event loop runs its timers, decoder callbacks, animation
  frames and the watchdog's request (weak fairness), and the helper sends what it
  owes while it can be read (strong fairness: a part of a chunk may be in the way
  for a while). With the fault `undescribed` it owes no description. No delta, no
seed and no fault is due. A visit that goes on after a reconnection ends. The bounds on recoveries and
  connections mean that trouble stops at some point; that is what "recovers" is
  about.
* `HelperLifecycle`, `CameraFrames`, `TouchThrottle`, `MotionSession`,
  `DeviceSwitch`, `SimulatorSettings`: only safety is checked, no fairness.
* `AdaptiveControl`: the 300 ms timer, and the two threads that are inside a call.
* `DuoFramePump`: callers that recorded a change schedule, the grace timer fires,
  the drain runs. Nobody need offer another frame.
* `PanelCapture`: the idle timer, and the callback of a panel whose surface
  changed. `DisplayMonitor`: the observer's pipe is read, what was posted is run,
  the poll is asked, and answers one time or another (strong fairness: each
  answer may fail, time out or come too late).
* `GatewaySession`: the inactivity timer of a file transfer, the heartbeat (where
  the option has it) with its timeout, and the close event of a socket that is
  closing. No answer is due.
* `PreviewConnection`: the heartbeat recomputes, reads and pushes are finished,
  the stream connects again, the page's retry timer and the command it runs end.
  The file watcher and its debounce are not fair: events may be missed.
* `ExecSocket`: the connect timer ends a handshake, a socket that is gone says so,
  a live server answers what it got. The fetch of the token has no timer and is
  not fair. `ScreenRecording`: the muxer, the
  `MediaRecorder` and the import answer.

## 5. The proofs

TLAPS proves each theorem below for every value of the constants that the module's
assumption allows: every limit, depth and set of chunk sizes, and any number of
frames, sessions, chunks, commands, helpers, clicks and faults. Each
rests on an inductive invariant that TLC confirmed on the run's instance before it
was proved, and each proof has one step per action, and under it one per conjunct
that the action can disturb.

| Module | Theorems | Inductive invariant, and what it adds |
|---|---|---|
| `AVCCClientProofs` | `TypeCorrect`, `MemoryBounded`, `WakeupsKept`, `GapsRequested`, `BytesExact` | `SafetyInv`; `Accounted` |
| `AVCCChainProofs` | `WrittenIsDecodable`, `StreamConverges`, `ViewerSeesDecodableStream` | `IInv` |
| `H264PumpProofs` | `PumpTypes`, `SlotsAreExact`, `ParkedFrameIsSeen`, `ForceIsKept` | `PumpInv` |
| `HelperLifecycleProofs` | `HelpersHaveOwners`, `SequentialCommandsCleanUp`, `OthersAreSpared`, `StartsLeaveOneHelper` | `OwnInv`, `CalmInv`, `AloneInv` |
| `HelperPartsProofs` | `PartsTypes`, `RateStaysInBounds`, `ChangesAreSeen`, `StreamedFramesAreWhole` | one per part; `PartsInv` |
| `BrowserPartsProofs` | `TouchesInOrder`, `AngleLands`, `OneRequestAtATime`, `LastSetWins`, `UrlAgrees`, `ExportsPlay`, `HeldRecorderOnly`, `PageTypes` | one per part; `PageInv` |
| `AvccViewerProofs` | `ViewerTypes`, `NothingOutlives`, `VideoPaintedInOrder` | `ViewerInv` |

**A viewer's queue and threads.** `SafetyInv` is the conjunction of type, bound,
wakeup and request: a wakeup is kept only while the queue's type is, and the
request follows from the gate only while the gate is set where `Admission` says
so. `AVCCSendQueueProofs` holds one lemma per operation of the queue (its
"shape": the type, the bound, the gate and the emptiness of its result); the proof
of a step cites these and never opens the operators. `BytesExact` needs a sum over
the queue, which is a fold. What a fold returns cannot be shown by induction here,
so `Total` relates the queue to a function of its running totals: a total exists
for a queue that grew or lost its head, and it is unique because two functions
that start alike and step alike have no first place where they differ (a descent
that the pigeonhole principle excludes, `NoDescent`).

**The chain.** `IInv` says that queued and written video is of the session the
decoder is or will be configured for (`SessionInv`), in encoder order (`OrderInv`),
each delta's reference queued before it, being written or decoded (`ChainInv`, by
`Linked` and `Link`), and that a greeted viewer with an open gate has its keyframe
ahead or behind (`StartedInv`). From it follow what is written, what the decoder
holds once the queue has drained, and that every write that arrives is a step of
`DecodableStream`: the refinement, step by step.

**The pump.** `PumpInv` adds what none of the four properties says: a thread that
submits holds a frame and no other thread does, without which `Submit` could queue
nothing and a request could hide in a stale hand.

**The commands.** `OwnInv` says whose helper is whose: a state file names a helper
of its device, a command's child is one too. `findAvailablePort` always finds a
port, because there is one more than helpers (pigeonhole). `CalmInv` is about
commands that run one after the other: a running helper is named by its device's
file or is the child of the command at work, and that command's port is used by no
helper of another device, so that `killPortHolder` harms none.
`AloneInv` follows a start through its steps: after the reap what runs for the
device is named, after the read nothing runs, after `killPortHolder` nothing but
the child can answer on its port. The proof of its step for `Bind` failed at
first, and TLC then found the reason with two faults instead of one (section 6):
the model's `alone` now also ends when a stray helper takes the start's port.

**The viewer.** `ViewerInv` orders everything that can still be painted: what the
canvas shows is not newer than what waits for a tick, that not newer than what is
inside the decoders, old ones included, and nothing newer than what was encoded
(`Ordered`); and what waits, or would be presented if its decoder answered now, is
of a connection after the last one that was given up (`Paintable`); the seeds need
no invariant, because `SeedPaints` compares the connection they were handled on
with the current one, which is never one that was given up. Late frames of
an old decoder stay in that order but are disowned, which is what makes both
properties inductive. The functions of the effect have one lemma each, from good
views to good views, so that a step cites the function it calls.

**Parts.** The composition runs one part and lets the others rest, so `PartSteps`
reduces a step to a step of each part. For the rate, the bounds in force; for the
foldable's pump, that a drain runs while `running` is set; for the ring, that the
writer's slot is neither the latest nor held, and that the slot a reader looks at
is still the newest while the sequence number it saw is; photos hold slots, too,
and only keep the writer away from more of them
(`StreamedFramesAreWhole` assumes `~LateFrames`, one writing thread: the run
`torn_frame` shows that it fails with two). The helpers' types (`PartsTypes`) follow
part by part; only the camera's need more, that the frames published and those
begun together stay within `MaxSeq` (`CameraBounded`), which is a count of the
writers at work and holds with late frames too. The page's types (`PageTypes`)
follow from the conjunction of its parts' invariants, `PageInv`; there the switch
needs a count as well, that a click asks at most twice and mounts at most one shell
(`SwitchCounted`), and the connection's bound that a helper attaches only while
`Helpers` has a number that nothing still speaks of. For touches, that a number waiting is
the newest; for motion, that what is in flight is what the writer or the reader
waits for, and where the last angle is (`RequestInv`, `AngleInv`); for a setting, that what
was asked last is sent or next in the one queue at work, or sent by the toggle, or
reached, as long as two were not in flight at once; for the switch, that the latest ask of a
Back or Forward loads what the URL names. A recorder's file is a chain like the
queue's, and whatever encodes is the recorder the hook holds (`HeldInv`,
`PhaseInv`).

Where a proof needs a least element (the smallest free pid, the first free
slot, the first picture), it takes it from the well-foundedness of `<` on the
naturals. What the proofs need of the constants is in `QueueAssumption`,
`ClientAssumption`, `PumpAssumption`, `LifecycleAssumption`, `AdaptiveAssumption`,
`HelperAssumption`, `BrowserAssumption`, `ViewerAssumption` and
`PresenterAssumption`; TLC evaluates each of them.

Every safety property that a passing run checks is stated by a theorem. Only
checked by TLC is everything temporal under fairness (`CloseEndsWriter`,
`ForceArrives`, `ParkedIsSubmitted`, `KeyframeRecovered`,
`FrozenOnlyMisframedOrUndescribed`, `EncoderFollows`, `NewestComposed`, `PanelsCatchUp`,
`DisplaySettles`, `CallsSettle`, `ComesBack`, `OnlyRefreshStalls`, `StopEnds`):
liveness and `ENABLED` are out of the prover's reach.

## 6. What the project found

Five runs show a behaviour that a comment or document of the repository rules out:

* `first_viewer`: on a still screen the swallowed first keyframe is never
  forced again. The flag acts on the next frame, no frame comes, and a viewer
  without a description does not ask.
* `description_race`: the description flag is not tied to a session. A late
  keyframe of the old session uses up the new session's description. With
  depth 1 the property holds.
* `viewer_cut_stream`: a response that ends inside a chunk leaves the chunk's
  first bytes in the demuxer, which the retry does not reset. The next
  connection's seed, description and keyframe are taken for the rest of that
  chunk; heartbeats keep the watchdog quiet, and the picture stays old. The
  passing `avcc_viewer` run shows that only such bytes, or a description that is
  never sent (`first_viewer`), keep a stream frozen.
* `start_race`: a start reads which helpers are named before another start names
  its own, and reaps the helper that start has just brought up. The next start
  that is left alone repairs it.
* `torn_frame`: a camera source that was switched off may still be publishing when
  the next one does. Both pick the same slot, and a frame that the app streams is
  overwritten.

Further observations, each with a definition that states it where one exists
(add it to the module's `.cfg` to see the trace):

* `H264Pump.NeverBackwards` is violated with a depth of two or more: `drain`
  submits outside its lock (`H264Pump.swift:87`), so a thread that claimed frame
  *n* can be overtaken by one that claims and submits *n + 1*.
* `KeyframeRecovery.PictureConverges` is violated: an unforced frame that is
  swallowed last is never encoded again (`H264Encoder.swift:209`), and the picture
  stays old until the screen changes. Panels note their seed, too, before the
  pixel buffer can fail (`FrameCapture.swift:368-371`): such a picture is not handed
  on before the panel draws again, which `PanelsCatchUp` leaves out.
* `AvccViewer.BackoffPaintsNothing` is violated: when `configure()` throws for a
  description, `reconnect()` counts the generation up and the same read goes on to
  the chunks behind it (`avcc-codec.ts:111-132`). A seed among them takes the new
  generation (`use-avcc-stream.ts:341`) and is painted during the back-off, before
  there is a new connection. `avcc-jpeg-composition.test.ts:49` says "a JPEG seed
  from a closed connection cannot paint after reconnect".
* `CameraFrames.HeldWhole` is violated with one writing thread: a photo skips both
  comparisons of the sequence (`SimCamFrameSource.m:252`, `271`, `279-285`) and may
  wrap a surface between the copy of one frame and the next.
* `AvccViewer.SeedNeverOverwrites` is violated: a decoder reset within the
  connection lets a slow seed paint over newer video (`use-avcc-stream.ts:349`).
* `DeviceSwitch.UrlAgrees` is violated: a click that supersedes a pending Back and
  then fails leaves the old device under Back's URL.
* `SimulatorSettings.LastClickLands` is violated: the panel mounts again while its set
  is in flight and makes another queue (`simulator-settings-tool.tsx:283-286`), or the
  dock's toggle is pressed (`client.tsx:1284-1294`), and of the two sets the older may
  take effect last although none failed. "Out-of-order completions can't leave the
  target on a stale value" (`latest-wins.ts:4-5`) is true of one queue, which is what
  `LastSetLands` says.
* A value clicked again while its set is in flight and fails is not sent again
  (`latest-wins.ts:21`), and a read that begins after a click but runs before its set
  is stored (`LastSetLands` leaves both out).
* `ExecSocket.RequestsSettle` is violated: the fetch of the token has no timer
  (`exec.ts:81`), and the caller's signal counts only once the socket is open
  (`exec.ts:180`). A server that takes the request and does not answer, or other tabs
  that hold every connection, leave all requests pending, against "a hung connection
  must not stall every request behind it" (`exec.ts:113-114`). `OnlyRefreshStalls`
  shows that nothing else does.
* A gateway opened with `heartbeat: false` (`transport.ts:823`) does not notice a
  connection that died; and on a live one a gateway that never answers leaves an
  `exec` pending. `CallsSettle` leaves out an `exec` without the heartbeat, and one
  that has reached a gateway whose link stays up (`LeftToGateway`).
* `DisplaySettles` leaves out a poll that is overtaken between its check and its
  post (`FrameDisplayMonitor.swift:82-85`): nothing asks again.
* `EncoderFollows` leaves out a mode set with a size the stream has left: its
  bounds stay until the next resize (`main.swift:178`). So neither it nor
  `RateInBounds`, which is about the bounds in force, would notice that case.
* An `exec` made on a closed gateway never settles (`transport.ts:395-414`), and the
  comment "pong (or any message)" (`transport.ts:841`) is narrower in the code: only
  a pong clears the timeout.
* `exec.ts:139-149`: both the error and the close event of a socket run `onDown`, so
  the second may clear the promise of a newer connection.
* `stop()` clicked twice hands a finished recording over twice
  (`use-screen-recording.ts:362-380`).
* A start's port can be taken between `killPortHolder` and its child by a helper that a
  crashed start of another device left behind before it had bound (`HelperLifecycle`,
  `Robbed`). `waitForHelperReady` (`index.ts:564-635`) asks `/health` of whatever
  answers, and an old helper of the device that is on its way out may have logged that
  capture started: `follow` then records a child that dies because its port is taken.
* Two starts that probe the same port free kill each other's listener
  (`index.ts:745`); `helper_lifecycle` states what holds for sequential commands,
  and what the next start repairs. A follower that clears a file in the middle of
  another start (`index.ts:944`) and a kill between a start's write and its second look
  (`index.ts:1044`) are steps of the model, but its properties are about starts and
  commands that nothing overlaps.

## 7. What is not modelled

* Pixels, bitstreams, envelopes and colour metadata; a colour change rebuilds a
  session like a resize does.
* The quantiser, which moves with the bitrate's rule, and frame statistics.
* MJPEG viewers, and on the helper's side the JPEG seed's picture. A seed is a
  chunk of the send queue; an MJPEG viewer only adds captures, so the liveness results are
  for a helper without one.
* Timers are "eventually" or "at any time": the 200 ms debounce may drop any
  request of a decoder reset, the watchdog's retry comes in the end.
* In `AvccViewer`: recording (`onEncoded`), composition metadata, frame
  timing and statistics; the caller's fallback to MJPEG after decoder errors; a
  response that is not `ok`; what the demuxer parses once a chunk of two
  connections is full.
* `H264Pump.reset()` has no caller.
* `HelperLifecycle`: the process `exit` handler of follow, attach-only starts, and
  commands over several devices, which repeat the steps of one. The list of booted
  simulators is current or missing; one that is older than a boot but younger than
  its second of caching is modelled in `PreviewConnection` only.
* `SimulatorSettings`: writers outside the page, that is the CLI, the simulator's
  Settings app and other tabs; options other than the appearance, which have the
  panel as their only writer.
* `CameraFrames`: rendering, the control socket and the swizzled capture classes.
* Touch events of the helper's own WebSocket, HID injection, accessibility, Metal
  rendering: calls into frameworks that are not in the repository, with little
  state of their own.
* The HTTP server, its routes and encodings; a client that is counted although its
  response header could not be written is up to the vendored library.
* Routing, request bodies, the helper proxy and log subscriptions of the preview
  server; permissions, status bar and other wrappers around one `simctl` command.
* The larger part of the page: layout, animation, panels, dialogs, icons, the
  device list and the wall of simulators. It is React code whose state is what it
  renders; together with tests, scripts, the design previews and the promo film it
  is most of the repository's lines, and a model of it would say nothing its code
  does not.

## 8. The plan

In order of weight; each line is a module, its runs and its theorems.

1. *Done:* `AVCCSendQueue`, `AVCCClient`, `DecodableStream`, `H264Pump`,
   `KeyframeRecovery`, their runs, and the proofs about queue, client and pump.
2. *Done:* `FramePresenter` and `AvccViewer`.
3. *Done:* `HelperLifecycle`, and the parts of the helpers and of the page.
4. *Done:* the chain proof, with the refinement of `DecodableStream`.
5. *Done:* the invariants of `HelperLifecycle` and of the parts.
6. *Done:* `NothingOutlivesReconnect` and `VideoInOrder` for any number of frames,
   faults and connections.
7. The recovery proof: `DecoderMatchesSession` for depth 1 and any number of
   sessions; the pump as a refinement of the contract `KeyframeRecovery` uses.
8. The helper proxy and the log subscriptions, if they grow state.
