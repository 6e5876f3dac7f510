---------------------------- MODULE MCHelperParts ----------------------------
(***************************************************************************)
(* Five parts of the native helpers that share no state: the adaptive      *)
(* bitrate, the foldable's composition pump, its panel capture, its        *)
(* display monitor, and the camera's ring.  A behaviour runs one of them,  *)
(* chosen at the start, and the others rest: their product would show      *)
(* nothing more.                                                           *)
(***************************************************************************)
EXTENDS AdaptiveControl

CONSTANTS Callers, MaxRevision,                         \* DuoFramePump
          Ring, MaxSeq, MaxHeld, Sources, Readers, LateFrames,   \* CameraFrames
          Panels, MaxSeed, MaxTurns,                    \* PanelCapture
          First, MaxChanges                             \* DisplayMonitor, of the same Panels

VARIABLES
    part,
    panels, seeded, grace, moving, revision, running, stopped, caller, drain, taken, composed,
    camera, writer, video, pixels, write, latest, seq, shared, reader, seen, held,
    seed, callbacks, demand, turns, cap,
    active, main, changes, printed, pipe, alive, ambiguous, primary, previous, streamed,
    poll, overtaken, found, observed

ASSUME HelperAssumption ==
    /\ Ring \in Nat \ {0} /\ MaxSeq \in Nat
    /\ Sources \subseteq {"placeholder", "webcam", "image", "video"}
    /\ Readers \subseteq {"pump", "photo"}
    /\ MaxSeed \in Nat /\ MaxTurns \in Nat
    /\ First \in Panels /\ MaxChanges \in Nat

duo == <<panels, seeded, grace, moving, revision, running, stopped, caller, drain, taken, composed>>
ring == <<camera, writer, video, pixels, write, latest, seq, shared, reader, seen, held>>
capture == <<seed, callbacks, demand, turns, cap>>
monitor == <<active, main, changes, printed, pipe, alive, ambiguous, primary, previous, streamed,
             poll, overtaken, found, observed>>

Duo == INSTANCE DuoFramePump
Camera == INSTANCE CameraFrames WITH active <- camera
Capture == INSTANCE PanelCapture
Monitor == INSTANCE DisplayMonitor

\* The rate of the lighter mode is the size, that of the heavier one twice as much.
MCLeast(m) == IF m = "perf" THEN 1 ELSE 3
MCMost(m, s) == IF m = "perf" THEN s ELSE 2 * s

-----------------------------------------------------------------------------
PartsInit ==
    /\ part \in {"adaptive", "duo", "camera", "capture", "monitor"}
    /\ Init /\ Duo!Init /\ Camera!Init /\ Capture!CaptureInit /\ Monitor!MonitorInit
    \* What rests, rests in one state.
    /\ part # "adaptive" => mode = "perf" /\ \A s \in Sizes : size <= s
    /\ part # "monitor" => alive

Adapts ==
    /\ part = "adaptive" /\ Next
    /\ UNCHANGED <<part, duo, ring, capture, monitor>>
Composes ==
    /\ part = "duo" /\ Duo!Next
    /\ UNCHANGED <<part, vars, ring, capture, monitor>>
Films ==
    /\ part = "camera" /\ Camera!Next
    /\ UNCHANGED <<part, vars, duo, capture, monitor>>
Captures ==
    /\ part = "capture" /\ Capture!CaptureNext
    /\ UNCHANGED <<part, vars, duo, ring, monitor>>
Monitors ==
    /\ part = "monitor" /\ Monitor!MonitorNext
    /\ UNCHANGED <<part, vars, duo, ring, capture>>

PartsNext == Adapts \/ Composes \/ Films \/ Captures \/ Monitors

\* The part that runs is scheduled as its module says.
PartsSpec ==
    /\ PartsInit /\ [][PartsNext]_<<part, vars, duo, ring, capture, monitor>>
    /\ \/ []<>(part = "adaptive") /\ Fairness
       \/ []<>(part = "duo") /\ Duo!Fairness
       \/ []<>(part = "camera")
       \/ []<>(part = "capture") /\ Capture!CaptureFairness
       \/ []<>(part = "monitor") /\ Monitor!MonitorFairness

-----------------------------------------------------------------------------
\* Every part's variables have their types.
PartsTypeOK ==
    /\ TypeOK /\ Duo!TypeOK /\ Camera!TypeOK /\ Capture!CaptureTypeOK /\ Monitor!MonitorTypeOK

\* The pump never forgets a panel or a view update that waits (DuoFramePump.swift:100-147).
PendingIsSeen == Duo!PendingIsSeen

\* ... and composes the newest in the end.
NewestComposed == Duo!NewestComposed

\* What the app's pump holds of the camera's ring is a whole frame, as long as one thread
\* writes (SimCameraHelper/main.m:74-114).
StreamedWhole == Camera!StreamedWhole

\* A viewer who stays sees the panels' last pictures (FrameCapture.swift:322-392).
PanelsCatchUp == Capture!PanelsCatchUp

\* Capture ends on the panel in use once the runtime rests (FrameDisplayMonitor.swift:43-148).
DisplaySettles == part = "monitor" => Monitor!DisplaySettles
=============================================================================
