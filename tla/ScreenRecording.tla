-------------------------- MODULE ScreenRecording --------------------------
(***************************************************************************)
(* Screen recording in the browser: the hook that the dock, the toolbar    *)
(* pill and the command palette share (use-screen-recording.ts) and its    *)
(* two recorders.  "native" remuxes the helper's H.264 packets             *)
(* (native-stream-recorder.ts); "canvas" re-encodes a painted canvas with  *)
(* a MediaRecorder (screen-recorder.ts).  Every step is one task of the    *)
(* event loop, with the microtasks it runs to the end.                     *)
(***************************************************************************)
EXTENDS Naturals, Sequences

CONSTANTS MaxRecorders,  \* recorders created
          MaxSequence,   \* pictures the source emits or loses
          MaxSession,    \* encoder sessions
          Descriptions   \* the bytes of their descriptions (a restarted encoder may repeat them), not None

None == 0
Recorders == 1 .. MaxRecorders

VARIABLES
    source,     \* the encoded stream: session, whether a picture of it has been encoded,
                \* number of the last picture, the description the view keeps
    hook,       \* the state and refs of useScreenRecording
    load,       \* the start that waits for the native module, "awaited" until a newer revision
    loaded,     \* the native module has been loaded
    rec         \* the recorders

vars == <<source, hook, load, loaded, rec>>

Unused == [kind |-> "canvas", state |-> "none", description |-> None, pending |-> <<>>, written |-> <<>>]
Busy == {"recording", "stopping", "finalizing"}

Init ==
    /\ source = [session |-> None, begun |-> FALSE, sequence |-> 0, description |-> None]
    /\ hook = [phase |-> "idle", recorder |-> None, starting |-> FALSE,
               mounted |-> TRUE, streaming |-> TRUE]
    /\ load = "none"
    /\ loaded \in BOOLEAN   \* the page loads it ahead of the first start, when idle
    /\ rec = [r \in Recorders |-> Unused]

-----------------------------------------------------------------------------
\* Recorders.  A subscription to the source lasts as long as the state is "recording".

\* Mutant: the pictures it waited to write are kept.
ReleasedHolding(r, state) == [rec[r] EXCEPT !.state = state]

\* fail and cancel release everything a recorder holds.
Released(r, state) == [Unused EXCEPT !.kind = rec[r].kind, !.state = state]
Cancelled(r) == IF r = None THEN rec ELSE [rec EXCEPT ![r] = Released(r, "cancelled")]

\* Mutant: the error is reported, the phase stays.
HookAfterErrorSilent(r) ==
    IF hook.mounted /\ hook.recorder = r THEN [hook EXCEPT !.recorder = None] ELSE hook

\* fail, with the hook's onError: only the recorder it holds brings it back to idle.
HookAfterError(r) ==
    IF hook.mounted /\ hook.recorder = r THEN [hook EXCEPT !.recorder = None, !.phase = "idle"] ELSE hook
Fail(r) ==
    /\ rec' = [rec EXCEPT ![r] = Released(r, "error")]
    /\ hook' = HookAfterError(r)

\* Mutant: a missing reference picture goes unnoticed.
AcceptedAfterGap(x, key) == x.pending = <<>> /\ key => x.description # None

\* receive: a first keyframe needs a description; later pictures are consecutive, or
\* keyframes.  A picture is written when its successor tells how long it lasted.
Accepted(x, key) ==
    IF x.pending = <<>> THEN key => x.description # None
    ELSE key \/ source.sequence + 1 = x.pending[1].sequence + 1
Received(x, key) ==
    IF x.pending = <<>> /\ ~key THEN x
    ELSE [x EXCEPT !.written = @ \o x.pending,
                   !.pending = <<[key |-> key, sequence |-> source.sequence + 1,
                                  session |-> source.session,
                                  description |-> source.description]>>]

Natives == {r \in Recorders : rec[r].kind = "native" /\ rec[r].state = "recording"}

-----------------------------------------------------------------------------
\* The source, as onEncoded reports it.

\* The encoder describes a new session; other bytes than before end the recording.
Description(bytes) ==
    /\ source.session < MaxSession
    /\ source' = [source EXCEPT !.session = @ + 1, !.begun = FALSE, !.description = bytes]
    /\ IF \E r \in Natives : rec[r].description \notin {None, bytes}
       THEN \E r \in Natives : Fail(r)
       ELSE /\ rec' = [r \in Recorders |->
                         IF r \in Natives THEN [rec[r] EXCEPT !.description = bytes] ELSE rec[r]]
            /\ UNCHANGED hook
    /\ UNCHANGED <<load, loaded>>

\* A picture, the first of a session a keyframe.  One whose timing is invalid or not
\* increasing fails the recording like one that does not follow its predecessor.
Picture(key, inTime) ==
    /\ source.session # None /\ source.sequence < MaxSequence
    /\ source.begun \/ key
    /\ source' = [source EXCEPT !.sequence = @ + 1, !.begun = TRUE]
    /\ IF \E r \in Natives : ~inTime \/ ~Accepted(rec[r], key)
       THEN \E r \in Natives : Fail(r)
       ELSE /\ rec' = [r \in Recorders |-> IF r \in Natives THEN Received(rec[r], key) ELSE rec[r]]
            /\ UNCHANGED hook
    /\ UNCHANGED <<load, loaded>>

\* The encoder, the send queue or the decoder of the page drops a picture.
PictureLost ==
    /\ source.session # None /\ source.sequence < MaxSequence
    /\ source' = [source EXCEPT !.sequence = @ + 1, !.begun = TRUE]
    /\ UNCHANGED <<hook, load, loaded, rec>>

\* The stream disconnects (an error event), or a write or the canvas fails.
RecorderFails(r) ==
    /\ rec[r].state \in Busy
    /\ Fail(r)
    /\ UNCHANGED <<source, load, loaded>>

-----------------------------------------------------------------------------
\* The hook.

\* A new revision: the start that waits for its module is no longer the current one.
Outdated == IF load = "awaited" THEN "abandoned" ELSE load

CancelCurrent ==
    /\ hook' = [hook EXCEPT !.starting = FALSE, !.recorder = None, !.phase = "idle"]
    /\ rec' = Cancelled(hook.recorder)

Free == {r \in Recorders : rec[r].state = "none"}
Fresh == CHOOSE r \in Free : \A q \in Free : r <= q

\* A recorder is made and started; it may throw, or find that the stream has ended, and the
\* hook is idle again.  A native one is handed the description that the view has kept.
Started(kind) ==
    \/ /\ hook.streaming
       /\ rec' = [Cancelled(hook.recorder) EXCEPT ![Fresh] =
                    [Unused EXCEPT !.kind = kind, !.state = "recording",
                                   !.description = IF kind = "native" THEN source.description ELSE None]]
       /\ hook' = [hook EXCEPT !.starting = FALSE, !.recorder = Fresh, !.phase = "recording"]
    \/ /\ rec' = [Cancelled(hook.recorder) EXCEPT ![Fresh] = Released(Fresh, "cancelled")]
       /\ hook' = [hook EXCEPT !.starting = FALSE, !.recorder = None, !.phase = "idle"]

\* start, up to the import of the native module when it has not been loaded yet.  The
\* recorder of an earlier recording is cancelled, but kept in the ref.
Start(kind) ==
    /\ hook.mounted /\ hook.streaming /\ ~hook.starting /\ hook.phase = "idle" /\ Free # {}
    /\ IF kind = "canvas" \/ loaded
       THEN Started(kind) /\ UNCHANGED load
       ELSE /\ rec' = Cancelled(hook.recorder)
            /\ hook' = [hook EXCEPT !.starting = TRUE, !.phase = "starting"]
            /\ load' = "awaited"
    /\ UNCHANGED <<source, loaded>>

\* The import is done: unless the start was cancelled or the view's source replaced.
LoadReturns ==
    /\ load # "none"
    /\ load' = "none" /\ loaded' = TRUE
    /\ \/ load = "awaited" /\ Free # {} /\ Started("native")
       \/ load = "awaited" /\ CancelCurrent
       \/ load = "abandoned" /\ UNCHANGED <<hook, rec>>
    /\ UNCHANGED <<source>>

LoadFails ==
    /\ load # "none"
    /\ load' = "none"
    /\ IF load = "awaited"
       THEN hook' = [hook EXCEPT !.recorder = None, !.phase = "idle", !.starting = FALSE]
       ELSE UNCHANGED hook
    /\ UNCHANGED <<source, loaded, rec>>

\* stop, of the pill, the dock or the palette: it looks at the recorder in the ref, never at
\* the phase.  The first call ends the recording; a later one shares its promise, and one
\* after the end shows the same file again: neither changes anything here.  A native recorder
\* without a picture fails.  While a start waits for its module, the ref may still hold the
\* recorder of the recording before, cancelled; one that had finished answers once more.
Stop ==
    LET r == hook.recorder
        x == rec[r]
    IN  /\ hook.mounted
        /\ \/ /\ r = None /\ hook.starting
              /\ CancelCurrent /\ load' = Outdated
           \/ /\ r # None /\ x.kind = "native" /\ x.state = "recording" /\ x.pending = <<>>
              /\ Fail(r)
              /\ UNCHANGED load
           \/ /\ r # None /\ x.state = "recording" /\ (x.kind = "native" => x.pending # <<>>)
              /\ rec' = [rec EXCEPT ![r].state = "stopping", ![r].written = @ \o x.pending,
                                    ![r].pending = <<>>]
              /\ hook' = [hook EXCEPT !.phase = "stopping"]
              /\ UNCHANGED load
           \/ /\ r # None /\ x.state = "cancelled"
              /\ \E kept \in {None, r} : hook' = [hook EXCEPT !.recorder = kept, !.phase = "idle"]
              /\ UNCHANGED <<load, rec>>
    /\ UNCHANGED <<source, loaded>>

\* The writes of a native recorder have settled, and its muxer has then finalized the
\* file; or the MediaRecorder has stopped.
Finalize(r) ==
    /\ rec[r].state = "stopping" /\ rec[r].kind = "native"
    /\ rec' = [rec EXCEPT ![r].state = "finalizing"]
    /\ UNCHANGED <<source, hook, load, loaded>>

Finish(r) ==
    /\ rec[r].state = IF rec[r].kind = "native" THEN "finalizing" ELSE "stopping"
    /\ rec' = [rec EXCEPT ![r].state = "finished"]
    /\ hook' = IF hook.mounted /\ hook.recorder = r THEN [hook EXCEPT !.phase = "idle"] ELSE hook
    /\ UNCHANGED <<source, load, loaded>>

\* The stream of the simulator ends: what is under way is cancelled.
StreamEnds ==
    /\ hook.mounted /\ hook.streaming
    /\ IF hook.phase = "idle"
       THEN hook' = [hook EXCEPT !.streaming = FALSE] /\ UNCHANGED <<load, rec>>
       ELSE /\ hook' = [hook EXCEPT !.streaming = FALSE, !.starting = FALSE,
                                    !.recorder = None, !.phase = "idle"]
            /\ rec' = Cancelled(hook.recorder)
            /\ load' = Outdated
    /\ UNCHANGED <<source, loaded>>

StreamStarts ==
    /\ ~hook.streaming
    /\ hook' = [hook EXCEPT !.streaming = TRUE]
    /\ UNCHANGED <<source, load, loaded, rec>>

\* Another simulator is selected, whose stream is not described yet, or the page is hidden.
DeviceChanges ==
    /\ hook.mounted
    /\ CancelCurrent /\ load' = Outdated
    /\ source' \in {source, [source EXCEPT !.description = None]}
    /\ UNCHANGED loaded

Unmount ==
    /\ hook.mounted
    /\ hook' = [hook EXCEPT !.mounted = FALSE, !.starting = FALSE, !.recorder = None]
    /\ rec' = Cancelled(hook.recorder)
    /\ load' = Outdated
    /\ UNCHANGED <<source, loaded>>

Settles == \E r \in Recorders : Finalize(r) \/ Finish(r)

Next ==
    \/ PictureLost \/ \E bytes \in Descriptions : Description(bytes)
    \/ \E key, inTime \in BOOLEAN : Picture(key, inTime)
    \/ \E r \in Recorders : RecorderFails(r)
    \/ \E kind \in {"native", "canvas"} : Start(kind)
    \/ LoadReturns \/ LoadFails \/ Stop \/ Settles
    \/ StreamEnds \/ StreamStarts \/ DeviceChanges \/ Unmount

\* The muxer, the MediaRecorder and the import answer.
Fairness == WF_vars(Settles) /\ WF_vars(LoadReturns \/ LoadFails)

Spec == Init /\ [][Next]_vars /\ Fairness

-----------------------------------------------------------------------------
Pictures == [key : BOOLEAN, sequence : 1 .. MaxSequence, session : 1 .. MaxSession,
             description : Descriptions]

\* Every variable has its type, and a recorder that ended has let go of the picture it held.
TypeOK ==
    /\ source \in [session : 0 .. MaxSession, begun : BOOLEAN, sequence : 0 .. MaxSequence,
                   description : Descriptions \cup {None}]
    /\ hook \in [phase : {"idle", "starting", "recording", "stopping"}, recorder : {None} \cup Recorders,
                 starting : BOOLEAN, mounted : BOOLEAN, streaming : BOOLEAN]
    /\ load \in {"none", "awaited", "abandoned"} /\ loaded \in BOOLEAN
    /\ load = "awaited" => hook.starting
    /\ \A r \in Recorders :
          /\ rec[r].kind \in {"native", "canvas"}
          /\ rec[r].state \in Busy \cup {"none", "finished", "error", "cancelled"}
          /\ rec[r].pending \in Seq(Pictures) /\ rec[r].written \in Seq(Pictures)
          /\ rec[r].state \notin Busy => rec[r].pending = <<>>

\* A file that the native recorder exports plays: it starts with a keyframe, every other
\* picture follows its predecessor in the same encoder session or is a keyframe, and the
\* one description in its header is the one each picture was encoded under, whatever the
\* source loses and whenever the encoder restarts (NativeStreamRecorder.receive).
Plays(x) ==
    /\ x.written # <<>> /\ x.written[1].key
    /\ \A i \in DOMAIN x.written : x.written[i].description = x.description
    /\ \A i \in 2 .. Len(x.written) :
          \/ x.written[i].key
          \/ /\ x.written[i].sequence = x.written[i - 1].sequence + 1
             /\ x.written[i].session = x.written[i - 1].session
ExportsDecodable ==
    \A r \in Recorders : rec[r].kind = "native" /\ rec[r].state = "finished" => Plays(rec[r])

\* No recorder runs behind the page's back: one that still encodes is the one the hook
\* holds, so that stop reaches it, and the phase that the pill shows is the recorder's; an
\* unmounted page and another simulator leave none behind (start, stop, cancelCurrent).
OnlyCurrentRecords ==
    /\ \A r \in Recorders : rec[r].state \in Busy => hook.mounted /\ hook.recorder = r
    /\ hook.mounted =>
          /\ hook.phase = "recording" <=> hook.recorder # None /\ rec[hook.recorder].state = "recording"
          /\ hook.phase = "stopping" <=>
                hook.recorder # None /\ rec[hook.recorder].state \in Busy \ {"recording"}

\* "Finishing" ends: once the recorder is told to stop, the pill does not stay on it,
\* whichever of a result, an error, a cancellation or another device comes first.
StopEnds == []<>(hook.mounted => hook.phase # "stopping")
=============================================================================
