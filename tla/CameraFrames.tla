---------------------------- MODULE CameraFrames ----------------------------
(***************************************************************************)
(* The simulated camera: the host helper's sources write frames into a     *)
(* ring of shared surfaces (SimCameraHelper/main.m, PublishFrame and the   *)
(* sources), and the library in the simulated app wraps the newest one     *)
(* without a lock (SimCamFrameSource.m): its pump, which checks that no     *)
(* frame was published meanwhile, and its photos, which do not.  A source  *)
(* is stopped without waiting for a frame it is about to publish, so two   *)
(* threads may write.                                                      *)
(***************************************************************************)
EXTENDS Naturals, FiniteSets

CONSTANTS Ring,      \* surfaces
          MaxSeq,    \* frames published
          MaxHeld,   \* surfaces that the app holds
          Sources,   \* of "placeholder", "webcam", "image", "video"
          Readers,   \* of "pump", its ticks, and "photo", a photo or snapshot, which
                     \* forces a frame
          LateFrames \* a frame may be under way while another source publishes

Slots == 0 .. Ring - 1
\* What publishes: the switch itself (an image, the first placeholder frame), the
\* placeholder's timer, the webcam's queue and the video loop.
Writers == {"switch", "timer", "webcam", "video"}
Live == {"timer", "webcam", "video"}
SourceOf == [timer |-> "placeholder", webcam |-> "webcam", video |-> "video"]
Nothing == [by |-> "nothing", number |-> 0]

VARIABLES
    active,   \* gActiveSource
    writer,   \* for each writer: where it is in PublishFrame, what it read and picked
    video,    \* the video loop: "off", "on" or "cancelled" (gVideoCancelled)
    pixels,   \* what each surface shows: a frame, or Nothing while it is written
    write,    \* gWriteIndex
    latest,   \* latestIndex
    seq,      \* gFrameSeq
    shared,   \* frameSeq, in the shared memory
    reader,   \* for each reader: where it is, what it read
    seen,     \* gLastSeenSeq
    held      \* the surfaces in use: the slot and the frame that each buffer was
              \* wrapped for, and by whom

vars == <<active, writer, video, pixels, write, latest, seq, shared, reader, seen, held>>

NotReading == [at |-> "away", seq |-> 0, slot |-> 0]
Away == [at |-> "away", latest |-> 0, slot |-> 0, seq |-> 0]

Init ==
    /\ active = "none"
    /\ writer = [w \in Writers |-> Away]
    /\ video = "off"
    /\ pixels = [s \in Slots |-> Nothing]
    /\ write = 0 /\ latest = 0 /\ seq = 0 /\ shared = 0
    /\ reader = [r \in Readers |-> NotReading] /\ seen = 0
    /\ held = {}

ring == <<pixels, write, latest, seq, shared>>
app == <<reader, seen, held>>

-----------------------------------------------------------------------------
\* PublishFrame.

Publishing == {w \in Writers : writer[w].at # "away"}
InUse == {b.slot : b \in held} \cup {reader[r].slot : r \in {q \in Readers : reader[q].at = "check"}}

Begin(w) ==
    /\ writer[w].at = "away" /\ seq + Cardinality(Publishing) < MaxSeq
    /\ Publishing = {} \/ LateFrames
    /\ writer' = [writer EXCEPT ![w] = [Away EXCEPT !.at = "pick", !.latest = latest]]

\* Mutant: the index runs one past the last surface.
CandidatesPastEnd(w) == (1 .. Ring) \ ({writer[w].latest} \cup InUse)

\* The slots after the last written one, without the published one and those in use.
Candidates(w) == Slots \ ({writer[w].latest} \cup InUse)
Distance(s) == (s + 2 * Ring - write - 1) % Ring
Nearest(S) == CHOOSE s \in S : \A t \in S : Distance(s) <= Distance(t)

\* Without one the frame is dropped.
Pick(w) ==
    /\ writer[w].at = "pick"
    /\ IF Candidates(w) = {}
       THEN writer' = [writer EXCEPT ![w] = Away] /\ UNCHANGED <<write, pixels>>
       ELSE LET s == Nearest(Candidates(w))
            IN  /\ writer' = [writer EXCEPT ![w].at = "copy", ![w].slot = s]
                /\ write' = s
                /\ pixels' = [pixels EXCEPT ![s] = Nothing]
    /\ UNCHANGED <<active, video, latest, seq, shared, app>>

Copied(w) ==
    /\ writer[w].at = "copy"
    /\ pixels' = [pixels EXCEPT ![writer[w].slot] = [by |-> w, number |-> seq + 1]]
    /\ writer' = [writer EXCEPT ![w].at = "point"]
    /\ UNCHANGED <<active, video, write, latest, seq, shared, app>>

Point(w) ==
    /\ writer[w].at = "point"
    /\ latest' = writer[w].slot
    /\ writer' = [writer EXCEPT ![w].at = "store", ![w].seq = seq + 1]
    /\ seq' = seq + 1
    /\ UNCHANGED <<active, video, pixels, write, shared, app>>

Store(w) ==
    /\ writer[w].at = "store"
    /\ shared' = writer[w].seq
    /\ writer' = [writer EXCEPT ![w] = Away]
    /\ UNCHANGED <<active, video, pixels, write, latest, seq, app>>

-----------------------------------------------------------------------------
\* The sources.

\* The timer is armed, the session runs, or the loop is between two frames: the next one.
NextFrame(w) ==
    /\ w \in Live /\ active = SourceOf[w]
    /\ w = "video" => video = "on"
    /\ Begin(w)
    /\ UNCHANGED <<active, video, ring, app>>

\* The loop sees the cancellation, or it has nothing more to play.
VideoEnds ==
    /\ video # "off" /\ writer["video"].at = "away"
    /\ video' = "off"
    /\ UNCHANGED <<active, writer, ring, app>>

\* SwitchSource, on the source queue: what runs is stopped, the video loop with a wait of at
\* most a second, and another starts or fails to.  Nothing waits for the frame that a timer
\* or the session has begun, and a loop that outlasts its second is resumed by the next
\* video, which clears gVideoCancelled.
Switch(source) ==
    /\ writer["switch"].at = "away"
    /\ active' \in {source, "none"}
    /\ video' = IF active' = "video" THEN "on" ELSE IF active = "video" /\ video = "on" THEN "cancelled" ELSE video
    /\ IF active' \in {"placeholder", "image"}
       THEN Begin("switch")
       ELSE UNCHANGED writer
    /\ UNCHANGED <<ring, app>>

-----------------------------------------------------------------------------
\* newPixelBufferFromSurfaceForceFresh.

\* The pump takes a frame it has not seen yet, a photo any.
Sample(r) ==
    /\ reader[r].at = "away"
    /\ shared # 0 /\ (r = "pump" => shared # seen)
    /\ Cardinality(held) < MaxHeld
    /\ reader' = [reader EXCEPT ![r].at = "locate", ![r].seq = shared]
    /\ UNCHANGED <<active, writer, video, ring, seen, held>>

Locate(r) ==
    /\ reader[r].at = "locate"
    /\ reader' = [reader EXCEPT ![r].at = "wrap", ![r].slot = latest]
    /\ UNCHANGED <<active, writer, video, ring, seen, held>>

\* From here the surface is in use.
Wrap(r) ==
    /\ reader[r].at = "wrap"
    /\ reader' = [reader EXCEPT ![r].at = "check"]
    /\ UNCHANGED <<active, writer, video, ring, seen, held>>

\* Mutant: the sequence is not read a second time.
UnchangedSinceNever(r) == TRUE

\* The pump drops a frame when another one was published since.
UnchangedSince(r) == r = "photo" \/ shared = reader[r].seq
Check(r) ==
    /\ reader[r].at = "check"
    /\ reader' = [reader EXCEPT ![r] = NotReading]
    /\ IF UnchangedSince(r)
       THEN LET slot == reader[r].slot
            IN  /\ held' = held \cup {[slot |-> slot, frame |-> pixels[slot], by |-> r]}
                /\ seen' = reader[r].seq
       ELSE UNCHANGED <<seen, held>>
    /\ UNCHANGED <<active, writer, video, ring>>

\* The app lets a buffer go.
Release(b) ==
    /\ held' = held \ {b}
    /\ UNCHANGED <<active, writer, video, ring, reader, seen>>

Publish(w) == Pick(w) \/ Copied(w) \/ Point(w) \/ Store(w)
Next ==
    \/ \E w \in Writers : Publish(w) \/ NextFrame(w)
    \/ \E s \in Sources \cup {"none"} : Switch(s)
    \/ VideoEnds
    \/ \E r \in Readers : Sample(r) \/ Locate(r) \/ Wrap(r) \/ Check(r)
    \/ \E b \in held : Release(b)

Spec == Init /\ [][Next]_vars

-----------------------------------------------------------------------------
Frames == [by : Writers, number : 1 .. MaxSeq]

TypeOK ==
    /\ active \in {"none", "placeholder", "webcam", "image", "video"}
    /\ video \in {"off", "on", "cancelled"}
    /\ \A w \in Writers : writer[w].at \in {"away", "pick", "copy", "point", "store"}
    /\ pixels \in [Slots -> Frames \cup {Nothing}]
    /\ {write, latest} \subseteq Slots
    /\ seq \in 0 .. MaxSeq /\ shared \in 0 .. MaxSeq /\ seen \in 0 .. MaxSeq
    /\ \A b \in held : b \in [slot : Slots, frame : Frames \cup {Nothing}, by : Readers]

Whole(b) == b.frame # Nothing /\ pixels[b.slot] = b.frame

\* "an in-flight frame is never overwritten mid-read" (PublishFrame): what the pump holds is
\* a whole frame and stays the one it wrapped, although nothing is locked: by the choice of
\* the slot, and by the sequence that is read before and after.
StreamedWhole == \A b \in held : b.by = "pump" => Whole(b)

\* The same of everything the app holds.  It does not hold: a photo skips both comparisons
\* of the sequence (forceFresh, SimCamFrameSource.m:252, 271), and may wrap a surface that
\* is being written, also with one thread that writes.
HeldWhole == \A b \in held : Whole(b)
=============================================================================
