--------------------------- MODULE MotionSession ---------------------------
(***************************************************************************)
(* motionSession of device-motion.ts: one native helper of a simulator,    *)
(* spoken to one request at a time over its standard input.  Angles are    *)
(* latest-wins behind the writer, commands (touches, keys, orientations)   *)
(* loop until nobody writes or reads, reads of the state share one request.*)
(* Every piece of an async function between two awaits is an action.       *)
(***************************************************************************)
EXTENDS Naturals

CONSTANTS Commands,   \* calls of setOrientation, sendTouch, sendKey, sendConsumer
          Statuses,   \* calls of status
          MaxAngles,  \* bound: calls of setAngle; an angle is its place among them
          Nobody

VARIABLES
  inFlight,   \* pending: what the outstanding request is for, or Nobody
  writer,     \* writing: [for, angle, phase], or Nobody
  queued,     \* the angle waiting for the writer to finish, or 0
  reader,     \* reading and readingDone: "none", "sent" or "replied"
  command,    \* call -> "idle", "looping", "running", "over"
  status,     \* call -> "idle", "looping", "reading", "over"
  asked,      \* calls of setAngle so far
  angle,      \* the angle the simulator was last put at
  failed,     \* a request was refused by the helper, or the session failed
  closed,     \* the session failed: timeout, exit, invalid reply, dispose
  overlapped  \* a request was refused as "already in flight"

mvars == <<inFlight, writer, queued, reader, command, status, asked, angle,
           failed, closed, overlapped>>

MotionInit ==
  /\ inFlight = Nobody /\ writer = Nobody /\ queued = 0 /\ reader = "none"
  /\ command = [c \in Commands |-> "idle"] /\ status = [s \in Statuses |-> "idle"]
  /\ asked = 0 /\ angle = 0
  /\ failed = FALSE /\ closed = FALSE /\ overlapped = FALSE

\* request(): refused once the session failed, or behind another request.
Request(what) ==
  /\ inFlight' = IF closed \/ inFlight # Nobody THEN inFlight ELSE what
  /\ overlapped' = (overlapped \/ (~closed /\ inFlight # Nobody))
  /\ failed' = (failed \/ closed \/ inFlight # Nobody)
Sent == ~closed /\ inFlight = Nobody

AngleWriter(n) == [for |-> "angle", angle |-> n, phase |-> "waits"]

\* setAngle: writes when nobody does, else takes the place in the queue.
SetAngle ==
  /\ asked < MaxAngles /\ asked' = asked + 1
  /\ IF writer = Nobody THEN writer' = AngleWriter(asked') /\ UNCHANGED queued
                      ELSE queued' = asked' /\ UNCHANGED writer
  /\ UNCHANGED <<inFlight, reader, command, status, angle, failed, closed, overlapped>>

\* writeAngle goes on once the read under way when it began is done.
AngleSends ==
  /\ writer # Nobody /\ writer.phase = "waits" /\ reader = "none"
  /\ Request("angle")
  /\ writer' = [writer EXCEPT !.phase = IF Sent THEN "sent" ELSE "refused"]
  /\ UNCHANGED <<queued, reader, command, status, asked, angle, closed>>

CommandAsked(c) ==
  /\ command[c] = "idle" /\ command' = [command EXCEPT ![c] = "looping"]
  /\ UNCHANGED <<inFlight, writer, queued, reader, status, asked, angle, failed, closed, overlapped>>

\* Nobody writes or reads: what a command waits for.
Quiet == writer = Nobody /\ reader = "none"

\* writeCommand leaves its loop and sends.
CommandSends(c) ==
  /\ command[c] = "looping" /\ Quiet
  /\ Request("command")
  /\ writer' = [for |-> c, angle |-> 0, phase |-> IF Sent THEN "sent" ELSE "refused"]
  /\ command' = [command EXCEPT ![c] = "running"]
  /\ UNCHANGED <<queued, reader, status, asked, angle, closed>>

\* status, called or resumed: joins a read under way, waits for a writer, or reads.
StatusGoesOn(s) ==
  /\ \/ status[s] = "idle"
     \/ status[s] = "looping" /\ (reader # "none" \/ writer = Nobody)
  /\ \/ /\ reader # "none"
        /\ status' = [status EXCEPT ![s] = "reading"]
        /\ UNCHANGED <<inFlight, reader, failed, overlapped>>
     \/ /\ reader = "none" /\ writer # Nobody
        /\ status' = [status EXCEPT ![s] = "looping"]
        /\ UNCHANGED <<inFlight, reader, failed, overlapped>>
     \/ /\ reader = "none" /\ writer = Nobody
        /\ Request("status")
        /\ reader' = IF Sent THEN "sent" ELSE "replied"
        /\ status' = [status EXCEPT ![s] = "reading"]
  /\ UNCHANGED <<writer, queued, command, asked, angle, closed>>

\* A reply with the outstanding request's id: done, or refused by the helper.
Reply(ok) ==
  /\ inFlight # Nobody /\ inFlight' = Nobody
  /\ failed' = (failed \/ ~ok)
  /\ IF inFlight = "status"
     THEN reader' = "replied" /\ UNCHANGED <<writer, angle>>
     ELSE /\ writer' = [writer EXCEPT !.phase = IF ok THEN "replied" ELSE "refused"]
          /\ angle' = IF ok /\ inFlight = "angle" THEN writer.angle ELSE angle
          /\ UNCHANGED reader
  /\ UNCHANGED <<queued, command, status, asked, closed, overlapped>>

\* fail(): the five seconds are over, the helper exited or was disposed of; the
\* queued angle is refused with the request that waits.
SessionFails ==
  /\ ~closed /\ closed' = TRUE /\ failed' = TRUE /\ inFlight' = Nobody
  /\ writer' = IF writer # Nobody /\ writer.phase = "sent"
               THEN [writer EXCEPT !.phase = "refused"] ELSE writer
  /\ reader' = IF reader = "sent" THEN "replied" ELSE reader
  /\ queued' = 0
  /\ UNCHANGED <<command, status, asked, angle, overlapped>>

\* Mutant: a command that ends leaves the queued angle where it is.
NextWriterAngle == IF queued = 0 \/ writer.for # "angle" THEN Nobody ELSE AngleWriter(queued)

\* What the writer's end starts: the queued angle.
NextWriter == IF queued = 0 THEN Nobody ELSE AngleWriter(queued)

\* The writer's finally: the queued angle is next.  A state read that waited
\* for a writer which failed fails with it.
WriterDone ==
  /\ writer # Nobody /\ writer.phase \in {"replied", "refused"}
  /\ writer' = NextWriter
  /\ queued' = IF NextWriter = Nobody THEN queued ELSE 0
  /\ command' = [c \in Commands |-> IF writer.for = c THEN "over" ELSE command[c]]
  /\ \/ UNCHANGED status
     \/ /\ writer.phase = "refused"
        /\ status' = [s \in Statuses |-> IF status[s] = "looping" THEN "over" ELSE status[s]]
  /\ UNCHANGED <<inFlight, reader, asked, angle, failed, closed, overlapped>>

\* The read's own continuation clears reading and readingDone.
ReaderDone ==
  /\ reader = "replied" /\ reader' = "none"
  /\ status' = [s \in Statuses |-> IF status[s] = "reading" THEN "over" ELSE status[s]]
  /\ UNCHANGED <<inFlight, writer, queued, command, asked, angle, failed, closed, overlapped>>

MotionNext ==
  \/ SetAngle \/ AngleSends \/ SessionFails \/ WriterDone \/ ReaderDone
  \/ \E c \in Commands : CommandAsked(c) \/ CommandSends(c)
  \/ \E s \in Statuses : StatusGoesOn(s)
  \/ \E ok \in BOOLEAN : Reply(ok)

MotionSpec == MotionInit /\ [][MotionNext]_mvars

-----------------------------------------------------------------------------
\* Types of the variables.
MotionTypeOK ==
  /\ inFlight \in {Nobody, "angle", "command", "status"}
  /\ writer \in {Nobody} \cup
       [for : {"angle"} \cup Commands, angle : 0..MaxAngles,
        phase : {"waits", "sent", "replied", "refused"}]
  /\ queued \in 0..MaxAngles /\ asked \in 0..MaxAngles /\ angle \in 0..MaxAngles
  /\ reader \in {"none", "sent", "replied"}
  /\ command \in [Commands -> {"idle", "looping", "running", "over"}]
  /\ status \in [Statuses -> {"idle", "looping", "reading", "over"}]
  /\ failed \in BOOLEAN /\ closed \in BOOLEAN /\ overlapped \in BOOLEAN

(***************************************************************************)
(* The helper has one request at a time: the check of request() for one    *)
(* already in flight never refuses a call, whatever writers, readers and   *)
(* queued angles resume in whatever order (device-motion.ts:176-255).      *)
(***************************************************************************)
NeverOverlaps == ~overlapped

(***************************************************************************)
(* No angle is lost: when nobody writes, the simulator is at the last      *)
(* angle asked for, unless the helper refused something or failed.         *)
(***************************************************************************)
LatestAngleLands == writer = Nobody /\ ~failed => queued = 0 /\ angle = asked
=============================================================================
