------------------------------ MODULE H264Pump ------------------------------
(***************************************************************************)
(* The single-slot mailbox between frame capture and the H.264 encoder     *)
(* (H264Pump.swift), with the two queues around it: the capture queue that *)
(* offers frames, the serial h264Queue that main.swift's submit closure    *)
(* dispatches to, and VideoToolbox, which completes frames on its own      *)
(* thread in the order it accepted them.                                   *)
(*                                                                         *)
(* offer and complete each end in drain, and drain releases the lock       *)
(* before it calls submit: two threads can be in drain at once.  Every     *)
(* critical section of the lock, and every submit, is one action.          *)
(***************************************************************************)
EXTENDS Integers, Sequences

CONSTANTS
    MaxInFlight,    \* h264InFlightDepth: frames inside the encoder at once
    MaxFrames       \* bound: frames the capture queue offers

ASSUME PumpAssumption ==
    /\ MaxInFlight \in Nat \ {0}
    /\ MaxFrames \in Nat

\* Who runs drain: the capture queue after offer, VideoToolbox's callback or
\* the h264Queue (a synchronous failure) after complete.
Thread == {"capture", "h264", "vt"}

\* A snapshot, numbered in the order of its offer, and its force flag.
Frame   == [id : Nat \ {0}, force : BOOLEAN]
NoFrame == [id |-> 0, force |-> FALSE]

VARIABLES
    offered,    \* frames offered so far; the newest frame's number
    pending,    \* H264Pump.pending
    inFlight,   \* H264Pump.inFlight
    at,         \* where each thread is: idle, completing, draining, submitting
    held,       \* the frame a thread claimed and has not submitted yet
    h264Queue,  \* blocks dispatched to h264Queue and not run
    encoder,    \* frames VideoToolbox accepted and has not called back for
    shown,      \* the last frame VideoToolbox emitted: the viewer's picture
    forceAsked, \* the newest frame offered with forceKeyframe
    forceGiven  \* the newest frame that reached encode with forceKeyframe

vars == <<offered, pending, inFlight, at, held, h264Queue, encoder, shown,
          forceAsked, forceGiven>>

Place == {"idle", "completing", "draining", "submitting"}

TypeOK ==
    /\ offered \in Nat
    /\ pending \in Frame \cup {NoFrame}
    /\ inFlight \in Nat
    /\ at \in [Thread -> Place]
    /\ held \in [Thread -> Frame \cup {NoFrame}]
    /\ h264Queue \in Seq(Frame)
    /\ encoder \in Seq(Frame)
    /\ shown \in Nat
    /\ forceAsked \in Nat
    /\ forceGiven \in Nat

Init ==
    /\ offered = 0
    /\ pending = NoFrame
    /\ inFlight = 0
    /\ at = [t \in Thread |-> "idle"]
    /\ held = [t \in Thread |-> NoFrame]
    /\ h264Queue = <<>>
    /\ encoder = <<>>
    /\ shown = 0
    /\ forceAsked = 0
    /\ forceGiven = 0

-----------------------------------------------------------------------------
(* offer, drain and complete.                                              *)

\* Mutant: a newer frame replaces the request of the one it supersedes.
ParkForgets(force) == [id |-> offered + 1, force |-> force]

\* The newest frame takes the slot and inherits a superseded request.
Park(force) == [id |-> offered + 1, force |-> force \/ pending.force]

Offer(force) ==
    /\ at["capture"] = "idle"
    /\ offered < MaxFrames
    /\ offered' = offered + 1
    /\ pending' = Park(force)
    /\ at' = [at EXCEPT !["capture"] = "draining"]
    /\ forceAsked' = IF force THEN offered + 1 ELSE forceAsked
    /\ UNCHANGED <<inFlight, held, h264Queue, encoder, shown, forceGiven>>

\* Mutant: one frame more than the depth is admitted.
CapacityOffByOne == inFlight <= MaxInFlight /\ pending # NoFrame

\* Mutant: the slot is taken without looking whether a frame is parked.
ClaimUnparked == inFlight < MaxInFlight

CanClaim == inFlight < MaxInFlight /\ pending # NoFrame

\* drain's critical section: take the parked frame and a slot.
Claim(t) ==
    /\ at[t] = "draining"
    /\ CanClaim
    /\ held' = [held EXCEPT ![t] = pending]
    /\ pending' = NoFrame
    /\ inFlight' = inFlight + 1
    /\ at' = [at EXCEPT ![t] = "submitting"]
    /\ UNCHANGED <<offered, h264Queue, encoder, shown, forceAsked, forceGiven>>

EndDrain(t) ==
    /\ at[t] = "draining"
    /\ ~CanClaim
    /\ at' = [at EXCEPT ![t] = "idle"]
    /\ UNCHANGED <<offered, pending, inFlight, held, h264Queue, encoder, shown,
                   forceAsked, forceGiven>>

\* submit, outside the lock: h264Queue.async; then drain loops.
Submit(t) ==
    /\ at[t] = "submitting"
    /\ h264Queue' = Append(h264Queue, held[t])
    /\ held' = [held EXCEPT ![t] = NoFrame]
    /\ at' = [at EXCEPT ![t] = "draining"]
    /\ UNCHANGED <<offered, pending, inFlight, encoder, shown, forceAsked,
                   forceGiven>>

\* Mutant: complete returns without looking for a parked frame.
CompleteOnly(t) ==
    /\ at[t] = "completing"
    /\ inFlight' = IF inFlight > 0 THEN inFlight - 1 ELSE inFlight
    /\ at' = [at EXCEPT ![t] = "idle"]
    /\ UNCHANGED <<offered, pending, held, h264Queue, encoder, shown,
                   forceAsked, forceGiven>>

Complete(t) ==
    /\ at[t] = "completing"
    /\ inFlight' = IF inFlight > 0 THEN inFlight - 1 ELSE inFlight
    /\ at' = [at EXCEPT ![t] = "draining"]
    /\ UNCHANGED <<offered, pending, held, h264Queue, encoder, shown,
                   forceAsked, forceGiven>>

-----------------------------------------------------------------------------
(* H264Encoder.encode on h264Queue, and VideoToolbox's callback.           *)

\* The next block of h264Queue runs.
RunEncode ==
    /\ at["h264"] = "idle"
    /\ h264Queue # <<>>
    /\ h264Queue' = Tail(h264Queue)
    /\ LET frame == Head(h264Queue) IN
       forceGiven' = IF frame.force /\ frame.id > forceGiven
                     THEN frame.id ELSE forceGiven
    /\ UNCHANGED <<offered, pending, inFlight, held, shown, forceAsked>>

\* VTCompressionSessionEncodeFrame accepts the frame.
Encode ==
    /\ RunEncode
    /\ encoder' = Append(encoder, Head(h264Queue))
    /\ UNCHANGED at

\* There is no session, or the submission fails: encode completes the frame
\* itself, on h264Queue.
EncodeFails ==
    /\ RunEncode
    /\ at' = [at EXCEPT !["h264"] = "completing"]
    /\ UNCHANGED encoder

\* The output handler: the frame is emitted, or swallowed (nil sample); the
\* completion is called last.
Output(emitted) ==
    /\ at["vt"] = "idle"
    /\ encoder # <<>>
    /\ encoder' = Tail(encoder)
    /\ shown' = IF emitted THEN Head(encoder).id ELSE shown
    /\ at' = [at EXCEPT !["vt"] = "completing"]
    /\ UNCHANGED <<offered, pending, inFlight, held, h264Queue, forceAsked,
                   forceGiven>>

Pump(t) == Claim(t) \/ EndDrain(t) \/ Submit(t) \/ Complete(t)

Next ==
    \/ \E force \in BOOLEAN : Offer(force)
    \/ \E t \in Thread : Pump(t)
    \/ Encode
    \/ EncodeFails
    \/ \E emitted \in BOOLEAN : Output(emitted)

Spec == Init /\ [][Next]_vars

\* Every queue runs its blocks and VideoToolbox calls back for every frame
\* it accepted.  Nothing makes it emit rather than swallow.
Fairness ==
    /\ \A t \in Thread : WF_vars(Pump(t))
    /\ WF_vars(Encode \/ EncodeFails)
    /\ WF_vars(\E emitted \in BOOLEAN : Output(emitted))

FairSpec == Spec /\ Fairness

-----------------------------------------------------------------------------
(* Properties.                                                             *)

InHands(t) == IF at[t] \in {"submitting", "completing"} THEN 1 ELSE 0

\* No slot leaks and none is freed twice: inFlight is the number of frames
\* claimed and not completed, wherever they are, and stays within the depth.
SlotsExact ==
    /\ inFlight = Len(h264Queue) + Len(encoder)
                    + InHands("capture") + InHands("h264") + InHands("vt")
    /\ inFlight <= MaxInFlight

\* A parked frame never waits beside a free slot: whoever freed the slot or
\* parked the frame has still to look again.  (A missed look would freeze
\* the picture until the next change of the screen.)
ParkedIsSeen ==
    pending # NoFrame /\ inFlight < MaxInFlight =>
        \E t \in Thread : at[t] \in {"draining", "submitting"}

ForcedIn(s, n) == \E i \in DOMAIN s : s[i].force /\ s[i].id >= n

\* "A forced keyframe request must survive being superseded": the newest
\* request is in the parked frame, in a thread's hands, in the queue, or has
\* reached the encoder, on the frame it came with or a newer one.
\* (H264Pump.swift:62-63)
ForceSurvives ==
    \/ forceGiven >= forceAsked
    \/ pending.force /\ pending.id >= forceAsked
    \/ \E t \in Thread : held[t].force /\ held[t].id >= forceAsked
    \/ ForcedIn(h264Queue, forceAsked)

\* The picture never goes back to an older frame: "the frame the viewer sees
\* is always the most recent one the encoder could reach" (H264Pump.swift:16).
NeverBackwards == [][shown' >= shown]_shown

\* Every request reaches the encoder.
ForceArrives == \A n \in 1 .. MaxFrames : forceAsked = n ~> forceGiven >= n

\* The slot empties: the newest frame is not left parked.
ParkedIsSubmitted == pending # NoFrame ~> pending = NoFrame
=============================================================================
