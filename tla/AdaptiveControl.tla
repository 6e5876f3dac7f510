--------------------------- MODULE AdaptiveControl ---------------------------
(***************************************************************************)
(* Adaptive bitrate (AdaptiveController.swift, AdaptiveDriver.swift).      *)
(* Three threads meet at the driver's lock: the 300 ms timer, the          *)
(* connection that switches the mode, and the capture callback that learns *)
(* the stream's size.  The timer applies its result to the encoder after   *)
(* the lock, and the connection reads the size before it.                  *)
(***************************************************************************)
EXTENDS Integers

CONSTANTS Modes, Sizes,  \* stream modes and resolutions
          Least(_),      \* Least(mode): the bit rate floor of a mode
          Most(_, _),    \* Most(mode, size): its ceiling at a resolution
          MaxSwitches    \* mode switches and resizes

ASSUME AdaptiveAssumption ==
    /\ MaxSwitches \in Nat
    /\ \A m \in Modes, s \in Sizes :
          Least(m) \in Nat \ {0} /\ Most(m, s) \in Nat /\ Least(m) <= Most(m, s)

CONSTANT Idle

VARIABLES
    bounds,    \* of the controller: [least, most]
    bitrate,   \* its target
    mode,      \* of the driver
    size,      \* screenWidth and screenHeight
    link,      \* what the send queues of the viewers report, "away" without a viewer
    tick,      \* the result the timer has yet to apply, or Idle
    resize,    \* the size the capture callback has yet to report, or Idle
    switch,    \* the mode a connection has yet to set, and the size it read, or Idle
    encoder,   \* the rate the encoder runs at
    switches,  \* how often mode or size have changed
    straddled  \* history: the mode was last set with a size that the stream had left

vars == <<bounds, bitrate, mode, size, link, tick, resize, switch, encoder, switches, straddled>>

Bounds(m, s) == [least |-> Least(m), most |-> Most(m, s)]
Lower(x, y) == IF x <= y THEN x ELSE y
Higher(x, y) == IF x <= y THEN y ELSE x

\* Provisional bounds, for a size that was guessed, until the first frame.
Init ==
    /\ mode \in Modes /\ size \in Sizes
    /\ bounds = Bounds(mode, size)
    /\ bitrate = bounds.most /\ encoder = bounds.most
    /\ link = "away"
    /\ tick = Idle /\ resize = Idle /\ switch = Idle
    /\ switches = 0 /\ straddled = FALSE

-----------------------------------------------------------------------------
\* Mutant: new bounds wait for the next tick to be respected.
SetBoundsOnly(b) == bounds' = b /\ UNCHANGED bitrate

\* setBounds clamps the target into the new range.
SetBounds(b) == bounds' = b /\ bitrate' = Lower(Higher(bitrate, b.least), b.most)

\* Mutant: the rate never rises again.
NextRateFalling == IF link = "congested" THEN Higher(bounds.least, (bitrate * 6) \div 10) ELSE bitrate

\* tick: cut by 0.6 from half of the queue limit on, raised by a 16th of the ceiling (never
\* less than 150 kbit/s, the unit here) below an eighth, and kept in between.
NextRate ==
    CASE link = "congested" -> Higher(bounds.least, (bitrate * 6) \div 10)
      [] link = "clear"     -> Lower(bounds.most, bitrate + Higher(1, bounds.most \div 16))
      [] OTHER              -> bitrate

\* The timer, only while a viewer is connected: sample and compute, then set the encoder.
Tick ==
    /\ tick = Idle /\ link # "away"
    /\ bitrate' = NextRate
    /\ tick' = NextRate
    /\ UNCHANGED <<bounds, mode, size, link, resize, switch, encoder, switches, straddled>>

Apply ==
    /\ tick # Idle
    /\ encoder' = tick /\ tick' = Idle
    /\ UNCHANGED <<bounds, bitrate, mode, size, link, resize, switch, switches, straddled>>

\* A frame of another size: the globals first, the bounds under the lock.
FrameOfSize(s) ==
    /\ resize = Idle /\ s # size /\ switches < MaxSwitches
    /\ size' = s /\ resize' = s
    /\ switches' = switches + 1
    /\ UNCHANGED <<bounds, bitrate, mode, link, tick, switch, encoder, straddled>>

UpdateResolution ==
    /\ resize # Idle
    /\ SetBounds(Bounds(mode, resize))
    /\ resize' = Idle
    /\ straddled' = FALSE
    /\ UNCHANGED <<mode, size, link, tick, switch, encoder, switches>>

\* A viewer's mode command: its thread reads the size, and setMode then takes the lock.
RequestMode(m) ==
    /\ switch = Idle /\ switches < MaxSwitches
    /\ switch' = [mode |-> m, size |-> size]
    /\ switches' = switches + 1
    /\ UNCHANGED <<bounds, bitrate, mode, size, link, tick, resize, encoder, straddled>>

SetMode ==
    /\ switch # Idle
    /\ mode' = switch.mode
    /\ SetBounds(Bounds(switch.mode, switch.size))
    /\ switch' = Idle
    /\ straddled' = (switch.size # size)
    /\ UNCHANGED <<size, link, tick, resize, encoder, switches>>

LinkChanges(report) ==
    /\ link' = report
    /\ UNCHANGED <<bounds, bitrate, mode, size, tick, resize, switch, encoder, switches, straddled>>

Next ==
    \/ Tick \/ Apply \/ UpdateResolution \/ SetMode
    \/ \E s \in Sizes : FrameOfSize(s)
    \/ \E m \in Modes : RequestMode(m)
    \/ \E report \in {"away", "congested", "busy", "clear"} : LinkChanges(report)

\* The timer repeats, and a thread that waits for the lock gets it.
Fairness ==
    /\ WF_vars(Tick) /\ WF_vars(Apply)
    /\ WF_vars(UpdateResolution) /\ WF_vars(SetMode)

Spec == Init /\ [][Next]_vars
FairSpec == Spec /\ Fairness

-----------------------------------------------------------------------------
TypeOK ==
    /\ bounds \in {Bounds(m, s) : m \in Modes, s \in Sizes}
    /\ bitrate \in Nat /\ encoder \in Nat
    /\ mode \in Modes /\ size \in Sizes
    /\ link \in {"away", "congested", "busy", "clear"}
    /\ tick = Idle \/ tick \in Nat
    /\ resize \in Sizes \cup {Idle}
    /\ switch = Idle \/ switch \in [mode : Modes, size : Sizes]
    /\ switches \in 0 .. MaxSwitches /\ straddled \in BOOLEAN

\* The target stays within the bounds in force, also when they move under it: a mode or a
\* resolution whose ceiling is lower, or floor higher, than the rate already reached.
RateInBounds == bounds.least <= bitrate /\ bitrate <= bounds.most

\* The encoder follows the link and the stream: on a link that stays clear it gets back to
\* the ceiling of the stream's mode and size, on one that stays congested it falls to the
\* floor, whatever resizes and mode switches ran meanwhile; a tick computed under the old
\* bounds and applied after the new ones does no lasting harm.  Left out is the mode set
\* with a size that the stream had left, whose bounds stay until the next resize.
EncoderFollows ==
    /\ <>[](link = "clear" /\ ~straddled) => <>[](encoder = Most(mode, size))
    /\ <>[](link = "congested" /\ ~straddled) => <>[](encoder = Least(mode))
=============================================================================
