--------------------------- MODULE DisplayMonitor ---------------------------
(***************************************************************************)
(* Which panel of a foldable is in use (FrameDisplayMonitor.swift).  An    *)
(* observer in the guest prints a sample when the panels' activity         *)
(* changes; while the samples name no single active panel, and once the    *)
(* observer is gone, devicectl is asked every second.  The two run on      *)
(* queues of their own and both hand what they found to captureQueue.      *)
(***************************************************************************)
EXTENDS Naturals, Sequences, FiniteSets

CONSTANTS Panels,      \* the integrated displays
          First,       \* the one in use at the start
          MaxChanges   \* bound: changes of what the runtime shows

VARIABLES
  active,     \* the panels the runtime has active; none while it is blanked
  main,       \* the panel in use
  changes,    \* changes of the two so far
  printed,    \* the observer's previous snapshot: the active panels and main
  pipe,       \* its samples that the stream thread has not read
  alive,      \* streamProcess runs
  ambiguous,  \* ambiguousRuntime
  primary,    \* primaryDisplay, or None
  previous,   \* previousID, or None
  streamed,   \* the display the stream thread hands over next, or None
  poll,       \* the timer's handler: [at, display]
  overtaken,  \* the samples became clear after a poll checked and before it posted
  found,      \* captureQueue: the displays handed over
  observed    \* observedDisplay, or None

mvars == <<active, main, changes, printed, pipe, alive, ambiguous, primary,
           previous, streamed, poll, overtaken, found, observed>>

None == [id |-> 0, blanked |-> FALSE]
Display(p, blanked) == [id |-> p, blanked |-> blanked]
Sample == [active |-> active, main |-> main]

\* A blanked panel is named only by the state it keeps: the sample's inactive one.
Shown(sample) == Display(sample.main, sample.active = {})

MonitorInit ==
  /\ active = {First} /\ main = First /\ changes = 0
  /\ printed = [active |-> {}, main |-> 0] /\ pipe = <<>> /\ alive \in BOOLEAN
  /\ ambiguous = FALSE /\ primary = None /\ previous = 0 /\ streamed = None
  /\ poll = [at |-> "idle", display |-> None] /\ overtaken = FALSE
  /\ found = <<>> /\ observed = None

\* The runtime turns panels on and off: one, both while it folds, or none.
RuntimeChanges ==
  /\ changes < MaxChanges /\ changes' = changes + 1
  /\ main' \in Panels
  /\ active' \in {{}, {main'}, Panels}
  /\ UNCHANGED <<printed, pipe, alive, ambiguous, primary, previous, streamed,
                 poll, overtaken, found, observed>>

\* The observer prints a snapshot unlike its previous one.  Which of two
\* active panels is in use is not part of it.
Clear(s) == Cardinality(s.active) = 1
Same(s, t) == s.active = t.active /\ (s.active # {} \/ s.main = t.main)
Prints ==
  /\ alive /\ ~Same(Sample, printed)
  /\ printed' = Sample /\ pipe' = Append(pipe, Sample)
  /\ UNCHANGED <<active, main, changes, alive, ambiguous, primary, previous,
                 streamed, poll, overtaken, found, observed>>

\* sample.display(previousID:): the previous panel if active, the only active
\* one, or the blanked one.
Selected(s, prev) ==
  IF prev \in s.active THEN Display(prev, FALSE)
  ELSE IF Clear(s) \/ s.active = {} THEN Shown(s) ELSE None

\* The stream thread reads a sample under the lock.
ReadsSample ==
  /\ alive /\ streamed = None /\ pipe # <<>> /\ pipe' = Tail(pipe)
  /\ LET s == Head(pipe)
         kept == IF Clear(s) THEN None ELSE primary
         d == Selected(s, IF kept # None THEN kept.id ELSE previous)
         display == IF d # None THEN d ELSE kept
     IN  /\ ambiguous' = ~Clear(s) /\ primary' = kept
         /\ streamed' = display
         /\ previous' = IF display # None THEN display.id ELSE previous
         /\ overtaken' = (overtaken \/ (poll.at = "post" /\ Clear(s)))
  /\ UNCHANGED <<active, main, changes, printed, alive, poll, found, observed>>

\* It hands the display over after the unlock.
Streams ==
  /\ streamed # None /\ streamed' = None /\ found' = Append(found, streamed)
  /\ UNCHANGED <<active, main, changes, printed, pipe, alive, ambiguous,
                 primary, previous, poll, overtaken, observed>>

\* The observer ends; the timer is scheduled at once.
StreamEnds ==
  /\ alive /\ streamed = None /\ alive' = FALSE /\ pipe' = <<>> /\ primary' = None
  /\ UNCHANGED <<active, main, changes, printed, ambiguous, previous, streamed,
                 poll, overtaken, found, observed>>

\* Mutant: the answer is used whatever the samples said meanwhile.
WantedAlways == TRUE

\* devicectl's answer is wanted: requiresPrimary, and running.
Wanted == ~alive \/ ambiguous

\* The timer fires and devicectl looks at the runtime; it may answer nothing.
Polls ==
  /\ poll.at = "idle" /\ found = <<>> /\ (~alive \/ ambiguous)
  /\ poll' = [at |-> "asked", display |-> Shown(Sample)]
  /\ UNCHANGED <<active, main, changes, printed, pipe, alive, ambiguous,
                 primary, previous, streamed, overtaken, found, observed>>

\* Its answer arrives and is checked under the lock, or it failed.
Answers(ok) ==
  /\ poll.at = "asked"
  /\ IF ok /\ Wanted
     THEN poll' = [poll EXCEPT !.at = "post"] /\ primary' = poll.display
     ELSE poll' = [at |-> "idle", display |-> None] /\ UNCHANGED primary
  /\ UNCHANGED <<active, main, changes, printed, pipe, alive, ambiguous,
                 previous, streamed, overtaken, found, observed>>

\* It is handed over after the unlock.
Posts ==
  /\ poll.at = "post" /\ poll' = [at |-> "idle", display |-> None]
  /\ found' = Append(found, poll.display)
  /\ UNCHANGED <<active, main, changes, printed, pipe, alive, ambiguous,
                 primary, previous, streamed, overtaken, observed>>

\* captureQueue takes it.
Observes ==
  /\ found # <<>> /\ found' = Tail(found) /\ observed' = Head(found)
  /\ UNCHANGED <<active, main, changes, printed, pipe, alive, ambiguous,
                 primary, previous, streamed, poll, overtaken>>

MonitorNext ==
  \/ RuntimeChanges \/ Prints \/ ReadsSample \/ Streams \/ StreamEnds
  \/ Polls \/ Answers(TRUE) \/ Answers(FALSE) \/ Posts \/ Observes

(* Every queue makes progress; devicectl, asked again and again, answers.  *)
MonitorFairness ==
  /\ WF_mvars(Prints) /\ WF_mvars(ReadsSample) /\ WF_mvars(Streams)
  /\ WF_mvars(Polls) /\ SF_mvars(Answers(TRUE)) /\ WF_mvars(Posts)
  /\ WF_mvars(Observes)

MonitorSpec == MonitorInit /\ [][MonitorNext]_mvars /\ MonitorFairness

-----------------------------------------------------------------------------
Displays == [id : Panels, blanked : BOOLEAN] \union {None}

\* Types of the variables.
MonitorTypeOK ==
  /\ active \subseteq Panels /\ main \in Panels /\ changes \in 0..MaxChanges
  /\ printed \in [active : SUBSET Panels, main : Panels \union {0}]
  /\ pipe \in Seq([active : SUBSET Panels, main : Panels])
  /\ {alive, ambiguous, overtaken} \subseteq BOOLEAN /\ previous \in Panels \union {0}
  /\ {primary, streamed, observed} \subseteq Displays /\ found \in Seq(Displays)
  /\ poll \in [at : {"idle", "asked", "post"}, display : Displays]

(***************************************************************************)
(* Once the runtime rests, capture ends on the panel in use, whichever of  *)
(* the two sources answered last (FrameDisplayMonitor.swift:76-79,         *)
(* 133-146); unless a poll was overtaken by a clear sample between its     *)
(* check and its post, after which nothing asks again.                     *)
(***************************************************************************)
DisplaySettles == <>[]~overtaken => <>[](observed = Shown(Sample))
=============================================================================
