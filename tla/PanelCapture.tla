---------------------------- MODULE PanelCapture ----------------------------
(***************************************************************************)
(* Capture of the foldable's panels (FrameCapture.swift): its callbacks    *)
(* and its idle timer run on captureQueue and hand the panels whose        *)
(* surface changed to the composition pump.  While nobody watches they     *)
(* only note that the panels need a refresh.                               *)
(***************************************************************************)
EXTENDS Naturals

CONSTANTS Panels,     \* the integrated displays
          MaxSeed,    \* bound: pictures a panel's surface holds, one after another
          MaxTurns    \* bound: times the last viewer leaves or a first one comes

VARIABLES
  seed,       \* IOSurfaceGetSeed of each panel's surface, 0 while it has none
  callbacks,  \* the panels whose frame callback is queued
  demand,     \* requiresPanelFrame: somebody watches
  turns,      \* changes of demand so far
  cap         \* [last: lastSeeds, handed: what onPanelFrame got last,
              \*  failed: the seed that could not be wrapped last,
              \*  stale: panelsNeedRefresh, some: frameCount > 0,
              \*  due: 200 ms passed since the last capture]

cvars == <<seed, callbacks, demand, turns, cap>>

Nothing == [p \in Panels |-> 0]

CaptureInit ==
  /\ seed = Nothing /\ callbacks = {} /\ demand = FALSE /\ turns = 0
  /\ cap = [last |-> Nothing, handed |-> Nothing, failed |-> Nothing, stale |-> FALSE,
            some |-> FALSE, due |-> FALSE]

\* capturePanel of each panel that has a surface and changed, or is forced.  Its seed is
\* recorded before the surface is wrapped; of those in failing nothing is handed on.
Panelled(c, forced, failing) ==
  LET hit == {p \in Panels : /\ seed[p] > 0
                             /\ forced \/ (c.some /\ c.due) \/ c.stale \/ c.last[p] # seed[p]}
      New(old, of) == [p \in Panels |-> IF p \in of THEN seed[p] ELSE old[p]]
  IN  [last |-> New(c.last, hit), handed |-> New(c.handed, hit \ failing),
       failed |-> New(c.failed, hit \cap failing), stale |-> FALSE,
       some |-> c.some \/ hit \ failing # {}, due |-> c.due /\ hit \ failing = {}]

\* Mutant: a frame that nobody watches is skipped without a note.
CapturedForgetting(c, forced) ==
  {IF c.some /\ ~demand THEN c ELSE Panelled(c, forced, failing) : failing \in SUBSET Panels}

\* captureFrame with composition: what it may come to.
Captured(c, forced) ==
  {IF c.some /\ ~demand THEN [c EXCEPT !.stale = TRUE] ELSE Panelled(c, forced, failing) :
     failing \in SUBSET Panels}

\* The simulator draws; the descriptor's frame callback is queued.
Draws(p) ==
  /\ seed[p] < MaxSeed /\ seed' = [seed EXCEPT ![p] = @ + 1]
  /\ callbacks' = callbacks \union {p}
  /\ UNCHANGED <<demand, turns, cap>>

\* A frame callback, or a surfaces or properties callback, which refreshes.
Callback(p) ==
  /\ p \in callbacks /\ callbacks' = callbacks \ {p}
  /\ \E refresh \in BOOLEAN : cap' \in Captured(cap, refresh)
  /\ UNCHANGED <<seed, demand, turns>>

\* A new binding, or new descriptors, forget the seeds that were seen.
Forgotten(c) == [c EXCEPT !.last = Nothing]

\* The idle timer: bound anew, the refresh owed, the idle floor (idle:
\* requiresIdleFrame), and new descriptors while no frame ever came.
Tick(bound, idle, rewire) ==
  /\ idle => demand
  /\ \E c1 \in IF bound THEN Captured(Forgotten(cap), FALSE) ELSE {cap} :
     \E c2 \in IF c1.stale /\ demand THEN Captured(c1, FALSE) ELSE {c1} :
     \E c3 \in IF ~c2.due THEN {c2}
               ELSE IF idle THEN Captured(c2, FALSE) ELSE {[c2 EXCEPT !.due = FALSE]} :
       cap' \in IF ~c3.some /\ rewire THEN Captured(Forgotten(c3), FALSE) ELSE {c3}
  /\ UNCHANGED <<seed, callbacks, demand, turns>>

\* 200 ms pass without a capture.
TimePasses == ~cap.due /\ cap' = [cap EXCEPT !.due = TRUE] /\ UNCHANGED <<seed, callbacks, demand, turns>>

\* A first viewer or a keyframe request; the last viewer leaves.
Turns ==
  /\ turns < MaxTurns /\ turns' = turns + 1 /\ demand' = ~demand
  /\ UNCHANGED <<seed, callbacks, cap>>

Ticks == \E bound, idle, rewire \in BOOLEAN : Tick(bound, idle, rewire)

CaptureNext ==
  \/ \E p \in Panels : Draws(p) \/ Callback(p)
  \/ Ticks \/ TimePasses \/ Turns

(* The serial queue runs its callbacks, and its timer when there is a      *)
(* refresh to make up for.                                                 *)
CaptureFairness ==
  /\ WF_cvars(cap.stale /\ Ticks)
  /\ \A p \in Panels : WF_cvars(Callback(p))

CaptureSpec == CaptureInit /\ [][CaptureNext]_cvars /\ CaptureFairness

-----------------------------------------------------------------------------
\* Types of the variables.
CaptureTypeOK ==
  /\ seed \in [Panels -> 0..MaxSeed] /\ callbacks \subseteq Panels
  /\ demand \in BOOLEAN /\ turns \in 0..MaxTurns
  /\ cap \in [last : [Panels -> 0..MaxSeed], handed : [Panels -> 0..MaxSeed],
              failed : [Panels -> 0..MaxSeed], stale : BOOLEAN, some : BOOLEAN, due : BOOLEAN]

(***************************************************************************)
(* Somebody who stays sees the panels' last pictures, also those drawn     *)
(* while nobody watched and with no idle frame asked for (AVCC): the       *)
(* refresh that was skipped is made up for (FrameCapture.swift:331, 381).  *)
(* All but a picture whose surface could not be wrapped: its seed counts   *)
(* as seen (FrameCapture.swift:368-371), and it is not tried again before  *)
(* the panel changes or something forces a refresh.                        *)
(***************************************************************************)
PanelsCatchUp ==
  <>[]demand => <>[](\A p \in Panels : seed[p] \in {cap.handed[p], cap.failed[p]})
=============================================================================
