---------------------------- MODULE DuoFramePump ----------------------------
(***************************************************************************)
(* The composition pump of the foldable (DuoFramePump.swift): panels and   *)
(* view updates arrive on several threads, one task at a time composes the *)
(* newest of them.  A caller takes the lock twice, to record its change    *)
(* and to schedule a drain, and anything may happen in between.            *)
(***************************************************************************)
EXTENDS Naturals

CONSTANTS Callers,     \* threads that offer panels and update the view
          MaxRevision  \* changes

VARIABLES
    panels,    \* some panel has been offered, and the pump is not stopped
    seeded,    \* seededHinge
    grace,     \* the hinge grace: "open", "waiting" once a retry is set, "over", and
               \* "retry" or "gone" when the retry runs and has run after it
    moving,    \* some spring is not at its target
    revision,  \* of the newest change
    running,
    stopped,
    caller,    \* "idle", or "schedule" between the two critical sections of a call
    drain,     \* "none", "take", "compose", "again" or "sleep"
    taken,     \* the revision being composed
    composed   \* the newest revision that was composed

vars == <<panels, seeded, grace, moving, revision, running, stopped, caller, drain, taken, composed>>

Init ==
    /\ panels = FALSE /\ seeded = FALSE /\ grace = "open" /\ moving = FALSE
    /\ revision = 0 /\ running = FALSE /\ stopped = FALSE
    /\ caller = [c \in Callers |-> "idle"]
    /\ drain = "none" /\ taken = 0 /\ composed = 0

-----------------------------------------------------------------------------
\* offer: keeps the panel, also after stop; a new revision.
Offer(c) ==
    /\ caller[c] = "idle" /\ revision < MaxRevision
    /\ panels' = TRUE
    /\ revision' = revision + 1
    /\ caller' = [caller EXCEPT ![c] = "schedule"]
    /\ UNCHANGED <<seeded, grace, moving, running, stopped, drain, taken, composed>>

\* update that changes something: the first hinge angle is taken at once, later targets
\* (hinge, rotation, focus) set a spring in motion, the rest is only another composition.
Update(c) ==
    /\ caller[c] = "idle" /\ revision < MaxRevision
    /\ \/ UNCHANGED <<seeded, moving>>
       \/ seeded' = TRUE /\ UNCHANGED moving
       \/ moving' = TRUE /\ UNCHANGED seeded
    /\ revision' = revision + 1
    /\ caller' = [caller EXCEPT ![c] = "schedule"]
    /\ UNCHANGED <<panels, grace, running, stopped, drain, taken, composed>>

GraceOver == grace \in {"over", "retry", "gone"}
Runnable == ~running /\ ~stopped /\ panels

\* Mutant: nobody comes back when the grace is over.
ScheduledOnce ==
    IF Runnable /\ (seeded \/ GraceOver)
    THEN running' = TRUE /\ drain' = "take" /\ UNCHANGED grace
    ELSE UNCHANGED <<grace, running, drain>>

\* schedule, under the lock: nothing to do, a retry after the grace, or a drain.
Scheduled ==
    IF ~Runnable THEN UNCHANGED <<grace, running, drain>>
    ELSE IF ~seeded /\ ~GraceOver
    THEN grace' = "waiting" /\ UNCHANGED <<running, drain>>
    ELSE running' = TRUE /\ drain' = "take" /\ UNCHANGED grace

Schedule(c) ==
    /\ caller[c] = "schedule"
    /\ Scheduled
    /\ caller' = [caller EXCEPT ![c] = "idle"]
    /\ UNCHANGED <<panels, seeded, moving, revision, stopped, taken, composed>>

\* The grace ends; the retry that was set for its end runs then or later.
GraceEnds ==
    /\ grace \in {"open", "waiting"}
    /\ grace' = IF grace = "waiting" THEN "retry" ELSE "over"
    /\ UNCHANGED <<panels, seeded, moving, revision, running, stopped, caller, drain, taken, composed>>

GraceRetry ==
    /\ grace = "retry"
    /\ grace' = "gone"
    /\ IF Runnable THEN running' = TRUE /\ drain' = "take" ELSE UNCHANGED <<running, drain>>
    /\ UNCHANGED <<panels, seeded, moving, revision, stopped, caller, taken, composed>>

\* take: the newest panels and state, with the springs one step on, which may settle them.
\* A stopped pump ends its drain here and stays "running".
Take ==
    /\ drain = "take"
    /\ IF stopped
       THEN drain' = "none" /\ UNCHANGED <<taken, moving>>
       ELSE drain' = "compose" /\ taken' = revision /\ moving' \in {moving, FALSE}
    /\ UNCHANGED <<panels, seeded, grace, revision, running, stopped, caller, composed>>

Compose ==
    /\ drain = "compose"
    /\ drain' = "again" /\ composed' = taken
    /\ UNCHANGED <<panels, seeded, grace, moving, revision, running, stopped, caller, taken>>

\* Mutant: only the springs keep the drain going, what arrived meanwhile is left.
MoreToComposeMoving == ~stopped /\ moving

MoreToCompose == ~stopped /\ (revision # taken \/ moving)

Again ==
    /\ drain = "again"
    /\ IF MoreToCompose
       THEN drain' = "sleep" /\ UNCHANGED running
       ELSE drain' = "none" /\ running' = FALSE
    /\ UNCHANGED <<panels, seeded, grace, moving, revision, stopped, caller, taken, composed>>

\* The rest of the sixtieth of a second, if any is left.
Wake ==
    /\ drain = "sleep"
    /\ drain' = "take"
    /\ UNCHANGED <<panels, seeded, grace, moving, revision, running, stopped, caller, taken, composed>>

Stop ==
    /\ ~stopped
    /\ stopped' = TRUE /\ panels' = FALSE
    /\ UNCHANGED <<seeded, grace, moving, revision, running, caller, drain, taken, composed>>

Drain == Take \/ Compose \/ Again \/ Wake

Next ==
    \/ \E c \in Callers : Offer(c) \/ Update(c) \/ Schedule(c)
    \/ GraceEnds \/ GraceRetry \/ Drain \/ Stop

\* A thread that is in schedule gets the lock, the clock runs, a task is resumed, and a
\* composition returns.
Spec == Init /\ [][Next]_vars
Fairness ==
    /\ \A c \in Callers : WF_vars(Schedule(c))
    /\ WF_vars(GraceEnds) /\ WF_vars(GraceRetry) /\ WF_vars(Drain)
FairSpec == Spec /\ Fairness

-----------------------------------------------------------------------------
TypeOK ==
    /\ panels \in BOOLEAN /\ seeded \in BOOLEAN /\ moving \in BOOLEAN
    /\ running \in BOOLEAN /\ stopped \in BOOLEAN
    /\ grace \in {"open", "waiting", "over", "retry", "gone"}
    /\ caller \in [Callers -> {"idle", "schedule"}]
    /\ drain \in {"none", "take", "compose", "again", "sleep"}
    /\ revision \in Nat /\ taken \in Nat /\ composed \in Nat

\* At most one task drains the pump, and no change waits unseen: while a panel is there and
\* a revision is not composed, a drain is under way, or the retry at the end of the hinge
\* grace, or a caller that is about to schedule one (schedule and again, which drop and
\* take "running" under different critical sections than the changes).
PendingIsSeen ==
    /\ (drain # "none") => running
    /\ panels /\ ~stopped /\ composed # revision =>
          \/ drain # "none"
          \/ grace \in {"waiting", "retry"} /\ ~seeded
          \/ \E c \in Callers : caller[c] = "schedule"

\* Every change is composed in the end, or one that came after it: again and again nothing
\* is left, unless the pump stops or no panel has been offered.
NewestComposed == []<>(panels /\ ~stopped => revision = composed)
=============================================================================
