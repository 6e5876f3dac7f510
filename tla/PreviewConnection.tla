------------------------- MODULE PreviewConnection -------------------------
(***************************************************************************)
(* How a preview page stays attached to the helper of its simulator:       *)
(* /api/events of middleware.ts watches the state directory and pushes the *)
(* device's configuration when it changed; the page (client.tsx) keeps the *)
(* last configuration, and while the helper is gone asks /grid/api/attach  *)
(* every second, which runs the CLI.  A helper is named by its number; 0   *)
(* is none.                                                                *)
(***************************************************************************)
EXTENDS Integers, Sequences

CONSTANTS Helpers,     \* numbers a new helper can have
          MaxDeaths,   \* bound: helpers that die by themselves
          MaxDrops,    \* bound: times the event stream or its watcher breaks
          MaxBoots,    \* bound: times the simulator is shut down or booted
          MaxStrays    \* bound: attaches under way that an ended effect posted

VARIABLES
  booted,    \* the simulator is booted
  boots,     \* times that changed
  snapshot,  \* bootedSnapshot: what the server last listed
  helper,    \* the live helper, or 0
  file,      \* the helper the device's state file names, or 0
  deaths,    \* helpers that died so far
  watcher,   \* the state directory is watched
  changed,   \* a file system event or its 150 ms debounce is pending
  compute,   \* [step, value] of the configuration being computed
  recompute, \* asked for again meanwhile: the one under way is outdated
  lastSent,  \* the configuration last pushed: a helper, 0 for null, or NotSent
  pushed,    \* configurations on their way to the page
  drops,     \* times the stream or the watcher broke so far
  config,    \* the page's configuration: a helper, or 0
  available, \* helperAvailable
  attaching, \* a POST /grid/api/attach of the page's effect is running
  strays     \* those its ended effects posted and nobody aborted

pvars == <<booted, boots, snapshot, helper, file, deaths, watcher, changed, compute,
           recompute, lastSent, pushed, drops, config, available, attaching,
           strays>>

world == <<booted, boots, snapshot, helper, file, deaths>>
stream == <<watcher, changed, compute, recompute, lastSent, pushed, drops>>
page == <<config, available, attaching, strays>>

NotSent == 0 - 1
Idle == [step |-> "idle", value |-> 0]
Listing == [step |-> "list", value |-> 0]

PreviewInit ==
  /\ booted = TRUE /\ boots = 0 /\ snapshot = TRUE
  /\ helper = 1 /\ file = 1 /\ deaths = 0
  /\ watcher = FALSE /\ changed = FALSE /\ compute = Idle /\ recompute = FALSE
  /\ lastSent = NotSent /\ pushed = <<>> /\ drops = 0
  /\ config = 1 /\ available = TRUE /\ attaching = FALSE /\ strays = 0

-----------------------------------------------------------------------------
\* The host: a helper dies and leaves its state file; the simulator is shut
\* down or booted.
HelperDies == /\ helper # 0 /\ helper' = 0
              /\ deaths < MaxDeaths /\ deaths' = deaths + 1
              /\ UNCHANGED <<booted, boots, snapshot, file, stream, page>>
SimulatorTurns == /\ boots < MaxBoots /\ boots' = boots + 1 /\ booted' = ~booted
                  /\ UNCHANGED <<snapshot, helper, file, deaths, stream, page>>

\* The list of booted simulators is read again once it is 1.5 s old.
SnapshotRefreshes == /\ snapshot # booted /\ snapshot' = booted
                     /\ UNCHANGED <<booted, boots, helper, file, deaths, stream, page>>

\* The state file is written or removed; the watcher, if there is one, notices.
FileBecomes(f) == /\ file' = f
                  /\ changed' = (changed \/ (watcher /\ f # file))

-----------------------------------------------------------------------------
\* sendIfChanged: one computation at a time; asked for meanwhile, the one under
\* way is outdated and another follows it.
SendIfChanged == IF compute.step = "idle" THEN compute' = Listing /\ UNCHANGED recompute
                                          ELSE recompute' = TRUE /\ UNCHANGED compute

\* The page opens the event stream; nothing is known of what it shows.
StreamConnects ==
  /\ lastSent = NotSent /\ compute.step = "idle" /\ ~recompute
  /\ SendIfChanged
  /\ UNCHANGED <<world, watcher, changed, lastSent, pushed, drops, page>>

\* The watcher is opened 250 ms later, or again after an error.
Watches == /\ ~watcher /\ watcher' = TRUE /\ SendIfChanged
           /\ UNCHANGED <<world, changed, lastSent, pushed, drops, page>>
WatcherFails == /\ watcher /\ watcher' = FALSE /\ drops < MaxDrops /\ drops' = drops + 1
                /\ UNCHANGED <<world, changed, compute, recompute, lastSent, pushed, page>>
Debounced == /\ changed /\ changed' = FALSE /\ SendIfChanged
             /\ UNCHANGED <<world, watcher, lastSent, pushed, drops, page>>
\* Every 15 s, for the changes no event told of.
Heartbeat == /\ compute.step = "idle" /\ SendIfChanged
             /\ UNCHANGED <<world, watcher, changed, lastSent, pushed, drops, page>>

\* readStates lists the directory, then waits for the booted simulators.
Lists ==
  /\ compute.step = "list"
  /\ compute' = [compute EXCEPT !.step = "read", !.value = file]
  /\ UNCHANGED <<world, watcher, changed, recompute, lastSent, pushed, drops, page>>

\* It then reads the files listed: one of a dead helper is removed, a helper
\* whose simulator is not booted is stopped and its file removed.
Reads ==
  /\ compute.step = "read"
  /\ LET listed == compute.value # 0 /\ file # 0
         usable == listed /\ helper = file /\ snapshot
     IN /\ compute' = [compute EXCEPT !.step = "answer", !.value = IF usable THEN file ELSE 0]
        /\ FileBecomes(IF listed /\ ~usable THEN 0 ELSE file)
        /\ helper' = IF listed /\ helper = file /\ ~snapshot THEN 0 ELSE helper
  /\ UNCHANGED <<booted, boots, snapshot, deaths, watcher, recompute, lastSent,
                 pushed, drops, page>>

\* Mutant: an outdated configuration counts as sent.
SentAfterAny(value) == value

\* What counts as sent after a computation: its value, unless it is outdated.
SentAfter(value) == IF recompute THEN lastSent ELSE value

\* The metadata is resolved: push unless outdated or unchanged, then go round.
Answers ==
  /\ compute.step = "answer"
  /\ lastSent' = SentAfter(compute.value)
  /\ pushed' = IF recompute \/ compute.value = lastSent THEN pushed
               ELSE Append(pushed, compute.value)
  /\ compute' = IF recompute THEN Listing ELSE Idle
  /\ recompute' = FALSE
  /\ UNCHANGED <<world, watcher, changed, drops, page>>

\* The stream drops and the page's EventSource opens it again.
StreamDrops ==
  /\ drops < MaxDrops /\ drops' = drops + 1
  /\ watcher' = FALSE /\ changed' = FALSE /\ compute' = Idle /\ recompute' = FALSE
  /\ lastSent' = NotSent /\ pushed' = <<>>
  /\ UNCHANGED <<world, page>>

-----------------------------------------------------------------------------
\* The page takes a pushed configuration; null keeps the last one on screen.  A
\* helper that is back ends the effect, which leaves its attach to itself.
PageReceives ==
  /\ pushed # <<>> /\ pushed' = Tail(pushed)
  /\ available' = (Head(pushed) # 0)
  /\ config' = IF Head(pushed) = 0 THEN config ELSE Head(pushed)
  /\ attaching' = (attaching /\ Head(pushed) = 0)
  /\ strays' = IF attaching /\ Head(pushed) # 0 THEN strays + 1 ELSE strays
  /\ UNCHANGED <<world, watcher, changed, compute, recompute, lastSent, drops>>

\* While the helper is gone the page posts an attach: at once when it went, and
\* a second after the last (bound: not while MaxStrays older ones are under way).
PageAttaches ==
  /\ ~available /\ ~attaching /\ attaching' = TRUE /\ strays < MaxStrays
  /\ UNCHANGED <<world, stream, config, available, strays>>

\* The numbers that no helper still spoken of has.
NewHelpers ==
  Helpers \ ({helper, file, config, lastSent, compute.value} \cup {pushed[i] : i \in DOMAIN pushed})

\* /grid/api/attach: refused unless the simulator is booted; else the CLI finds
\* the helper its state file names, or starts one (bound: while Helpers has a number).
CliAttaches ==
  IF booted /\ (helper = 0 \/ helper # file)
  THEN LET new == CHOOSE h \in NewHelpers : TRUE
       IN  NewHelpers # {} /\ helper' = new /\ FileBecomes(new)
  ELSE UNCHANGED <<helper, file, changed>>

AttachEnds ==
  /\ attaching /\ attaching' = FALSE
  /\ CliAttaches
  /\ UNCHANGED <<booted, boots, snapshot, deaths, watcher, compute, recompute, lastSent,
                 pushed, drops, config, available, strays>>

StrayEnds ==
  /\ strays > 0 /\ strays' = strays - 1
  /\ CliAttaches
  /\ UNCHANGED <<booted, boots, snapshot, deaths, watcher, compute, recompute, lastSent,
                 pushed, drops, config, available, attaching>>

PreviewNext ==
  \/ HelperDies \/ SimulatorTurns \/ SnapshotRefreshes \/ StreamConnects \/ Watches
  \/ WatcherFails \/ Debounced \/ Heartbeat \/ Lists \/ Reads \/ Answers \/ StreamDrops
  \/ PageReceives \/ PageAttaches \/ AttachEnds \/ StrayEnds

\* Every timer, callback and request of the server and the page comes to its end.
PreviewFairness ==
  /\ WF_pvars(SnapshotRefreshes) /\ WF_pvars(StreamConnects)
  /\ WF_pvars(Heartbeat) /\ WF_pvars(Lists) /\ WF_pvars(Reads)
  /\ WF_pvars(Answers) /\ WF_pvars(PageReceives)
  /\ WF_pvars(PageAttaches) /\ WF_pvars(AttachEnds) /\ WF_pvars(StrayEnds)

PreviewSpec == PreviewInit /\ [][PreviewNext]_pvars /\ PreviewFairness

-----------------------------------------------------------------------------
\* Types of the variables.
PreviewTypeOK ==
  /\ booted \in BOOLEAN /\ boots \in 0..MaxBoots /\ snapshot \in BOOLEAN
  /\ helper \in Helpers \cup {0} /\ file \in Helpers \cup {0} /\ deaths \in 0..MaxDeaths
  /\ watcher \in BOOLEAN /\ changed \in BOOLEAN /\ recompute \in BOOLEAN
  /\ compute \in [step : {"idle", "list", "read", "answer"}, value : Helpers \cup {0}]
  /\ lastSent \in Helpers \cup {0, NotSent} /\ pushed \in Seq(Helpers \cup {0})
  /\ drops \in 0..MaxDrops /\ config \in Helpers
  /\ available \in BOOLEAN /\ attaching \in BOOLEAN
  /\ strays \in 0..MaxStrays /\ (attaching => strays < MaxStrays)

(***************************************************************************)
(* A page whose simulator stays booted comes back: whatever helpers died,  *)
(* were stopped on an old list of booted simulators or were pushed out of  *)
(* order, it ends on the configuration of a live helper (middleware.ts:    *)
(* 1948-2026, client.tsx:307-336 and 394-416).                             *)
(***************************************************************************)
ComesBack == (<>[]booted) => <>[](available /\ helper # 0 /\ config = helper)
=============================================================================
