-------------------------- MODULE SimulatorSettings --------------------------
(***************************************************************************)
(* The appearance, an option with two writers: the settings panel          *)
(* (simulator-settings-tool.tsx), which queues its sets (latest-wins.ts)   *)
(* and makes a new queue whenever it mounts, and the toggle of the dock    *)
(* (simulator-appearance.ts), which queues its own.  Both share the page's *)
(* cached value (simulator-settings-cache.ts).  The server runs each read  *)
(* and each set in a process of its own, so they take effect in any order; *)
(* a set may fail, or time out and still take effect.                      *)
(***************************************************************************)
EXTENDS Naturals

CONSTANTS Values,      \* the option's values
          Opposite,    \* what the toggle makes of each
          Default,     \* the simulator's value when the panel opens
          MaxClicks,   \* bound: clicks in the panel
          MaxMounts,   \* bound: mounts of the panel
          MaxPresses,  \* bound: presses of the toggle
          MaxReads     \* bound: reads of the settings

VARIABLES
  sim,       \* the simulator's value
  shown,     \* the cached value
  fresh,     \* the simulator confirmed it (confirmedAt)
  revision,  \* settingsRevision
  asked,     \* the value of the last click, or of the last set of the toggle
  clicks,    \* clicks in the panel so far
  mount,     \* the panel's mounts so far
  queue,     \* the latestWins queue of each mount: [value, done, next], the set in
             \* flight, done once it took effect, and the value that waits for it
  presses,   \* presses of the toggle so far
  dock,      \* the toggle: [at, known, value, done]
  late,      \* the values of sets that timed out and may still take effect
  reads,     \* the reads under way: [id, startedAt, value], value None at first
  count,     \* reads begun
  troubled,  \* a set failed or timed out
  raced,     \* a set was sent while another writer's was in flight
  crossed    \* a read that may be stored was under way while a set was in flight

stvars == <<sim, shown, fresh, revision, asked, clicks, mount, queue, presses, dock,
            late, reads, count, troubled, raced, crossed>>

None == "none"
Mounts == 1 .. MaxMounts
Empty == [value |-> None, done |-> FALSE, next |-> None]
Sent(v) == [value |-> v, done |-> FALSE, next |-> None]
Resting == [at |-> "resting", known |-> None, value |-> None, done |-> FALSE]

SettingsInit ==
  /\ sim = Default /\ shown = Default /\ asked = Default /\ fresh = TRUE /\ revision = 0
  /\ clicks = 0 /\ mount = 1 /\ queue = [m \in Mounts |-> Empty]
  /\ presses = 0 /\ dock = Resting
  /\ late = {} /\ reads = {} /\ count = 0
  /\ troubled = FALSE /\ raced = FALSE /\ crossed = FALSE

cache == <<shown, fresh, revision>>
panel == <<clicks, mount, queue>>
toggle == <<presses, dock>>
reading == <<reads, count>>

\* The writers with a set in flight: mounts, and 0 for the toggle.
Dock == 0
Busy == {m \in Mounts : queue[m] # Empty} \union (IF dock.at = "setting" THEN {Dock} ELSE {})

\* w sends a set of v.
Asks(w, v) == asked' = v /\ raced' = (raced \/ Busy \ {w} # {})

\* patchSimulatorSettings: shown before the simulator confirms it.
Patch(v) == shown' = v /\ fresh' = FALSE /\ revision' = revision + 1

-----------------------------------------------------------------------------
\* The panel.

\* apply: the control moves, the set is sent or waits for the one in flight.
Click(v) ==
  /\ clicks < MaxClicks /\ clicks' = clicks + 1
  /\ Patch(v) /\ Asks(mount, v)
  /\ queue' = [queue EXCEPT ![mount] = IF @ = Empty THEN Sent(v) ELSE [@ EXCEPT !.next = v]]
  /\ UNCHANGED <<sim, mount, toggle, late, reading, troubled, crossed>>

\* The set reaches the simulator.
TakesEffect(m) ==
  /\ queue[m] # Empty /\ ~queue[m].done
  /\ sim' = queue[m].value /\ queue' = [queue EXCEPT ![m].done = TRUE]
  /\ UNCHANGED <<cache, asked, clicks, mount, toggle, late, reading, troubled, raced, crossed>>

\* The loop of latestWins: what waits is sent, unless it was just sent.
Follows(m) ==
  queue' = [queue EXCEPT ![m] = IF @.next \in {None, @.value} THEN Empty ELSE Sent(@.next)]

\* The reply of a set that took effect confirms what the panel shows.
SetReturns(m) ==
  /\ queue[m].done /\ Follows(m)
  /\ fresh' = (fresh \/ shown = queue[m].value)
  /\ UNCHANGED <<sim, shown, revision, asked, clicks, mount, toggle, late, reading,
                 troubled, raced, crossed>>

Begun == [id |-> count, startedAt |-> revision, value |-> None]

\* A read records the revision.  Past the bound it counts as one that fails.
Reads == IF count < MaxReads THEN count' = count + 1 /\ reads' = reads \union {Begun}
                             ELSE UNCHANGED reading

\* refresh and warmSimulatorSettings, also after a toggle (refreshUiSettings).
Refresh ==
  /\ count < MaxReads /\ Reads
  /\ crossed' = (crossed \/ Busy # {})
  /\ UNCHANGED <<sim, cache, asked, panel, toggle, late, troubled, raced>>

\* The inspector opens again or comes back to the device: another queue, and a read.  The
\* loop of the queue before goes on.
Remount ==
  /\ mount < MaxMounts /\ mount' = mount + 1 /\ Reads
  /\ crossed' = (crossed \/ Busy # {})
  /\ UNCHANGED <<sim, cache, asked, clicks, queue, toggle, late, troubled, raced>>

\* The set of v is given up; unless it took effect, it may do so later.
GivesUp(v, done) ==
  /\ troubled' = TRUE
  /\ late' \in IF done THEN {late} ELSE {late, late \union {v}}

\* The set fails, or its 15 s pass first; the panel reads again.
SetFails(m) ==
  /\ queue[m] # Empty /\ GivesUp(queue[m].value, queue[m].done)
  /\ Follows(m) /\ Reads
  /\ UNCHANGED <<sim, cache, asked, clicks, mount, toggle, raced, crossed>>

-----------------------------------------------------------------------------
\* The dock's toggle.  Presses queue: one made meanwhile is one made when it is over.

\* A value confirmed in the last seconds is flipped at once, else the simulator is asked.
Press ==
  /\ dock = Resting /\ presses < MaxPresses /\ presses' = presses + 1
  /\ \/ /\ fresh /\ Patch(Opposite[shown]) /\ Asks(Dock, Opposite[shown])
        /\ dock' = [at |-> "setting", known |-> shown, value |-> Opposite[shown], done |-> FALSE]
     \/ /\ dock' = [Resting EXCEPT !.at = "reading"]
        /\ UNCHANGED <<cache, asked, raced>>
  /\ UNCHANGED <<sim, panel, late, reading, troubled, crossed>>

DockReads ==
  /\ dock.at = "reading" /\ dock' = [dock EXCEPT !.at = "read", !.value = sim]
  /\ UNCHANGED <<sim, cache, asked, panel, presses, late, reading, troubled, raced, crossed>>

\* The cache is not touched before the set is over, so a read that began before counts.
DockSends ==
  /\ dock.at = "read" /\ Asks(Dock, Opposite[dock.value])
  /\ dock' = [dock EXCEPT !.at = "setting", !.value = Opposite[dock.value]]
  /\ crossed' = (crossed \/ reads # {})
  /\ UNCHANGED <<sim, cache, panel, presses, late, reading, troubled>>

DockTakesEffect ==
  /\ dock.at = "setting" /\ ~dock.done
  /\ sim' = dock.value /\ dock' = [dock EXCEPT !.done = TRUE]
  /\ UNCHANGED <<cache, asked, panel, presses, late, reading, troubled, raced, crossed>>

DockReturns ==
  /\ dock.done /\ dock' = Resting
  /\ shown' = dock.value /\ fresh' = TRUE
  /\ revision' = IF shown = dock.value THEN revision ELSE revision + 1
  /\ UNCHANGED <<sim, asked, panel, presses, late, reading, troubled, raced, crossed>>

\* The read fails, or the set, and the cached value is taken back if it is still the toggle's.
DockFails ==
  /\ dock # Resting /\ dock' = Resting
  /\ IF dock.at = "setting" THEN GivesUp(dock.value, dock.done) ELSE UNCHANGED <<troubled, late>>
  /\ IF dock.known # None /\ shown = dock.value THEN Patch(dock.known) ELSE UNCHANGED cache
  /\ UNCHANGED <<sim, asked, panel, presses, reading, raced, crossed>>

-----------------------------------------------------------------------------
\* A set that timed out takes effect after all.
LateSet(v) ==
  /\ sim' = v /\ late' = late \ {v}
  /\ UNCHANGED <<cache, asked, panel, toggle, reading, troubled, raced, crossed>>

\* The server reads the simulator.
ReadsSim(r) ==
  /\ r.value = None /\ reads' = (reads \ {r}) \union {[r EXCEPT !.value = sim]}
  /\ UNCHANGED <<sim, cache, asked, panel, toggle, late, count, troubled, raced, crossed>>

\* Mutant: a read is stored whatever was changed since it began.
CurrentAny(r) == TRUE

\* storeSimulatorSettings drops a read that began before a change.
CurrentRead(r) == r.startedAt = revision

\* The read returns its value, or nothing.
ReadReturns(r) ==
  /\ reads' = reads \ {r}
  /\ \/ UNCHANGED <<shown, fresh>>
     \/ r.value # None /\ CurrentRead(r) /\ shown' = r.value /\ fresh' = TRUE
  /\ UNCHANGED <<sim, revision, asked, panel, toggle, late, count, troubled, raced, crossed>>

SettingsNext ==
  \/ \E v \in Values : Click(v)
  \/ \E m \in Mounts : TakesEffect(m) \/ SetReturns(m) \/ SetFails(m)
  \/ Refresh \/ Remount
  \/ Press \/ DockReads \/ DockSends \/ DockTakesEffect \/ DockReturns \/ DockFails
  \/ \E v \in late : LateSet(v)
  \/ \E r \in reads : ReadsSim(r) \/ ReadReturns(r)

SettingsSpec == SettingsInit /\ [][SettingsNext]_stvars

-----------------------------------------------------------------------------
AtRest == Busy = {} /\ dock = Resting /\ reads = {} /\ late = {}

\* Types of the variables.
SettingsTypeOK ==
  /\ {sim, shown, asked} \subseteq Values /\ revision \in Nat
  /\ clicks \in 0..MaxClicks /\ mount \in Mounts /\ presses \in 0..MaxPresses /\ count \in 0..MaxReads
  /\ queue \in [Mounts -> [value : Values \union {None}, done : BOOLEAN, next : Values \union {None}]]
  /\ dock \in [at : {"resting", "reading", "read", "setting"}, known : Values \union {None},
               value : Values \union {None}, done : BOOLEAN]
  /\ late \subseteq Values /\ {fresh, troubled, raced, crossed} \subseteq BOOLEAN
  /\ reads \subseteq [id : 0..MaxReads, startedAt : Nat, value : Values \union {None}]

(***************************************************************************)
(* "Out-of-order completions can't leave the target on a stale value, and  *)
(* no click is lost" (latest-wins.ts:4-5), as far as one queue can see to  *)
(* it: once everything is over, the simulator has the value asked for      *)
(* last, when no set failed and no two writers' sets were in flight at     *)
(* once; and the page shows it, unless a read crossed a set.               *)
(***************************************************************************)
LastSetLands ==
  AtRest /\ ~troubled /\ ~raced => sim = asked /\ (~crossed => shown = sim)

(***************************************************************************)
(* The same with the panel mounted again, or the toggle pressed, while a   *)
(* set is in flight.  It does not hold: the two sets take effect in any    *)
(* order (simulator-settings-tool.tsx:283-286, client.tsx:1284-1294).      *)
(***************************************************************************)
LastClickLands == AtRest /\ ~troubled => sim = asked
=============================================================================
