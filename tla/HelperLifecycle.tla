-------------------------- MODULE HelperLifecycle --------------------------
(***************************************************************************)
(* The commands of the CLI (index.ts, orphan-helpers.ts) start, find and   *)
(* stop one helper process per device.  They share nothing but the process *)
(* table, the ports and one state file per device, and take no lock: each  *)
(* step below is what a command does between two looks at them.  Commands  *)
(* and helpers may die at any point, devices are shut down, state files    *)
(* are swept away.  A command works on one device; the loop over several   *)
(* devices repeats these steps.                                            *)
(***************************************************************************)
EXTENDS Naturals, FiniteSets, FiniteSetsExt

CONSTANTS Devices,    \* simulators
          NoDevice,
          Commands,   \* processes of the CLI that may run at the same time
          Ops,        \* what they are invoked for, of the four in Op
          MaxPid,     \* helpers that can be spawned
          MaxBegun,   \* commands begun, of which as many as Commands run at a time
          MaxFaults   \* deaths, shutdowns, sweeps and crashes

Op == {"detach", "follow", "kill", "killAll"}

ASSUME LifecycleAssumption ==
    /\ Ops \subseteq Op
    /\ MaxPid \in Nat /\ MaxBegun \in Nat /\ MaxFaults \in Nat
    /\ NoDevice \notin Devices

Pids == 1 .. MaxPid
Ports == 1 .. MaxPid + 1   \* a port is used by a helper, so one more is free
None == 0

VARIABLES
    helper,   \* the process table: what becomes of each helper pid
    file,     \* the state file of each device, without what its pid implies
    booted,   \* the devices simctl lists as booted
    cmd,      \* the commands
    begun,    \* commands so far
    faults,   \* faults so far
    calm      \* history: no command overlapped another, none crashed, no file was swept

vars == <<helper, file, booted, cmd, begun, faults, calm>>

-----------------------------------------------------------------------------
\* Helpers.  "loading" has not bound its port yet; a signalled helper still runs.

Alive(p) == p # None /\ helper[p].life \in {"loading", "up"}
Running(p) == Alive(p) /\ ~helper[p].term
Holds(p, port) == helper[p].life = "up" /\ helper[p].port = port
Terminated(procs) ==
    [p \in Pids |-> [helper[p] EXCEPT !.term = @ \/ (p \in procs /\ Alive(p))]]
Killed(procs) == [p \in Pids |-> IF p \in procs THEN [helper[p] EXCEPT !.life = "dead"] ELSE helper[p]]

-----------------------------------------------------------------------------
\* State files.  `view` is the set of devices that are not known to be shut down:
\* simctl's list, or everything when the lookup fails.

Views == {booted, Devices}
NamesLive(d, view) == Alive(file[d]) /\ d \in view
NamedBy(ds, view) == {file[d] : d \in {x \in ds : NamesLive(x, view)}}

\* readStateFile of each device in ds: a file whose helper is gone is dropped, and a
\* helper whose device is shut down is terminated, too.
ReadStates(ds, view) ==
    LET stale == {d \in ds : file[d] # None /\ ~NamesLive(d, view)}
    IN  /\ file' = [d \in Devices |-> IF d \in stale THEN None ELSE file[d]]
        /\ helper' = Terminated({file[d] : d \in stale})

-----------------------------------------------------------------------------
\* Commands.

Fault == faults < MaxFaults /\ faults' = faults + 1

Starts == {"detach", "follow"}
Active(c) == cmd[c].pc \notin {"over", "done"}
Idle == [pc |-> "over", op |-> "kill", dev |-> NoDevice, tracked |-> {},
         port |-> 1, child |-> None, attempt |-> 1, alone |-> FALSE]

Init ==
    /\ helper = [p \in Pids |-> [life |-> "none", dev |-> NoDevice,
                                 port |-> 1, term |-> FALSE]]
    /\ file = [d \in Devices |-> None]
    /\ booted \in SUBSET Devices
    /\ cmd = [c \in Commands |-> Idle]
    /\ begun = 0
    /\ faults = 0
    /\ calm = TRUE

\* The other commands that run are not alone with the machine any more.
Disturbed(c) == [k \in Commands |-> IF k = c THEN cmd[k] ELSE [cmd[k] EXCEPT !.alone = FALSE]]
Goto(c, pc) == cmd' = [Disturbed(c) EXCEPT ![c].pc = pc]
\* "done" is success; a command that failed or crashed is just over.
End(c, pc) == cmd' = [Disturbed(c) EXCEPT ![c] = [Idle EXCEPT !.pc = pc, !.alone = cmd[c].alone]]

Begin(c) ==
    /\ ~Active(c) /\ begun < MaxBegun
    /\ begun' = begun + 1
    /\ \E op \in Ops, d \in Devices :
         cmd' = [Disturbed(c) EXCEPT ![c] =
                   [Idle EXCEPT !.op = op, !.dev = d,
                                !.pc = IF op \in Starts THEN "track" ELSE "read",
                                !.alone = \A k \in Commands : ~Active(k) \/ cmd[k].pc = "following"]]
    /\ calm' = (calm /\ \A k \in Commands : ~Active(k))
    /\ UNCHANGED <<helper, file, booted, faults>>

\* trackedHelperPids: every pid a live state file names.
Track(c) ==
    /\ cmd[c].pc = "track"
    /\ \E view \in Views :
         /\ ReadStates(Devices, view)
         /\ cmd' = [Disturbed(c) EXCEPT ![c].pc = "reap", ![c].tracked = NamedBy(Devices, view)]
    /\ UNCHANGED <<booted, begun, faults, calm>>

\* reapOrphanHelpers: the helpers of the device in the process table that are not tracked.
\* Mutant: only helpers that answer on a port are reaped.
OrphansThatListen(c) ==
    {p \in Pids : helper[p].life = "up" /\ helper[p].dev = cmd[c].dev /\ p \notin cmd[c].tracked}
Orphans(c) == {p \in Pids : Alive(p) /\ helper[p].dev = cmd[c].dev /\ p \notin cmd[c].tracked}
Reap(c) ==
    /\ cmd[c].pc = "reap"
    /\ helper' = Terminated(Orphans(c))
    /\ cmd' = [Disturbed(c) EXCEPT ![c].pc = "read", ![c].tracked = {}]
    /\ UNCHANGED <<file, booted, begun, faults, calm>>

\* listRunningHelpers finds none when ps fails: nothing is reaped, whatever runs.
ReapFails(c) ==
    /\ Fault /\ cmd[c].pc = "reap"
    /\ cmd' = [Disturbed(c) EXCEPT ![c].pc = "read", ![c].tracked = {}, ![c].alone = FALSE]
    /\ UNCHANGED <<helper, file, booted, begun, calm>>

\* A start that finds a live helper is done; the child of a follower is what it started.
Read(c) ==
    /\ cmd[c].pc = "read" /\ cmd[c].op \in Starts
    /\ \E view \in Views :
         /\ ReadStates({cmd[c].dev}, view)
         /\ IF NamesLive(cmd[c].dev, view) THEN End(c, "done") ELSE Goto(c, "port")
    /\ UNCHANGED <<booted, begun, faults, calm>>

\* findAvailablePort: no state file names the port and nothing listens on it.
\* Mutant: a start insists on the first port.
FirstPort(port, view) == TRUE
Available(port, view) ==
    /\ \A p \in NamedBy(Devices, view) : helper[p].port # port
    /\ \A p \in Pids : ~Holds(p, port)
FindAvailablePort(c) ==
    /\ cmd[c].pc = "port"
    /\ \E view \in Views :
         /\ ReadStates(Devices, view)
         /\ cmd' = [Disturbed(c) EXCEPT ![c].pc = "boot",
                      ![c].port = Min({port \in Ports : Available(port, view)})]
    /\ UNCHANGED <<booted, begun, faults, calm>>

EnsureBooted(c) ==
    /\ cmd[c].pc = "boot"
    /\ booted' = booted \cup {cmd[c].dev}
    /\ Goto(c, "spawn")
    /\ UNCHANGED <<helper, file, begun, faults, calm>>

\* requireAlreadyBooted (--attach-only), or a boot that fails.
BootFails(c) ==
    /\ cmd[c].pc = "boot" /\ cmd[c].dev \notin booted
    /\ End(c, "over")
    /\ UNCHANGED <<helper, file, booted, begun, faults, calm>>

\* killPortHolder: whatever listens on the port is killed.
KillPortHolder(c) ==
    /\ cmd[c].pc = "spawn"
    /\ helper' = Killed({p \in Pids : Holds(p, cmd[c].port)})
    /\ Goto(c, "start")
    /\ UNCHANGED <<file, booted, begun, faults, calm>>

Fresh == {p \in Pids : helper[p].life = "none"}
Spawn(c) ==
    /\ cmd[c].pc = "start" /\ Fresh # {}
    /\ LET p == Min(Fresh)
       IN  /\ helper' = [helper EXCEPT ![p] = [life |-> "loading", dev |-> cmd[c].dev,
                                               port |-> cmd[c].port, term |-> FALSE]]
           /\ cmd' = [Disturbed(c) EXCEPT ![c].pc = "wait", ![c].child = p]
    /\ UNCHANGED <<file, booted, begun, faults, calm>>

\* waitForHelperReady: something answers on the port, the log of the device says that
\* capture started (a child still loading after eight seconds is not considered; another
\* helper of the device writes to the same log), and the child is alive.
Ready(c) ==
    /\ cmd[c].pc = "wait" /\ Alive(cmd[c].child)
    /\ \E p \in Pids : Holds(p, cmd[c].port)
    /\ \E p \in Pids : helper[p].life = "up" /\ helper[p].dev = cmd[c].dev
    /\ Goto(c, "write")
    /\ UNCHANGED <<helper, file, booted, begun, faults, calm>>

\* The child is dead, or does not answer in time: stopProcess, which waits for its end,
\* and a second attempt.
\* Mutant: the child of a failed attempt is not stopped.
NotReadyLeavesChild(c) ==
    /\ cmd[c].pc = "wait" /\ helper[cmd[c].child].life # "up"
    /\ IF cmd[c].attempt = 1
       THEN cmd' = [Disturbed(c) EXCEPT ![c].pc = "spawn", ![c].attempt = 2]
       ELSE End(c, "over")
    /\ UNCHANGED <<helper, file, booted, begun, faults, calm>>
NotReady(c) ==
    /\ cmd[c].pc = "wait" /\ helper[cmd[c].child].life # "up"
    /\ helper' = Killed({cmd[c].child})
    /\ IF cmd[c].attempt = 1
       THEN cmd' = [Disturbed(c) EXCEPT ![c].pc = "spawn", ![c].attempt = 2]
       ELSE End(c, "over")
    /\ UNCHANGED <<file, booted, begun, faults, calm>>

\* startHelper records its child.  detach then reads the file again, a follower stays.
WriteState(c) ==
    /\ cmd[c].pc = "write"
    /\ file' = [file EXCEPT ![cmd[c].dev] = cmd[c].child]
    /\ Goto(c, IF cmd[c].op = "detach" THEN "confirm" ELSE "following")
    /\ UNCHANGED <<helper, booted, begun, faults, calm>>

\* detach: readState(udid)!.pid, which throws when there is no such state any more.
Confirm(c) ==
    /\ cmd[c].pc = "confirm"
    /\ \E view \in Views :
         /\ ReadStates({cmd[c].dev}, view)
         /\ End(c, IF NamesLive(cmd[c].dev, view) THEN "done" ELSE "over")
    /\ UNCHANGED <<booted, begun, faults, calm>>

\* A follower whose child exits clears the state file of its device and exits.
ChildExits(c) ==
    /\ cmd[c].pc = "following" /\ ~Alive(cmd[c].child)
    /\ file' = [file EXCEPT ![cmd[c].dev] = None]
    /\ End(c, "done")
    /\ UNCHANGED <<helper, booted, begun, faults, calm>>

\* cleanup, on a signal: stopProcess and clearState.
Interrupt(c) ==
    /\ cmd[c].pc = "following"
    /\ helper' = Killed({cmd[c].child})
    /\ Goto(c, "clear")
    /\ UNCHANGED <<file, booted, begun, faults, calm>>

\* killStreams.
ToKill(c, view) == IF cmd[c].op = "kill" THEN NamedBy({cmd[c].dev}, view) ELSE NamedBy(Devices, view)
KillReads(c) ==
    /\ cmd[c].pc = "read" /\ cmd[c].op \notin Starts
    /\ \E view \in Views :
         /\ ReadStates(IF cmd[c].op = "kill" THEN {cmd[c].dev} ELSE Devices, view)
         /\ IF ToKill(c, view) = {} THEN End(c, "done")
            ELSE cmd' = [Disturbed(c) EXCEPT ![c].pc = "signal", ![c].tracked = ToKill(c, view)]
    /\ UNCHANGED <<booted, begun, faults, calm>>

KillSignals(c) ==
    /\ cmd[c].pc = "signal"
    /\ helper' = Terminated(cmd[c].tracked)
    /\ Goto(c, "clear")
    /\ UNCHANGED <<file, booted, begun, faults, calm>>

\* clearState, of one device or of all.
ClearState(c) ==
    /\ cmd[c].pc = "clear"
    /\ file' = [d \in Devices |-> IF cmd[c].op = "killAll" \/ d = cmd[c].dev THEN None ELSE file[d]]
    /\ End(c, "done")
    /\ UNCHANGED <<helper, booted, begun, faults, calm>>

Command(c) ==
    \/ Begin(c) \/ Track(c) \/ Reap(c) \/ ReapFails(c) \/ Read(c) \/ FindAvailablePort(c)
    \/ EnsureBooted(c) \/ BootFails(c) \/ KillPortHolder(c) \/ Spawn(c)
    \/ Ready(c) \/ NotReady(c) \/ WriteState(c) \/ Confirm(c)
    \/ ChildExits(c) \/ Interrupt(c) \/ KillReads(c) \/ KillSignals(c) \/ ClearState(c)

-----------------------------------------------------------------------------
\* The rest of the machine.

\* --list, the preview server's poll (readServeSimStates), any other reader.
Poll ==
    /\ \E view \in Views : ReadStates(Devices, view)
    /\ <<helper', file'>> # <<helper, file>>
    /\ UNCHANGED <<booted, cmd, begun, faults, calm>>

\* A helper binds its port, or exits because another one holds it.  A start whose port is
\* taken between killPortHolder and its child is not alone any more.
Robbed(p) ==
    [c \in Commands |->
       IF cmd[c].pc \in {"start", "wait"} /\ cmd[c].port = helper[p].port /\ cmd[c].child # p
       THEN [cmd[c] EXCEPT !.alone = FALSE] ELSE cmd[c]]
Bind(p) ==
    /\ helper[p].life = "loading" /\ ~helper[p].term
    /\ IF \E q \in Pids : Holds(q, helper[p].port)
       THEN helper' = Killed({p}) /\ UNCHANGED cmd
       ELSE helper' = [helper EXCEPT ![p].life = "up"] /\ cmd' = Robbed(p)
    /\ UNCHANGED <<file, booted, begun, faults, calm>>

Exit(p) ==
    /\ Alive(p) /\ helper[p].term
    /\ helper' = Killed({p})
    /\ UNCHANGED <<file, booted, cmd, begun, faults, calm>>

AllDisturbed == cmd' = [k \in Commands |-> [cmd[k] EXCEPT !.alone = FALSE]]

HelperDies(p) ==
    /\ Fault /\ Alive(p)
    /\ helper' = Killed({p})
    /\ AllDisturbed
    /\ UNCHANGED <<file, booted, begun, calm>>

Shutdown(d) ==
    /\ Fault /\ d \in booted
    /\ booted' = booted \ {d}
    /\ AllDisturbed
    /\ UNCHANGED <<helper, file, begun, calm>>

Sweep(d) ==
    /\ Fault /\ file[d] # None
    /\ file' = [file EXCEPT ![d] = None]
    /\ AllDisturbed /\ calm' = FALSE
    /\ UNCHANGED <<helper, booted, begun>>

Crash(c) ==
    /\ Fault /\ Active(c)
    /\ End(c, "over")
    /\ calm' = FALSE
    /\ UNCHANGED <<helper, file, booted, begun>>

Next ==
    \/ \E c \in Commands : Command(c) \/ Crash(c)
    \/ \E p \in Pids : Bind(p) \/ Exit(p) \/ HelperDies(p)
    \/ \E d \in Devices : Shutdown(d) \/ Sweep(d)
    \/ Poll

Spec == Init /\ [][Next]_vars

-----------------------------------------------------------------------------
TypeOK ==
    /\ helper \in [Pids -> [life : {"none", "loading", "up", "dead"}, dev : Devices \cup {NoDevice},
                            port : Ports, term : BOOLEAN]]
    /\ file \in [Devices -> Pids \cup {None}]
    /\ booted \subseteq Devices
    /\ cmd \in [Commands -> [pc : {"over", "done", "track", "reap", "read", "port", "boot", "spawn", "start",
                                              "wait", "write", "confirm", "following", "signal", "clear"},
                             op : Op, dev : Devices \cup {NoDevice}, tracked : SUBSET Pids, port : Ports,
                             child : Pids \cup {None}, attempt : 1 .. 2, alone : BOOLEAN]]
    /\ begun \in 0 .. MaxBegun
    /\ faults \in 0 .. MaxFaults
    /\ calm \in BOOLEAN

\* A start that no other command, no fault and no stray helper on its port disturbed cleans
\* up after whatever happened before it: when it succeeds its device has a live helper named
\* by the state file, every other helper of the device is on its way out, and the helper it
\* spawned itself is not.
OneHelperAfterStart ==
    [][\A c \in Commands :
         ( /\ cmd[c].pc \in {"read", "write", "confirm"} /\ cmd[c].op \in Starts
           /\ cmd'[c].alone /\ cmd'[c].pc \in {"done", "following"} )
         => LET p == file'[cmd[c].dev]
            IN  /\ Alive(p) /\ helper[p].dev = cmd[c].dev
                /\ \A q \in Pids \ {p} : helper[q].dev = cmd[c].dev => ~Running(q)
                /\ (p = cmd[c].child => Running(p))]_vars

\* As long as commands run one after the other, and none is killed, no helper is left
\* behind: a helper that runs while no command does is named by its device's state file,
\* through shutdowns, deaths, boots that fail and helpers that do not come up.
SequentialNeverOrphans ==
    (calm /\ \A c \in Commands : ~Active(c))
    => \A p \in Pids : Running(p) => file[helper[p].dev] = p

\* ... and no command harms the helper of a device it was not asked about, unless that
\* device is shut down.
StartsSpareOthers ==
    [][\A p \in Pids : \A c \in Commands :
         ( /\ calm /\ cmd'[c] # cmd[c] /\ cmd[c].op # "killAll" /\ Active(c)
           /\ helper[p].dev # cmd[c].dev /\ helper[p].dev \in booted
           /\ Running(p) )
         => (Alive(p)' => Running(p)') /\ (faults' = faults => Alive(p)')]_vars

\* "Tracked pids are excluded, so the live helper is never a candidate": a start does not
\* reap a helper that another start has just brought up.
LiveHelperNotReaped ==
    [][\A c, k \in Commands :
         (cmd[c].pc = "reap" /\ cmd'[c].pc = "read" /\ k # c /\ cmd[k].pc = "write")
         => (Running(cmd[k].child) => Running(cmd[k].child)')]_vars
=============================================================================
