----------------------- MODULE HelperLifecycleProofs -----------------------
(* The commands of the CLI and the helpers they start, for any number of    *)
(* devices, commands, helpers and faults: types, whose helper is whose,     *)
(* what commands that run one after the other leave behind, and what a      *)
(* start that is left alone achieves.                                       *)
EXTENDS HelperLifecycle, FiniteSetTheorems, WellFoundedInduction, TLAPS

Helper == [life : {"none", "loading", "up", "dead"}, dev : Devices \cup {NoDevice},
           port : Ports, term : BOOLEAN]
Pc == {"over", "done", "track", "reap", "read", "port", "boot", "spawn", "start",
       "wait", "write", "confirm", "following", "signal", "clear"}
Cmd == [pc : Pc, op : Op, dev : Devices \cup {NoDevice}, tracked : SUBSET Pids, port : Ports,
        child : Pids \cup {None}, attempt : 1 .. 2, alone : BOOLEAN]

\* The part of TypeOK that other definitions rest on.
Shape ==
    /\ helper \in [Pids -> Helper]
    /\ file \in [Devices -> Pids \cup {None}]
    /\ cmd \in [Commands -> Cmd]
    /\ booted \subseteq Devices

LEMMA TypeIsShape == TypeOK => Shape
BY DEF TypeOK, Shape, Helper, Cmd, Pc

LEMMA Constants ==
    /\ MaxPid \in Nat /\ MaxBegun \in Nat /\ MaxFaults \in Nat
    /\ None \notin Pids /\ Pids \subseteq Nat /\ Ports \subseteq Nat
    /\ Devices \cap {NoDevice} = {} /\ Ops \subseteq Op
BY LifecycleAssumption DEF None, Pids, Ports

-----------------------------------------------------------------------------
(* Least elements, and a port that is left.                                 *)

Below == {e \in Nat \X Nat : e[1] < e[2]}

LEMMA MinIsLeast ==
    ASSUME NEW S \in SUBSET Nat, S # {}
    PROVE  Min(S) \in S /\ \A y \in S : Min(S) <= y
<1>1. IsWellFoundedOn(Below, Nat)
    BY NatLessThanWellFounded DEF OpToRel, Below
<1>2. PICK x \in S : \A y \in S : ~(<<y, x>> \in Below)
    BY <1>1, WFMin
<1>3. \A y \in S : ~(y < x)
    BY <1>2 DEF Below
<1>4. \A y \in S : x <= y
    BY <1>3
<1> QED
    BY <1>2, <1>4 DEF Min

\* There is a port more than there are helpers.
LEMMA PortLeft ==
    ASSUME helper \in [Pids -> Helper]
    PROVE  \E port \in Ports : \A p \in Pids : helper[p].port # port
<1> SUFFICES ASSUME \A port \in Ports : \E p \in Pids : helper[p].port = port
             PROVE  FALSE
    OBVIOUS
<1> DEFINE user == [port \in Ports |-> CHOOSE p \in Pids : helper[p].port = port]
<1>1. user \in [Ports -> Pids] /\ \A port \in Ports : helper[user[port]].port = port
    OBVIOUS
<1>2. IsFiniteSet(Ports) /\ IsFiniteSet(Pids) /\ Cardinality(Pids) < Cardinality(Ports)
    <2>1. MaxPid \in Nat /\ MaxPid + 1 \in Nat
        BY Constants
    <2>2. IsFiniteSet(1 .. MaxPid) /\ Cardinality(1 .. MaxPid) = MaxPid
        BY <2>1, FS_Interval
    <2>3. IsFiniteSet(1 .. MaxPid + 1) /\ Cardinality(1 .. MaxPid + 1) = MaxPid + 1
        BY <2>1, FS_Interval
    <2> QED
        BY <2>1, <2>2, <2>3 DEF Pids, Ports
<1>3. \E x, y \in Ports : x # y /\ user[x] = user[y]
    <2> HIDE DEF user
    <2> QED
        BY <1>1, <1>2, FS_PigeonHole
<1> QED
    BY <1>1, <1>3

-----------------------------------------------------------------------------
(* What the steps do to the process table, the files and the commands.      *)

\* A step that starts no helper: none gets alive, or loses the signal it got.
Decline ==
    \A p \in Pids :
        /\ helper'[p].dev = helper[p].dev /\ helper'[p].port = helper[p].port
        /\ helper[p].life # "none" => helper'[p].life # "none"
        /\ Alive(p)' => Alive(p)
        /\ Running(p)' => Running(p)
        /\ helper[p].term => helper'[p].term

\* ... and in which none binds its port.
Steady == Decline /\ \A p \in Pids : helper'[p].life = "up" => helper[p].life = "up"

LEMMA SameIsSteady == ASSUME UNCHANGED helper PROVE Steady
BY DEF Steady, Decline, Alive, Running

LEMMA TerminatedShape ==
    ASSUME Shape, NEW S, helper' = Terminated(S)
    PROVE  /\ helper' \in [Pids -> Helper] /\ Steady
           /\ \A p \in Pids : helper'[p].life = helper[p].life
           /\ \A p \in Pids : p \in S => ~Running(p)'
           /\ \A p \in Pids : p \notin S => helper'[p] = helper[p]
<1>1. \A p \in Pids : helper'[p] = [helper[p] EXCEPT !.term = @ \/ (p \in S /\ Alive(p))]
    BY DEF Terminated
<1>2. \A p \in Pids : helper[p] \in Helper /\ helper[p].term \in BOOLEAN
    BY DEF Shape, Helper
<1>3. \A p \in Pids : /\ helper'[p].life = helper[p].life /\ helper'[p].dev = helper[p].dev
                      /\ helper'[p].port = helper[p].port
                      /\ helper'[p].term = (helper[p].term \/ (p \in S /\ Alive(p)))
    BY <1>1, <1>2 DEF Helper
<1>4. \A p \in Pids : p \notin S => helper'[p] = helper[p]
    BY <1>1, <1>2 DEF Helper
<1>5. \A p \in Pids : Alive(p)' <=> Alive(p)
    BY <1>3 DEF Alive
<1>6. \A p \in Pids : (Running(p)' => Running(p)) /\ (p \in S => ~Running(p)') /\ (helper[p].term => helper'[p].term)
    BY <1>3, <1>5, Zenon DEF Running
<1>7. helper' \in [Pids -> Helper]
    <2>1. \A p \in Pids : [helper[p] EXCEPT !.term = @ \/ (p \in S /\ Alive(p))] \in Helper
        BY <1>2 DEF Helper
    <2> QED
        BY <2>1 DEF Terminated
<1> QED
    BY <1>3, <1>4, <1>5, <1>6, <1>7 DEF Steady, Decline

LEMMA KilledShape ==
    ASSUME Shape, NEW S, helper' = Killed(S)
    PROVE  /\ helper' \in [Pids -> Helper] /\ Steady
           /\ \A p \in Pids : p \in S => helper'[p].life = "dead" /\ ~Alive(p)'
           /\ \A p \in Pids : p \notin S => helper'[p] = helper[p]
           /\ \A p \in Pids : helper'[p].term = helper[p].term
<1>1. \A p \in Pids : helper'[p] = IF p \in S THEN [helper[p] EXCEPT !.life = "dead"] ELSE helper[p]
    BY DEF Killed
<1>2. \A p \in Pids : helper[p] \in Helper
    BY DEF Shape
<1>3. \A p \in Pids : /\ helper'[p].dev = helper[p].dev /\ helper'[p].port = helper[p].port
                      /\ helper'[p].term = helper[p].term
                      /\ helper'[p].life = IF p \in S THEN "dead" ELSE helper[p].life
    BY <1>1, <1>2 DEF Helper
<1>4. \A p \in Pids : (Alive(p)' => Alive(p)) /\ (p \in S => ~Alive(p)')
    BY <1>3 DEF Alive
<1>5. \A p \in Pids : Running(p)' => Running(p)
    BY <1>3, <1>4, Zenon DEF Running
<1>6. helper' \in [Pids -> Helper]
    BY <1>2 DEF Killed, Helper
<1> QED
    BY <1>1, <1>3, <1>4, <1>5, <1>6 DEF Steady, Decline

\* readStateFile keeps the files that name a live helper, drops the others it reads, and
\* signals no helper but those of devices that are shut down.
ReadEffect(ds, view) ==
    /\ Steady
    /\ \A p \in Pids : helper'[p].life = helper[p].life
    /\ \A d \in Devices : file'[d] = file[d] \/ file'[d] = None
    /\ \A d \in Devices : NamesLive(d, view) => file'[d] = file[d]
    /\ \A d \in ds : ~NamesLive(d, view) => file'[d] = None
    /\ \A d \in Devices, p \in Pids : file[d] = p /\ file'[d] # p => ~Running(p)'
    /\ \A p \in Pids : Running(p) /\ ~Running(p)' => \E d \in ds : file[d] = p /\ d \notin view

LEMMA ReadShape ==
    ASSUME Shape, NEW view, NEW ds \in SUBSET Devices, ReadStates(ds, view)
    PROVE  /\ helper' \in [Pids -> Helper] /\ file' \in [Devices -> Pids \cup {None}]
           /\ ReadEffect(ds, view)
<1> DEFINE stale == {d \in ds : file[d] # None /\ ~NamesLive(d, view)}
           gone == {file[d] : d \in stale}
<1>1. /\ file' = [d \in Devices |-> IF d \in stale THEN None ELSE file[d]]
      /\ helper' = Terminated(gone)
    BY DEF ReadStates
<1>2. /\ helper' \in [Pids -> Helper] /\ Steady
      /\ \A p \in Pids : helper'[p].life = helper[p].life
      /\ \A p \in Pids : p \in gone => ~Running(p)'
      /\ \A p \in Pids : p \notin gone => helper'[p] = helper[p]
    <2> HIDE DEF gone
    <2> QED
        BY <1>1, TerminatedShape
<1>3. file' \in [Devices -> Pids \cup {None}]
    BY <1>1 DEF Shape
<1>4. /\ \A d \in Devices : file'[d] = file[d] \/ file'[d] = None
      /\ \A d \in Devices : NamesLive(d, view) => file'[d] = file[d]
      /\ \A d \in ds : ~NamesLive(d, view) => file'[d] = None
    BY <1>1
<1>5. \A d \in Devices, p \in Pids : file[d] = p /\ file'[d] # p => ~Running(p)'
    <2> SUFFICES ASSUME NEW d \in Devices, NEW p \in Pids, file[d] = p, file'[d] # p PROVE p \in gone
        BY <1>2
    <2> QED
        BY <1>1
<1>6. \A p \in Pids : Running(p) /\ ~Running(p)' => \E d \in ds : file[d] = p /\ d \notin view
    <2> SUFFICES ASSUME NEW p \in Pids, Running(p), ~Running(p)'
                 PROVE  \E d \in ds : file[d] = p /\ d \notin view
        OBVIOUS
    <2>1. p \in gone
        BY <1>2 DEF Running, Alive
    <2>2. PICK d \in stale : file[d] = p
        BY <2>1
    <2>3. Alive(file[d])
        BY <2>2 DEF Running
    <2> QED
        BY <2>2, <2>3 DEF NamesLive
<1> QED
    BY <1>2, <1>3, <1>4, <1>5, <1>6 DEF ReadEffect

\* The commands other than c only learn that they are not alone.
OthersWait(c) == \A k \in Commands \ {c} : cmd'[k] = [cmd[k] EXCEPT !.alone = FALSE]

LEMMA DisturbedShape ==
    ASSUME Shape, NEW c \in Commands
    PROVE  /\ Disturbed(c) \in [Commands -> Cmd] /\ Disturbed(c)[c] = cmd[c]
           /\ \A k \in Commands \ {c} : Disturbed(c)[k] = [cmd[k] EXCEPT !.alone = FALSE]
<1>1. \A k \in Commands : cmd[k] \in Cmd
    BY DEF Shape
<1>2. \A r \in Cmd : [r EXCEPT !.alone = FALSE] \in Cmd
    BY DEF Cmd
<1> QED
    BY <1>1, <1>2 DEF Disturbed

LEMMA IdleType ==
    ASSUME NEW pc \in Pc, NEW alone \in BOOLEAN
    PROVE  /\ Idle \in Cmd /\ [Idle EXCEPT !.pc = pc, !.alone = alone] \in Cmd
           /\ Idle.child = None /\ Idle.tracked = {}
<1>1. 1 \in Ports /\ "kill" \in Op /\ "over" \in Pc /\ 1 \in 1 .. 2
    BY Constants DEF Ports, Op, Pc
<1>2. Idle \in Cmd
    BY <1>1 DEF Idle, Cmd
<1>3. \A r \in Cmd : [r EXCEPT !.pc = pc, !.alone = alone] \in Cmd
    BY DEF Cmd
<1> QED
    BY <1>2, <1>3 DEF Idle

LEMMA GotoShape ==
    ASSUME Shape, NEW c \in Commands, NEW pc \in Pc, Goto(c, pc)
    PROVE  /\ cmd' \in [Commands -> Cmd] /\ OthersWait(c)
           /\ cmd'[c] = [cmd[c] EXCEPT !.pc = pc]
<1> DEFINE D == Disturbed(c)
<1>1. /\ D \in [Commands -> Cmd] /\ D[c] = cmd[c]
      /\ \A k \in Commands \ {c} : D[k] = [cmd[k] EXCEPT !.alone = FALSE]
    BY DisturbedShape
<1>2. cmd' = [D EXCEPT ![c].pc = pc]
    BY DEF Goto
<1> HIDE DEF D
<1>3. [D[c] EXCEPT !.pc = pc] \in Cmd
    BY <1>1 DEF Cmd
<1> QED
    BY <1>1, <1>2, <1>3 DEF OthersWait

LEMMA EndShape ==
    ASSUME Shape, NEW c \in Commands, NEW pc \in Pc, End(c, pc)
    PROVE  /\ cmd' \in [Commands -> Cmd] /\ OthersWait(c)
           /\ cmd'[c].pc = pc /\ cmd'[c].op = "kill" /\ cmd'[c].alone = cmd[c].alone
<1> DEFINE D == Disturbed(c)
           new == [Idle EXCEPT !.pc = pc, !.alone = cmd[c].alone]
<1>1. /\ D \in [Commands -> Cmd] /\ D[c] = cmd[c]
      /\ \A k \in Commands \ {c} : D[k] = [cmd[k] EXCEPT !.alone = FALSE]
    BY DisturbedShape
<1>2. cmd[c].alone \in BOOLEAN
    BY DEF Shape, Cmd
<1>3. new \in Cmd
    BY <1>2, IdleType
<1>4. new.pc = pc /\ new.op = "kill" /\ new.alone = cmd[c].alone
    BY DEF Idle
<1>5. cmd' = [D EXCEPT ![c] = new]
    BY DEF End
<1> HIDE DEF D, new
<1> QED
    BY <1>1, <1>3, <1>4, <1>5 DEF OthersWait

LEMMA TrackedShape ==
    ASSUME Shape, NEW c \in Commands, NEW pc \in Pc, NEW T \in SUBSET Pids,
           cmd' = [Disturbed(c) EXCEPT ![c].pc = pc, ![c].tracked = T]
    PROVE  /\ cmd' \in [Commands -> Cmd] /\ OthersWait(c)
           /\ cmd'[c] = [cmd[c] EXCEPT !.pc = pc, !.tracked = T]
<1> DEFINE D == Disturbed(c)
<1>1. /\ D \in [Commands -> Cmd] /\ D[c] = cmd[c]
      /\ \A k \in Commands \ {c} : D[k] = [cmd[k] EXCEPT !.alone = FALSE]
    BY DisturbedShape
<1>2. cmd' = [D EXCEPT ![c].pc = pc, ![c].tracked = T]
    OBVIOUS
<1> HIDE DEF D
<1>3. [D[c] EXCEPT !.pc = pc, !.tracked = T] \in Cmd
    BY <1>1 DEF Cmd
<1> QED
    BY <1>1, <1>2, <1>3 DEF OthersWait

LEMMA PortShape ==
    ASSUME Shape, NEW c \in Commands, NEW pc \in Pc, NEW port \in Ports,
           cmd' = [Disturbed(c) EXCEPT ![c].pc = pc, ![c].port = port]
    PROVE  /\ cmd' \in [Commands -> Cmd] /\ OthersWait(c)
           /\ cmd'[c] = [cmd[c] EXCEPT !.pc = pc, !.port = port]
<1> DEFINE D == Disturbed(c)
<1>1. /\ D \in [Commands -> Cmd] /\ D[c] = cmd[c]
      /\ \A k \in Commands \ {c} : D[k] = [cmd[k] EXCEPT !.alone = FALSE]
    BY DisturbedShape
<1>2. cmd' = [D EXCEPT ![c].pc = pc, ![c].port = port]
    OBVIOUS
<1> HIDE DEF D
<1>3. [D[c] EXCEPT !.pc = pc, !.port = port] \in Cmd
    BY <1>1 DEF Cmd
<1> QED
    BY <1>1, <1>2, <1>3 DEF OthersWait

LEMMA ChildShape ==
    ASSUME Shape, NEW c \in Commands, NEW pc \in Pc, NEW p \in Pids,
           cmd' = [Disturbed(c) EXCEPT ![c].pc = pc, ![c].child = p]
    PROVE  /\ cmd' \in [Commands -> Cmd] /\ OthersWait(c)
           /\ cmd'[c] = [cmd[c] EXCEPT !.pc = pc, !.child = p]
<1> DEFINE D == Disturbed(c)
<1>1. /\ D \in [Commands -> Cmd] /\ D[c] = cmd[c]
      /\ \A k \in Commands \ {c} : D[k] = [cmd[k] EXCEPT !.alone = FALSE]
    BY DisturbedShape
<1>2. cmd' = [D EXCEPT ![c].pc = pc, ![c].child = p]
    OBVIOUS
<1> HIDE DEF D
<1>3. [D[c] EXCEPT !.pc = pc, !.child = p] \in Cmd
    BY <1>1 DEF Cmd
<1> QED
    BY <1>1, <1>2, <1>3 DEF OthersWait

LEMMA RetryShape ==
    ASSUME Shape, NEW c \in Commands,
           cmd' = [Disturbed(c) EXCEPT ![c].pc = "spawn", ![c].attempt = 2]
    PROVE  /\ cmd' \in [Commands -> Cmd] /\ OthersWait(c)
           /\ cmd'[c] = [cmd[c] EXCEPT !.pc = "spawn", !.attempt = 2]
<1> DEFINE D == Disturbed(c)
<1>1. /\ D \in [Commands -> Cmd] /\ D[c] = cmd[c]
      /\ \A k \in Commands \ {c} : D[k] = [cmd[k] EXCEPT !.alone = FALSE]
    BY DisturbedShape
<1>2. cmd' = [D EXCEPT ![c].pc = "spawn", ![c].attempt = 2]
    OBVIOUS
<1> HIDE DEF D
<1>3. [D[c] EXCEPT !.pc = "spawn", !.attempt = 2] \in Cmd
    <2>1. 2 \in 1 .. 2 /\ "spawn" \in Pc /\ D[c] \in Cmd
        BY <1>1 DEF Pc
    <2> QED
        BY <2>1 DEF Cmd
<1> QED
    BY <1>1, <1>2, <1>3 DEF OthersWait

-----------------------------------------------------------------------------
(* The actions, by what they do to the state's parts.                       *)

LEMMA NamedByType ==
    ASSUME Shape, NEW ds \in SUBSET Devices, NEW view
    PROVE  /\ NamedBy(ds, view) \in SUBSET Pids
           /\ \A d \in ds : NamesLive(d, view) => file[d] \in NamedBy(ds, view)
           /\ \A p \in NamedBy(ds, view) : \E d \in ds : file[d] = p /\ NamesLive(d, view)
BY DEF Shape, NamedBy, NamesLive, Alive

LEMMA ViewsKnown == ASSUME NEW view \in Views, Shape PROVE booted \subseteq view
BY DEF Views, Shape

LEMMA BeginStep ==
    ASSUME Shape, NEW c \in Commands, Begin(c)
    PROVE  /\ Shape' /\ OthersWait(c) /\ UNCHANGED <<helper, file, booted>> /\ ~Active(c)
           /\ cmd'[c].pc \in {"track", "read"} /\ cmd'[c].dev \in Devices
           /\ cmd'[c].pc = "track" <=> cmd'[c].op \in Starts
           /\ cmd'[c].child = None
           /\ calm' = (calm /\ \A k \in Commands : ~Active(k))
<1>1. PICK op \in Ops, d \in Devices :
         cmd' = [Disturbed(c) EXCEPT ![c] =
                   [Idle EXCEPT !.op = op, !.dev = d,
                                !.pc = IF op \in Starts THEN "track" ELSE "read",
                                !.alone = \A k \in Commands : ~Active(k) \/ cmd[k].pc = "following"]]
    BY DEF Begin
<1> DEFINE D == Disturbed(c)
           alone == \A k \in Commands : ~Active(k) \/ cmd[k].pc = "following"
           pc == IF op \in Starts THEN "track" ELSE "read"
           new == [Idle EXCEPT !.op = op, !.dev = d, !.pc = pc, !.alone = alone]
<1>2. /\ D \in [Commands -> Cmd] /\ D[c] = cmd[c]
      /\ \A k \in Commands \ {c} : D[k] = [cmd[k] EXCEPT !.alone = FALSE]
    BY DisturbedShape
<1>3. /\ Idle \in Cmd /\ Idle.child = None
    <2>1. "over" \in Pc /\ FALSE \in BOOLEAN
        BY DEF Pc
    <2> QED
        BY <2>1, IdleType
<1>4. pc \in Pc /\ op \in Op /\ alone \in BOOLEAN
    BY Constants DEF Pc
<1>5. cmd' = [D EXCEPT ![c] = new]
    BY <1>1
<1>6. new \in Cmd /\ new.pc = pc /\ new.op = op /\ new.dev = d /\ new.child = None
    <2> HIDE DEF pc, alone
    <2> QED
        BY <1>3, <1>4 DEF Cmd
<1> HIDE DEF D, new
<1>7. cmd' \in [Commands -> Cmd] /\ OthersWait(c) /\ cmd'[c] = new
    BY <1>2, <1>5, <1>6 DEF OthersWait
<1>8. Shape'
    BY <1>7 DEF Begin, Shape
<1> QED
    BY <1>6, <1>7, <1>8 DEF Begin

LEMMA TrackStep ==
    ASSUME Shape, NEW c \in Commands, Track(c)
    PROVE  /\ Shape' /\ OthersWait(c) /\ UNCHANGED <<booted, calm>>
           /\ \E view \in Views :
                /\ ReadEffect(Devices, view)
                /\ cmd'[c] = [cmd[c] EXCEPT !.pc = "reap", !.tracked = NamedBy(Devices, view)]
<1>1. PICK view \in Views :
         /\ ReadStates(Devices, view)
         /\ cmd' = [Disturbed(c) EXCEPT ![c].pc = "reap", ![c].tracked = NamedBy(Devices, view)]
    BY DEF Track
<1>2. NamedBy(Devices, view) \in SUBSET Pids /\ "reap" \in Pc
    BY NamedByType DEF Pc
<1>3. /\ cmd' \in [Commands -> Cmd] /\ OthersWait(c)
      /\ cmd'[c] = [cmd[c] EXCEPT !.pc = "reap", !.tracked = NamedBy(Devices, view)]
    BY <1>1, <1>2, TrackedShape
<1>4. /\ helper' \in [Pids -> Helper] /\ file' \in [Devices -> Pids \cup {None}]
      /\ ReadEffect(Devices, view)
    BY <1>1, ReadShape
<1> QED
    BY <1>3, <1>4 DEF Track, Shape

LEMMA ReapStep ==
    ASSUME Shape, NEW c \in Commands, Reap(c)
    PROVE  /\ Shape' /\ OthersWait(c) /\ UNCHANGED <<file, booted, calm>>
           /\ cmd'[c] = [cmd[c] EXCEPT !.pc = "read", !.tracked = {}]
           /\ Steady
           /\ \A p \in Pids : p \in Orphans(c) => ~Running(p)'
           /\ \A p \in Pids : p \notin Orphans(c) => helper'[p] = helper[p]
<1>1. /\ helper' \in [Pids -> Helper] /\ Steady
      /\ \A p \in Pids : p \in Orphans(c) => ~Running(p)'
      /\ \A p \in Pids : p \notin Orphans(c) => helper'[p] = helper[p]
    BY TerminatedShape DEF Reap
<1>2. {} \in SUBSET Pids /\ "read" \in Pc
    BY DEF Pc
<1>3. /\ cmd' \in [Commands -> Cmd] /\ OthersWait(c)
      /\ cmd'[c] = [cmd[c] EXCEPT !.pc = "read", !.tracked = {}]
    <2> DEFINE nobody == {}
    <2>1. nobody \in SUBSET Pids /\ cmd' = [Disturbed(c) EXCEPT ![c].pc = "read", ![c].tracked = nobody]
        BY DEF Reap
    <2> HIDE DEF nobody
    <2>2. /\ cmd' \in [Commands -> Cmd] /\ OthersWait(c)
          /\ cmd'[c] = [cmd[c] EXCEPT !.pc = "read", !.tracked = nobody]
        BY <1>2, <2>1, TrackedShape
    <2> QED
        BY <2>2 DEF nobody
<1> QED
    BY <1>1, <1>3 DEF Reap, Shape

LEMMA ReapFailsStep ==
    ASSUME Shape, NEW c \in Commands, ReapFails(c)
    PROVE  /\ Shape' /\ OthersWait(c) /\ UNCHANGED <<helper, file, booted, calm>>
           /\ cmd[c].pc = "reap"
           /\ cmd'[c].pc = "read" /\ ~cmd'[c].alone
           /\ cmd'[c].op = cmd[c].op /\ cmd'[c].dev = cmd[c].dev /\ cmd'[c].child = cmd[c].child
<1> DEFINE D == Disturbed(c)
           nobody == {}
           told == [[D[c] EXCEPT !.pc = "read", !.tracked = nobody] EXCEPT !.alone = FALSE]
<1>1. /\ D \in [Commands -> Cmd] /\ D[c] = cmd[c]
      /\ \A k \in Commands \ {c} : D[k] = [cmd[k] EXCEPT !.alone = FALSE]
    BY DisturbedShape
<1>2. cmd' = [D EXCEPT ![c].pc = "read", ![c].tracked = nobody, ![c].alone = FALSE]
    BY DEF ReapFails
<1>3. nobody \in SUBSET Pids /\ "read" \in Pc /\ FALSE \in BOOLEAN
    BY DEF Pc
<1> HIDE DEF D, nobody
<1>4. [D[c] EXCEPT !.pc = "read", !.tracked = nobody] \in Cmd
    BY <1>1, <1>3 DEF Cmd
<1>5. /\ told \in Cmd /\ told.pc = "read" /\ ~told.alone
      /\ told.op = D[c].op /\ told.dev = D[c].dev /\ told.child = D[c].child
    BY <1>1, <1>4 DEF Cmd
<1>6. cmd' = [D EXCEPT ![c] = told]
    BY <1>1, <1>2 DEF Cmd
<1> HIDE DEF told
<1>7. cmd' \in [Commands -> Cmd] /\ OthersWait(c) /\ cmd'[c] = told
    BY <1>1, <1>5, <1>6 DEF OthersWait
<1>8. UNCHANGED <<helper, file, booted, calm>> /\ cmd[c].pc = "reap"
    BY DEF ReapFails
<1> QED
    BY <1>1, <1>5, <1>7, <1>8 DEF Shape

LEMMA ReadStep ==
    ASSUME Shape, NEW c \in Commands, Read(c), cmd[c].dev \in Devices
    PROVE  /\ Shape' /\ OthersWait(c) /\ UNCHANGED <<booted, calm>>
           /\ \E view \in Views :
                /\ ReadEffect({cmd[c].dev}, view)
                /\ \/ /\ NamesLive(cmd[c].dev, view)
                      /\ cmd'[c].pc = "done" /\ cmd'[c].op = "kill" /\ cmd'[c].alone = cmd[c].alone
                   \/ /\ ~NamesLive(cmd[c].dev, view)
                      /\ cmd'[c] = [cmd[c] EXCEPT !.pc = "port"]
<1>1. PICK view \in Views :
         /\ ReadStates({cmd[c].dev}, view)
         /\ IF NamesLive(cmd[c].dev, view) THEN End(c, "done") ELSE Goto(c, "port")
    BY DEF Read
<1>2. /\ helper' \in [Pids -> Helper] /\ file' \in [Devices -> Pids \cup {None}]
      /\ ReadEffect({cmd[c].dev}, view)
    BY <1>1, ReadShape
<1>3. "done" \in Pc /\ "port" \in Pc
    BY DEF Pc
<1>4. /\ cmd' \in [Commands -> Cmd] /\ OthersWait(c)
      /\ \/ /\ NamesLive(cmd[c].dev, view)
            /\ cmd'[c].pc = "done" /\ cmd'[c].op = "kill" /\ cmd'[c].alone = cmd[c].alone
         \/ /\ ~NamesLive(cmd[c].dev, view)
            /\ cmd'[c] = [cmd[c] EXCEPT !.pc = "port"]
    BY <1>1, <1>3, EndShape, GotoShape
<1> QED
    BY <1>2, <1>4 DEF Read, Shape

LEMMA PortStep ==
    ASSUME Shape, NEW c \in Commands, FindAvailablePort(c)
    PROVE  /\ Shape' /\ OthersWait(c) /\ UNCHANGED <<booted, calm>>
           /\ \E view \in Views, port \in Ports :
                /\ ReadEffect(Devices, view)
                /\ Available(port, view)
                /\ cmd'[c] = [cmd[c] EXCEPT !.pc = "boot", !.port = port]
<1>1. PICK view \in Views :
         /\ ReadStates(Devices, view)
         /\ cmd' = [Disturbed(c) EXCEPT ![c].pc = "boot",
                      ![c].port = Min({port \in Ports : Available(port, view)})]
    BY DEF FindAvailablePort
<1> DEFINE free == {port \in Ports : Available(port, view)}
<1>2. free \in SUBSET Nat
    BY Constants
<1>3. free # {}
    <2>1. PICK port \in Ports : \A p \in Pids : helper[p].port # port
        BY PortLeft DEF Shape
    <2>2. NamedBy(Devices, view) \in SUBSET Pids
        BY NamedByType
    <2> QED
        BY <2>1, <2>2 DEF Available, Holds
<1>4. Min(free) \in free
    <2> HIDE DEF free
    <2> QED
        BY <1>2, <1>3, MinIsLeast
<1>5. Min(free) \in Ports /\ Available(Min(free), view) /\ "boot" \in Pc
    BY <1>4 DEF Pc
<1>6. cmd' = [Disturbed(c) EXCEPT ![c].pc = "boot", ![c].port = Min(free)]
    BY <1>1
<1> HIDE DEF free
<1>7. /\ cmd' \in [Commands -> Cmd] /\ OthersWait(c)
      /\ cmd'[c] = [cmd[c] EXCEPT !.pc = "boot", !.port = Min(free)]
    BY <1>5, <1>6, PortShape
<1>8. /\ helper' \in [Pids -> Helper] /\ file' \in [Devices -> Pids \cup {None}]
      /\ ReadEffect(Devices, view)
    BY <1>1, ReadShape
<1> QED
    BY <1>5, <1>7, <1>8 DEF FindAvailablePort, Shape

LEMMA EnsureStep ==
    ASSUME Shape, NEW c \in Commands, EnsureBooted(c), cmd[c].dev \in Devices
    PROVE  /\ Shape' /\ OthersWait(c) /\ UNCHANGED <<helper, file, calm>>
           /\ booted' = booted \cup {cmd[c].dev}
           /\ cmd'[c] = [cmd[c] EXCEPT !.pc = "spawn"]
<1>1. "spawn" \in Pc
    BY DEF Pc
<1>2. /\ cmd' \in [Commands -> Cmd] /\ OthersWait(c)
      /\ cmd'[c] = [cmd[c] EXCEPT !.pc = "spawn"]
    BY <1>1, GotoShape DEF EnsureBooted
<1> QED
    BY <1>2 DEF EnsureBooted, Shape

LEMMA BootFailsStep ==
    ASSUME Shape, NEW c \in Commands, BootFails(c)
    PROVE  /\ Shape' /\ OthersWait(c) /\ UNCHANGED <<helper, file, booted, calm>>
           /\ cmd'[c].pc = "over" /\ cmd'[c].op = "kill"
<1>1. "over" \in Pc
    BY DEF Pc
<1>2. cmd' \in [Commands -> Cmd] /\ OthersWait(c) /\ cmd'[c].pc = "over" /\ cmd'[c].op = "kill"
    BY <1>1, EndShape DEF BootFails
<1> QED
    BY <1>2 DEF BootFails, Shape

LEMMA KillHolderStep ==
    ASSUME Shape, NEW c \in Commands, KillPortHolder(c)
    PROVE  /\ Shape' /\ OthersWait(c) /\ UNCHANGED <<file, booted, calm>>
           /\ cmd'[c] = [cmd[c] EXCEPT !.pc = "start"]
           /\ Steady
           /\ \A p \in Pids : ~Holds(p, cmd[c].port)'
           /\ \A p \in Pids : ~Holds(p, cmd[c].port) => helper'[p] = helper[p]
<1> DEFINE S == {p \in Pids : Holds(p, cmd[c].port)}
<1>1. helper' = Killed(S)
    BY DEF KillPortHolder
<1>2. "start" \in Pc
    BY DEF Pc
<1>3. /\ cmd' \in [Commands -> Cmd] /\ OthersWait(c)
      /\ cmd'[c] = [cmd[c] EXCEPT !.pc = "start"]
    BY <1>2, GotoShape DEF KillPortHolder
<1>4. /\ helper' \in [Pids -> Helper] /\ Steady
      /\ \A p \in Pids : p \in S => helper'[p].life = "dead"
      /\ \A p \in Pids : p \notin S => helper'[p] = helper[p]
    <2> HIDE DEF S
    <2> QED
        BY <1>1, KilledShape
<1>5. cmd'[c].port = cmd[c].port
    BY <1>3 DEF Shape, Cmd
<1>6. \A p \in Pids : ~(helper'[p].life = "up" /\ helper'[p].port = cmd[c].port)
    BY <1>4 DEF Holds
<1>7. \A p \in Pids : ~Holds(p, cmd[c].port) => helper'[p] = helper[p]
    BY <1>4
<1> QED
    BY <1>3, <1>4, <1>5, <1>6, <1>7 DEF KillPortHolder, Shape, Holds

\* The child is a helper that was never used.
LEMMA SpawnStep ==
    ASSUME Shape, NEW c \in Commands, Spawn(c)
    PROVE  /\ Shape' /\ OthersWait(c) /\ UNCHANGED <<file, booted, calm>>
           /\ cmd[c].pc = "start"
           /\ \E p \in Pids :
                /\ helper[p].life = "none"
                /\ helper'[p] = [life |-> "loading", dev |-> cmd[c].dev, port |-> cmd[c].port,
                                 term |-> FALSE]
                /\ \A q \in Pids : q # p => helper'[q] = helper[q]
                /\ cmd'[c] = [cmd[c] EXCEPT !.pc = "wait", !.child = p]
<1> DEFINE p == Min(Fresh)
           new == [life |-> "loading", dev |-> cmd[c].dev, port |-> cmd[c].port, term |-> FALSE]
<1>1. Fresh \in SUBSET Nat /\ Fresh # {}
    BY Constants DEF Spawn, Fresh
<1>2. p \in Pids /\ helper[p].life = "none"
    BY <1>1, MinIsLeast DEF Fresh
<1>3. /\ helper' = [helper EXCEPT ![p] = new]
      /\ cmd' = [Disturbed(c) EXCEPT ![c].pc = "wait", ![c].child = p]
      /\ cmd[c].pc = "start" /\ UNCHANGED <<file, booted, calm>>
    BY DEF Spawn
<1>4. new \in Helper
    BY DEF Shape, Cmd, Helper
<1> HIDE DEF p, new
<1>5. "wait" \in Pc
    BY DEF Pc
<1>6. /\ cmd' \in [Commands -> Cmd] /\ OthersWait(c)
      /\ cmd'[c] = [cmd[c] EXCEPT !.pc = "wait", !.child = p]
    BY <1>2, <1>3, <1>5, ChildShape
<1>7. helper' \in [Pids -> Helper] /\ helper'[p] = new /\ \A q \in Pids : q # p => helper'[q] = helper[q]
    BY <1>2, <1>3, <1>4 DEF Shape
<1>8. Shape'
    BY <1>3, <1>6, <1>7 DEF Shape
<1> QED
    BY <1>2, <1>3, <1>6, <1>7, <1>8 DEF new

LEMMA ReadyStep ==
    ASSUME Shape, NEW c \in Commands, Ready(c)
    PROVE  /\ Shape' /\ OthersWait(c) /\ UNCHANGED <<helper, file, booted, calm>>
           /\ cmd'[c] = [cmd[c] EXCEPT !.pc = "write"]
<1>1. "write" \in Pc
    BY DEF Pc
<1>2. /\ cmd' \in [Commands -> Cmd] /\ OthersWait(c)
      /\ cmd'[c] = [cmd[c] EXCEPT !.pc = "write"]
    BY <1>1, GotoShape DEF Ready
<1> QED
    BY <1>2 DEF Ready, Shape

LEMMA NotReadyStep ==
    ASSUME Shape, NEW c \in Commands, NotReady(c)
    PROVE  /\ Shape' /\ OthersWait(c) /\ UNCHANGED <<file, booted, calm>>
           /\ Steady
           /\ \A p \in Pids : p = cmd[c].child => helper'[p].life = "dead" /\ ~Alive(p)'
           /\ \A p \in Pids : p # cmd[c].child => helper'[p] = helper[p]
           /\ \/ cmd'[c] = [cmd[c] EXCEPT !.pc = "spawn", !.attempt = 2]
              \/ cmd'[c].pc = "over" /\ cmd'[c].op = "kill"
<1>1. "over" \in Pc
    BY DEF Pc
<1>2. CASE cmd[c].attempt = 1
    <2>1. /\ cmd' \in [Commands -> Cmd] /\ OthersWait(c)
          /\ cmd'[c] = [cmd[c] EXCEPT !.pc = "spawn", !.attempt = 2]
        BY <1>2, RetryShape DEF NotReady
    <2>2. /\ helper' \in [Pids -> Helper] /\ Steady
          /\ \A p \in Pids : p \in {cmd[c].child} => helper'[p].life = "dead" /\ ~Alive(p)'
          /\ \A p \in Pids : p \notin {cmd[c].child} => helper'[p] = helper[p]
        BY KilledShape DEF NotReady
    <2> QED
        BY <2>1, <2>2 DEF NotReady, Shape
<1>3. CASE cmd[c].attempt # 1
    <2>1. cmd' \in [Commands -> Cmd] /\ OthersWait(c) /\ cmd'[c].pc = "over" /\ cmd'[c].op = "kill"
        BY <1>1, <1>3, EndShape DEF NotReady
    <2>2. /\ helper' \in [Pids -> Helper] /\ Steady
          /\ \A p \in Pids : p \in {cmd[c].child} => helper'[p].life = "dead" /\ ~Alive(p)'
          /\ \A p \in Pids : p \notin {cmd[c].child} => helper'[p] = helper[p]
        BY KilledShape DEF NotReady
    <2> QED
        BY <2>1, <2>2 DEF NotReady, Shape
<1> QED
    BY <1>2, <1>3

LEMMA WriteStep ==
    ASSUME Shape, NEW c \in Commands, WriteState(c), cmd[c].dev \in Devices
    PROVE  /\ Shape' /\ OthersWait(c) /\ UNCHANGED <<helper, booted, calm>>
           /\ file'[cmd[c].dev] = cmd[c].child
           /\ \A d \in Devices : d # cmd[c].dev => file'[d] = file[d]
           /\ \/ cmd[c].op = "detach" /\ cmd'[c] = [cmd[c] EXCEPT !.pc = "confirm"]
              \/ cmd[c].op # "detach" /\ cmd'[c] = [cmd[c] EXCEPT !.pc = "following"]
<1>1. "confirm" \in Pc /\ "following" \in Pc
    BY DEF Pc
<1>2. /\ cmd' \in [Commands -> Cmd] /\ OthersWait(c)
      /\ \/ cmd[c].op = "detach" /\ cmd'[c] = [cmd[c] EXCEPT !.pc = "confirm"]
         \/ cmd[c].op # "detach" /\ cmd'[c] = [cmd[c] EXCEPT !.pc = "following"]
    <2>1. CASE cmd[c].op = "detach"
        BY <1>1, <2>1, GotoShape DEF WriteState
    <2>2. CASE cmd[c].op # "detach"
        BY <1>1, <2>2, GotoShape DEF WriteState
    <2> QED
        BY <2>1, <2>2
<1>3. cmd[c].child \in Pids \cup {None}
    BY DEF Shape, Cmd
<1>4. /\ file' \in [Devices -> Pids \cup {None}] /\ file'[cmd[c].dev] = cmd[c].child
      /\ \A d \in Devices : d # cmd[c].dev => file'[d] = file[d]
    BY <1>3 DEF WriteState, Shape
<1> QED
    BY <1>2, <1>4 DEF WriteState, Shape

LEMMA ConfirmStep ==
    ASSUME Shape, NEW c \in Commands, Confirm(c), cmd[c].dev \in Devices
    PROVE  /\ Shape' /\ OthersWait(c) /\ UNCHANGED <<booted, calm>>
           /\ \E view \in Views :
                /\ ReadEffect({cmd[c].dev}, view)
                /\ cmd'[c].pc = IF NamesLive(cmd[c].dev, view) THEN "done" ELSE "over"
                /\ cmd'[c].op = "kill" /\ cmd'[c].alone = cmd[c].alone
<1>1. PICK view \in Views :
         /\ ReadStates({cmd[c].dev}, view)
         /\ End(c, IF NamesLive(cmd[c].dev, view) THEN "done" ELSE "over")
    BY DEF Confirm
<1> DEFINE pc == IF NamesLive(cmd[c].dev, view) THEN "done" ELSE "over"
<1>2. pc \in Pc
    BY DEF Pc
<1>3. End(c, pc)
    BY <1>1
<1> HIDE DEF pc
<1>4. /\ cmd' \in [Commands -> Cmd] /\ OthersWait(c)
      /\ cmd'[c].pc = pc /\ cmd'[c].op = "kill" /\ cmd'[c].alone = cmd[c].alone
    BY <1>2, <1>3, EndShape
<1>5. /\ helper' \in [Pids -> Helper] /\ file' \in [Devices -> Pids \cup {None}]
      /\ ReadEffect({cmd[c].dev}, view)
    BY <1>1, ReadShape
<1> QED
    BY <1>4, <1>5 DEF Confirm, Shape, pc

LEMMA ChildExitsStep ==
    ASSUME Shape, NEW c \in Commands, ChildExits(c), cmd[c].dev \in Devices
    PROVE  /\ Shape' /\ OthersWait(c) /\ UNCHANGED <<helper, booted, calm>>
           /\ file'[cmd[c].dev] = None
           /\ \A d \in Devices : d # cmd[c].dev => file'[d] = file[d]
           /\ cmd'[c].pc = "done" /\ cmd'[c].op = "kill"
<1>1. "done" \in Pc
    BY DEF Pc
<1>2. cmd' \in [Commands -> Cmd] /\ OthersWait(c) /\ cmd'[c].pc = "done" /\ cmd'[c].op = "kill"
    BY <1>1, EndShape DEF ChildExits
<1> QED
    BY <1>2 DEF ChildExits, Shape

LEMMA InterruptStep ==
    ASSUME Shape, NEW c \in Commands, Interrupt(c)
    PROVE  /\ Shape' /\ OthersWait(c) /\ UNCHANGED <<file, booted, calm>>
           /\ Steady
           /\ \A p \in Pids : p = cmd[c].child => ~Alive(p)'
           /\ \A p \in Pids : p # cmd[c].child => helper'[p] = helper[p]
           /\ cmd'[c] = [cmd[c] EXCEPT !.pc = "clear"]
<1>1. "clear" \in Pc
    BY DEF Pc
<1>2. /\ cmd' \in [Commands -> Cmd] /\ OthersWait(c)
      /\ cmd'[c] = [cmd[c] EXCEPT !.pc = "clear"]
    BY <1>1, GotoShape DEF Interrupt
<1>3. /\ helper' \in [Pids -> Helper] /\ Steady
      /\ \A p \in Pids : p \in {cmd[c].child} => ~Alive(p)'
      /\ \A p \in Pids : p \notin {cmd[c].child} => helper'[p] = helper[p]
    BY KilledShape DEF Interrupt
<1> QED
    BY <1>2, <1>3 DEF Interrupt, Shape

\* The devices whose files a kill reads and clears.
Scope(c) == {d \in Devices : cmd[c].op = "killAll" \/ d = cmd[c].dev}

LEMMA KillReadsStep ==
    ASSUME Shape, NEW c \in Commands, KillReads(c), cmd[c].dev \in Devices
    PROVE  /\ Shape' /\ OthersWait(c) /\ UNCHANGED <<booted, calm>>
           /\ cmd[c].op \in {"kill", "killAll"}
           /\ \E view \in Views :
                /\ ReadEffect(Scope(c), view)
                /\ \/ cmd'[c].pc = "done" /\ cmd'[c].op = "kill"
                   \/ cmd'[c] = [cmd[c] EXCEPT !.pc = "signal", !.tracked = NamedBy(Scope(c), view)]
<1>1. cmd[c].op \in {"kill", "killAll"}
    BY DEF KillReads, Shape, Cmd, Op, Starts
<1>2. /\ Scope(c) = IF cmd[c].op = "kill" THEN {cmd[c].dev} ELSE Devices
      /\ \A view : ToKill(c, view) = NamedBy(Scope(c), view)
    BY <1>1 DEF Scope, ToKill
<1>3. PICK view \in Views :
         /\ ReadStates(Scope(c), view)
         /\ IF ToKill(c, view) = {} THEN End(c, "done")
            ELSE cmd' = [Disturbed(c) EXCEPT ![c].pc = "signal", ![c].tracked = ToKill(c, view)]
    BY <1>2 DEF KillReads
<1>4. Scope(c) \in SUBSET Devices
    BY DEF Scope
<1>5. /\ helper' \in [Pids -> Helper] /\ file' \in [Devices -> Pids \cup {None}]
      /\ ReadEffect(Scope(c), view)
    BY <1>3, <1>4, ReadShape
<1>6. ToKill(c, view) \in SUBSET Pids /\ "done" \in Pc /\ "signal" \in Pc
    BY <1>2, <1>4, NamedByType DEF Pc
<1>7. /\ cmd' \in [Commands -> Cmd] /\ OthersWait(c)
      /\ \/ cmd'[c].pc = "done" /\ cmd'[c].op = "kill"
         \/ cmd'[c] = [cmd[c] EXCEPT !.pc = "signal", !.tracked = ToKill(c, view)]
    <2>1. CASE ToKill(c, view) = {}
        BY <1>3, <1>6, <2>1, EndShape
    <2>2. CASE ToKill(c, view) # {}
        <3> DEFINE targets == ToKill(c, view)
        <3>1. /\ targets \in SUBSET Pids /\ "signal" \in Pc
              /\ cmd' = [Disturbed(c) EXCEPT ![c].pc = "signal", ![c].tracked = targets]
            BY <1>3, <1>6, <2>2
        <3> HIDE DEF targets
        <3>2. /\ cmd' \in [Commands -> Cmd] /\ OthersWait(c)
              /\ cmd'[c] = [cmd[c] EXCEPT !.pc = "signal", !.tracked = targets]
            BY <3>1, TrackedShape
        <3> QED
            BY <3>2 DEF targets
    <2> QED
        BY <2>1, <2>2
<1> QED
    BY <1>1, <1>2, <1>5, <1>7 DEF KillReads, Shape

LEMMA KillSignalsStep ==
    ASSUME Shape, NEW c \in Commands, KillSignals(c)
    PROVE  /\ Shape' /\ OthersWait(c) /\ UNCHANGED <<file, booted, calm>>
           /\ Steady
           /\ \A p \in Pids : p \in cmd[c].tracked => ~Running(p)'
           /\ \A p \in Pids : p \notin cmd[c].tracked => helper'[p] = helper[p]
           /\ \A p \in Pids : helper'[p].life = helper[p].life
           /\ cmd'[c] = [cmd[c] EXCEPT !.pc = "clear"]
<1>1. "clear" \in Pc
    BY DEF Pc
<1>2. /\ cmd' \in [Commands -> Cmd] /\ OthersWait(c)
      /\ cmd'[c] = [cmd[c] EXCEPT !.pc = "clear"]
    BY <1>1, GotoShape DEF KillSignals
<1>3. /\ helper' \in [Pids -> Helper] /\ Steady
      /\ \A p \in Pids : p \in cmd[c].tracked => ~Running(p)'
      /\ \A p \in Pids : p \notin cmd[c].tracked => helper'[p] = helper[p]
      /\ \A p \in Pids : helper'[p].life = helper[p].life
    BY TerminatedShape DEF KillSignals
<1> QED
    BY <1>2, <1>3 DEF KillSignals, Shape

LEMMA ClearStep ==
    ASSUME Shape, NEW c \in Commands, ClearState(c)
    PROVE  /\ Shape' /\ OthersWait(c) /\ UNCHANGED <<helper, booted, calm>>
           /\ \A d \in Devices : file'[d] = IF d \in Scope(c) THEN None ELSE file[d]
           /\ cmd'[c].pc = "done" /\ cmd'[c].op = "kill"
<1>1. "done" \in Pc
    BY DEF Pc
<1>2. cmd' \in [Commands -> Cmd] /\ OthersWait(c) /\ cmd'[c].pc = "done" /\ cmd'[c].op = "kill"
    BY <1>1, EndShape DEF ClearState
<1>3. \A d \in Devices : file'[d] = IF d \in Scope(c) THEN None ELSE file[d]
    BY DEF ClearState, Scope
<1>4. file' \in [Devices -> Pids \cup {None}]
    BY DEF ClearState, Shape
<1> QED
    BY <1>2, <1>3, <1>4 DEF ClearState, Shape

LEMMA CrashStep ==
    ASSUME Shape, NEW c \in Commands, Crash(c)
    PROVE  /\ Shape' /\ OthersWait(c) /\ UNCHANGED <<helper, file, booted>> /\ ~calm'
           /\ cmd'[c].pc = "over" /\ cmd'[c].op = "kill"
<1>1. "over" \in Pc
    BY DEF Pc
<1>2. cmd' \in [Commands -> Cmd] /\ OthersWait(c) /\ cmd'[c].pc = "over" /\ cmd'[c].op = "kill"
    BY <1>1, EndShape DEF Crash
<1> QED
    BY <1>2 DEF Crash, Shape

-----------------------------------------------------------------------------
(* The steps of the machine.  The commands stay where they are.             *)

Stay == \A c \in Commands : cmd'[c] = cmd[c] \/ cmd'[c] = [cmd[c] EXCEPT !.alone = FALSE]
NoneAlone == \A c \in Commands : ~cmd'[c].alone

LEMMA DisturbedAll ==
    ASSUME Shape, AllDisturbed
    PROVE  cmd' \in [Commands -> Cmd] /\ Stay /\ NoneAlone
<1>1. \A r \in Cmd : [r EXCEPT !.alone = FALSE] \in Cmd /\ ~[r EXCEPT !.alone = FALSE].alone
    BY DEF Cmd
<1>2. \A c \in Commands : cmd[c] \in Cmd
    BY DEF Shape
<1> QED
    BY <1>1, <1>2 DEF AllDisturbed, Stay, NoneAlone

LEMMA PollStep ==
    ASSUME Shape, Poll
    PROVE  /\ Shape' /\ UNCHANGED <<booted, cmd, calm>>
           /\ \E view \in Views : ReadEffect(Devices, view)
<1>1. PICK view \in Views : ReadStates(Devices, view)
    BY DEF Poll
<1>2. /\ helper' \in [Pids -> Helper] /\ file' \in [Devices -> Pids \cup {None}]
      /\ ReadEffect(Devices, view)
    BY <1>1, ReadShape
<1> QED
    BY <1>2 DEF Poll, Shape

LEMMA BindStep ==
    ASSUME Shape, NEW p \in Pids, Bind(p)
    PROVE  /\ Shape' /\ UNCHANGED <<file, booted, calm>> /\ Decline /\ Stay
           /\ helper[p].life = "loading" /\ ~helper[p].term
           /\ \A q \in Pids : q # p => helper'[q] = helper[q]
           /\ helper'[p].port = helper[p].port /\ helper'[p].term = helper[p].term
           /\ \/ /\ helper'[p].life = "dead" /\ UNCHANGED cmd
                 /\ \E q \in Pids : Holds(q, helper[p].port)
              \/ /\ helper'[p].life = "up"
                 /\ \A q \in Pids : ~Holds(q, helper[p].port)
                 /\ \A c \in Commands :
                      cmd[c].pc \in {"start", "wait"} /\ cmd[c].port = helper[p].port
                      /\ cmd[c].child # p => ~cmd'[c].alone
<1>1. CASE \E q \in Pids : Holds(q, helper[p].port)
    <2>1. helper' = Killed({p}) /\ UNCHANGED <<file, booted, calm, cmd>>
        BY <1>1 DEF Bind
    <2>2. /\ helper' \in [Pids -> Helper] /\ Steady
          /\ \A q \in Pids : q \in {p} => helper'[q].life = "dead"
          /\ \A q \in Pids : q \notin {p} => helper'[q] = helper[q]
          /\ \A q \in Pids : helper'[q].term = helper[q].term
        BY <2>1, KilledShape
    <2> QED
        BY <1>1, <2>1, <2>2 DEF Shape, Steady, Decline, Stay, Bind
<1>2. CASE \A q \in Pids : ~Holds(q, helper[p].port)
    <2>1. helper' = [helper EXCEPT ![p].life = "up"] /\ UNCHANGED <<file, booted, calm>> /\ cmd' = Robbed(p)
        BY <1>2 DEF Bind
    <2>2. helper[p] \in Helper /\ helper[p].life = "loading" /\ ~helper[p].term
        BY DEF Shape, Bind
    <2>3. /\ helper' \in [Pids -> Helper] /\ \A q \in Pids : q # p => helper'[q] = helper[q]
          /\ helper'[p] = [helper[p] EXCEPT !.life = "up"]
        BY <2>1, <2>2 DEF Shape, Helper
    <2>4. /\ helper'[p].life = "up" /\ helper'[p].port = helper[p].port
          /\ helper'[p].term = helper[p].term /\ helper'[p].dev = helper[p].dev
        BY <2>2, <2>3 DEF Helper
    <2>5. Decline
        BY <2>2, <2>3, <2>4 DEF Decline, Alive, Running
    <2>6. \A c \in Commands : cmd[c] \in Cmd
        BY DEF Shape
    <2>7. \A r \in Cmd : [r EXCEPT !.alone = FALSE] \in Cmd /\ ~[r EXCEPT !.alone = FALSE].alone
        BY DEF Cmd
    <2>8. /\ cmd' \in [Commands -> Cmd] /\ Stay
          /\ \A c \in Commands :
               cmd[c].pc \in {"start", "wait"} /\ cmd[c].port = helper[p].port
               /\ cmd[c].child # p => ~cmd'[c].alone
        BY <2>1, <2>6, <2>7 DEF Robbed, Stay
    <2> QED
        BY <1>2, <2>1, <2>2, <2>3, <2>4, <2>5, <2>8 DEF Shape
<1> QED
    BY <1>1, <1>2

LEMMA ExitStep ==
    ASSUME Shape, NEW p \in Pids, Exit(p)
    PROVE  /\ Shape' /\ UNCHANGED <<file, booted, cmd, calm>> /\ Steady
           /\ Alive(p) /\ helper[p].term
           /\ \A q \in Pids : q # p => helper'[q] = helper[q]
<1>1. /\ helper' \in [Pids -> Helper] /\ Steady
      /\ \A q \in Pids : q \notin {p} => helper'[q] = helper[q]
    BY KilledShape DEF Exit
<1> QED
    BY <1>1 DEF Shape, Exit

LEMMA DiesStep ==
    ASSUME Shape, NEW p \in Pids, HelperDies(p)
    PROVE  /\ Shape' /\ UNCHANGED <<file, booted, calm>> /\ Steady /\ Stay /\ NoneAlone
           /\ ~Alive(p)' /\ \A q \in Pids : q # p => helper'[q] = helper[q]
<1>1. /\ helper' \in [Pids -> Helper] /\ Steady
      /\ \A q \in Pids : q \in {p} => ~Alive(q)'
      /\ \A q \in Pids : q \notin {p} => helper'[q] = helper[q]
    BY KilledShape DEF HelperDies
<1>2. cmd' \in [Commands -> Cmd] /\ Stay /\ NoneAlone
    BY DisturbedAll DEF HelperDies
<1> QED
    BY <1>1, <1>2 DEF Shape, HelperDies

LEMMA ShutdownStep ==
    ASSUME Shape, NEW d \in Devices, Shutdown(d)
    PROVE  Shape' /\ UNCHANGED <<helper, file, calm>> /\ Stay /\ NoneAlone
<1>1. cmd' \in [Commands -> Cmd] /\ Stay /\ NoneAlone
    BY DisturbedAll DEF Shutdown
<1> QED
    BY <1>1 DEF Shape, Shutdown

LEMMA SweepStep ==
    ASSUME Shape, NEW d \in Devices, Sweep(d)
    PROVE  /\ Shape' /\ UNCHANGED <<helper, booted>> /\ Stay /\ NoneAlone /\ ~calm'
           /\ \A x \in Devices : file'[x] = file[x] \/ file'[x] = None
<1>1. cmd' \in [Commands -> Cmd] /\ Stay /\ NoneAlone
    BY DisturbedAll DEF Sweep
<1> QED
    BY <1>1 DEF Shape, Sweep

-----------------------------------------------------------------------------
(* Whose helper is whose: a state file names a helper of its device, and a  *)
(* command's child is a helper of its device.                               *)

Own(p, d) == p \in Pids /\ helper[p].dev = d /\ helper[p].life # "none"
Starting == {"track", "reap", "port", "boot", "spawn", "start", "wait", "write", "confirm", "following"}
Spawned == {"wait", "write", "confirm", "following"}

HelpersOwned == \A p \in Pids : Alive(p) => helper[p].dev \in Devices
FilesOwned == \A d \in Devices : file[d] # None => Own(file[d], d)
CommandOwned(c) ==
    /\ Active(c) => cmd[c].dev \in Devices
    /\ cmd[c].op \in Starts => Active(c)
    /\ cmd[c].pc \in Starting => cmd[c].op \in Starts
    /\ cmd[c].pc = "signal" => cmd[c].op \notin Starts
    /\ cmd[c].pc \in {"track", "reap", "read"} => cmd[c].child = None
    /\ cmd[c].pc \in Spawned => Own(cmd[c].child, cmd[c].dev)
    /\ cmd[c].pc = "signal" /\ cmd[c].op = "kill" => \A p \in cmd[c].tracked : Own(p, cmd[c].dev)
OwnInv == HelpersOwned /\ FilesOwned /\ \A c \in Commands : CommandOwned(c)

\* Helpers stay what they are.
Owners ==
    \A p \in Pids : helper[p].life # "none" => helper'[p].life # "none" /\ helper'[p].dev = helper[p].dev

LEMMA OwnPersists == ASSUME Owners, NEW p, NEW d, Own(p, d) PROVE Own(p, d)'
BY DEF Owners, Own

\* A command that does not move, although others do.
LEMMA WaitingOwned ==
    ASSUME Shape, Owners, NEW k \in Commands, CommandOwned(k),
           cmd'[k] = cmd[k] \/ cmd'[k] = [cmd[k] EXCEPT !.alone = FALSE]
    PROVE  CommandOwned(k)'
<1>1. cmd[k] \in Cmd
    BY DEF Shape
<1>2. /\ cmd'[k].pc = cmd[k].pc /\ cmd'[k].op = cmd[k].op /\ cmd'[k].dev = cmd[k].dev
      /\ cmd'[k].child = cmd[k].child /\ cmd'[k].tracked = cmd[k].tracked
    BY <1>1 DEF Cmd
<1>3. \A p, d : Own(p, d) => Own(p, d)'
    BY OwnPersists
<1> QED
    BY <1>2, <1>3 DEF CommandOwned, Active

LEMMA OwnStays ==
    ASSUME Shape, OwnInv, Decline,
           \A d \in Devices : file'[d] = file[d] \/ file'[d] = None
    PROVE  HelpersOwned' /\ FilesOwned' /\ Owners
<1>1. Owners
    BY DEF Decline, Owners
<1>2. \A p, d : Own(p, d) => Own(p, d)'
    BY <1>1, OwnPersists
<1>3. HelpersOwned'
    BY DEF OwnInv, HelpersOwned, Decline
<1>4. FilesOwned'
    <2> SUFFICES ASSUME NEW d \in Devices, file'[d] # None PROVE Own(file[d], d)'
        BY DEF FilesOwned
    <2>1. file'[d] = file[d] /\ Own(file[d], d)
        BY DEF OwnInv, FilesOwned
    <2> QED
        BY <1>1, <2>1 DEF Own, Owners
<1> QED
    BY <1>1, <1>3, <1>4

\* The step of a command, once its own part and the files are seen to.
LEMMA OwnRest ==
    ASSUME Shape, OwnInv, Owners, NEW c \in Commands, OthersWait(c), CommandOwned(c)',
           HelpersOwned', FilesOwned'
    PROVE  OwnInv'
<1>1. \A k \in Commands \ {c} : CommandOwned(k)'
    BY WaitingOwned DEF OthersWait, OwnInv
<1> QED
    BY <1>1 DEF OwnInv

\* A command that moves on or ends, while helpers decline and files go.
LEMMA OwnMoves ==
    ASSUME Shape, OwnInv, Decline, \A d \in Devices : file'[d] = file[d] \/ file'[d] = None,
           NEW c \in Commands, OthersWait(c), CommandOwned(c)'
    PROVE  OwnInv'
BY OwnStays, OwnRest

LEMMA EndOwned ==
    ASSUME NEW c \in Commands, cmd'[c].pc \in {"over", "done"}, cmd'[c].op = "kill"
    PROVE  CommandOwned(c)'
BY DEF CommandOwned, Active, Starting, Spawned, Starts

LEMMA OwnCommand ==
    ASSUME Shape, OwnInv, NEW c \in Commands, Command(c) \/ Crash(c)
    PROVE  OwnInv'
<1>0. /\ cmd[c] \in Cmd /\ CommandOwned(c) /\ (Active(c) => cmd[c].dev \in Devices)
      /\ (UNCHANGED helper => Decline) /\ (Steady => Decline)
      /\ (UNCHANGED file => \A d \in Devices : file'[d] = file[d] \/ file'[d] = None)
    BY SameIsSteady DEF Shape, OwnInv, CommandOwned, Steady
<1>00. ASSUME Decline, NEW p, NEW d, Own(p, d) PROVE Own(p, d)'
    BY <1>00 DEF Own, Decline
<1>1. CASE Begin(c)
    <2>1. CommandOwned(c)'
        BY <1>1, BeginStep DEF CommandOwned, Active, Starting, Spawned, Starts
    <2> QED
        BY <1>0, <1>1, <2>1, BeginStep, OwnMoves
<1>2. CASE Track(c)
    <2>1. cmd[c].op \in Starts /\ cmd[c].child = None /\ cmd[c].dev \in Devices /\ cmd[c].pc = "track"
        BY <1>0, <1>2 DEF Track, CommandOwned, Active, Starting
    <2>2. PICK view \in Views :
                /\ ReadEffect(Devices, view)
                /\ cmd'[c] = [cmd[c] EXCEPT !.pc = "reap", !.tracked = NamedBy(Devices, view)]
        BY <1>2, TrackStep
    <2>3. /\ cmd'[c].pc = "reap" /\ cmd'[c].op = cmd[c].op /\ cmd'[c].dev = cmd[c].dev
          /\ cmd'[c].child = cmd[c].child
        BY <1>0, <2>2 DEF Cmd
    <2>4. CommandOwned(c)'
        BY <2>1, <2>3 DEF CommandOwned, Active, Starting, Spawned
    <2> QED
        BY <1>0, <1>2, <2>2, <2>4, TrackStep, OwnMoves DEF ReadEffect
<1>3. CASE Reap(c)
    <2>1. cmd[c].op \in Starts /\ cmd[c].child = None /\ cmd[c].dev \in Devices /\ cmd[c].pc = "reap"
        BY <1>0, <1>3 DEF Reap, CommandOwned, Active, Starting
    <2>2. cmd'[c] = [cmd[c] EXCEPT !.pc = "read", !.tracked = {}]
        BY <1>3, ReapStep
    <2>3. /\ cmd'[c].pc = "read" /\ cmd'[c].op = cmd[c].op /\ cmd'[c].dev = cmd[c].dev
          /\ cmd'[c].child = cmd[c].child
        BY <1>0, <2>2 DEF Cmd
    <2>4. CommandOwned(c)'
        BY <2>1, <2>3 DEF CommandOwned, Active, Starting, Spawned
    <2> QED
        BY <1>0, <1>3, <2>4, ReapStep, OwnMoves
<1>4. CASE Read(c)
    <2>1. cmd[c].op \in Starts /\ cmd[c].child = None /\ cmd[c].dev \in Devices /\ cmd[c].pc = "read"
        BY <1>0, <1>4 DEF Read, CommandOwned, Active, Starting
    <2>2. PICK view \in Views :
                /\ ReadEffect({cmd[c].dev}, view)
                /\ \/ cmd'[c].pc = "done" /\ cmd'[c].op = "kill"
                   \/ cmd'[c] = [cmd[c] EXCEPT !.pc = "port"]
        BY <1>4, <2>1, ReadStep
    <2>3. ASSUME cmd'[c] = [cmd[c] EXCEPT !.pc = "port"]
          PROVE  CommandOwned(c)'
        <3>1. cmd'[c].pc = "port" /\ cmd'[c].op = cmd[c].op /\ cmd'[c].dev = cmd[c].dev
            BY <1>0, <2>3 DEF Cmd
        <3> QED
            BY <2>1, <3>1 DEF CommandOwned, Active, Starting, Spawned
    <2>4. CommandOwned(c)'
        BY <2>2, <2>3, EndOwned
    <2> QED
        BY <1>0, <1>4, <2>1, <2>2, <2>4, ReadStep, OwnMoves DEF ReadEffect
<1>5. CASE FindAvailablePort(c)
    <2>1. cmd[c].op \in Starts /\ cmd[c].dev \in Devices /\ cmd[c].pc = "port"
        BY <1>0, <1>5 DEF FindAvailablePort, CommandOwned, Active, Starting
    <2>2. PICK view \in Views, port \in Ports :
                ReadEffect(Devices, view) /\ cmd'[c] = [cmd[c] EXCEPT !.pc = "boot", !.port = port]
        BY <1>5, PortStep
    <2>3. cmd'[c].pc = "boot" /\ cmd'[c].op = cmd[c].op /\ cmd'[c].dev = cmd[c].dev
        BY <1>0, <2>2 DEF Cmd
    <2>4. CommandOwned(c)'
        BY <2>1, <2>3 DEF CommandOwned, Active, Starting, Spawned
    <2> QED
        BY <1>0, <1>5, <2>2, <2>4, PortStep, OwnMoves DEF ReadEffect
<1>6. CASE EnsureBooted(c)
    <2>1. cmd[c].op \in Starts /\ cmd[c].dev \in Devices /\ cmd[c].pc = "boot"
        BY <1>0, <1>6 DEF EnsureBooted, CommandOwned, Active, Starting
    <2>2. cmd'[c] = [cmd[c] EXCEPT !.pc = "spawn"]
        BY <1>6, <2>1, EnsureStep
    <2>3. cmd'[c].pc = "spawn" /\ cmd'[c].op = cmd[c].op /\ cmd'[c].dev = cmd[c].dev
        BY <1>0, <2>2 DEF Cmd
    <2>4. CommandOwned(c)'
        BY <2>1, <2>3 DEF CommandOwned, Active, Starting, Spawned
    <2> QED
        BY <1>0, <1>6, <2>1, <2>4, EnsureStep, OwnMoves
<1>7. CASE BootFails(c)
    BY <1>0, <1>7, BootFailsStep, EndOwned, OwnMoves
<1>8. CASE KillPortHolder(c)
    <2>1. cmd[c].op \in Starts /\ cmd[c].dev \in Devices /\ cmd[c].pc = "spawn"
        BY <1>0, <1>8 DEF KillPortHolder, CommandOwned, Active, Starting
    <2>2. cmd'[c] = [cmd[c] EXCEPT !.pc = "start"]
        BY <1>8, KillHolderStep
    <2>3. cmd'[c].pc = "start" /\ cmd'[c].op = cmd[c].op /\ cmd'[c].dev = cmd[c].dev
        BY <1>0, <2>2 DEF Cmd
    <2>4. CommandOwned(c)'
        BY <2>1, <2>3 DEF CommandOwned, Active, Starting, Spawned
    <2> QED
        BY <1>0, <1>8, <2>4, KillHolderStep, OwnMoves
<1>9. CASE Spawn(c)
    <2>1. cmd[c].op \in Starts /\ cmd[c].dev \in Devices /\ cmd[c].pc = "start"
        BY <1>0, <1>9 DEF Spawn, CommandOwned, Active, Starting
    <2>2. PICK p \in Pids :
                /\ helper[p].life = "none"
                /\ helper'[p] = [life |-> "loading", dev |-> cmd[c].dev, port |-> cmd[c].port,
                                 term |-> FALSE]
                /\ \A q \in Pids : q # p => helper'[q] = helper[q]
                /\ cmd'[c] = [cmd[c] EXCEPT !.pc = "wait", !.child = p]
        BY <1>9, SpawnStep
    <2>3. /\ cmd'[c].pc = "wait" /\ cmd'[c].op = cmd[c].op /\ cmd'[c].dev = cmd[c].dev
          /\ cmd'[c].child = p
        BY <1>0, <2>2 DEF Cmd
    <2>4. helper'[p].life = "loading" /\ helper'[p].dev = cmd[c].dev
        BY <2>2
    <2>5. CommandOwned(c)'
        BY <2>1, <2>3, <2>4 DEF CommandOwned, Active, Starting, Spawned, Own
    <2>6. Owners
        BY <2>2 DEF Owners
    <2>7. HelpersOwned'
        BY <2>1, <2>2, <2>4 DEF OwnInv, HelpersOwned, Alive
    <2>8. FilesOwned'
        <3>1. file' = file
            BY <1>9, SpawnStep
        <3> QED
            BY <2>6, <3>1 DEF OwnInv, FilesOwned, Own, Owners
    <2> QED
        BY <1>9, <2>5, <2>6, <2>7, <2>8, SpawnStep, OwnRest
<1>10. CASE Ready(c)
    <2>1. /\ cmd[c].op \in Starts /\ cmd[c].dev \in Devices /\ cmd[c].pc = "wait"
          /\ Own(cmd[c].child, cmd[c].dev)
        BY <1>0, <1>10 DEF Ready, CommandOwned, Active, Starting, Spawned
    <2>2. cmd'[c] = [cmd[c] EXCEPT !.pc = "write"] /\ helper' = helper
        BY <1>10, ReadyStep
    <2>3. /\ cmd'[c].pc = "write" /\ cmd'[c].op = cmd[c].op /\ cmd'[c].dev = cmd[c].dev
          /\ cmd'[c].child = cmd[c].child
        BY <1>0, <2>2 DEF Cmd
    <2>4. CommandOwned(c)'
        BY <2>1, <2>2, <2>3 DEF CommandOwned, Active, Starting, Spawned, Own
    <2> QED
        BY <1>0, <1>10, <2>4, ReadyStep, OwnMoves
<1>11. CASE NotReady(c)
    <2>1. cmd[c].op \in Starts /\ cmd[c].dev \in Devices /\ cmd[c].pc = "wait"
        BY <1>0, <1>11 DEF NotReady, CommandOwned, Active, Starting
    <2>2. \/ cmd'[c] = [cmd[c] EXCEPT !.pc = "spawn", !.attempt = 2]
          \/ cmd'[c].pc = "over" /\ cmd'[c].op = "kill"
        BY <1>11, NotReadyStep
    <2>3. ASSUME cmd'[c] = [cmd[c] EXCEPT !.pc = "spawn", !.attempt = 2]
          PROVE  CommandOwned(c)'
        <3>1. cmd'[c].pc = "spawn" /\ cmd'[c].op = cmd[c].op /\ cmd'[c].dev = cmd[c].dev
            BY <1>0, <2>3 DEF Cmd
        <3> QED
            BY <2>1, <3>1 DEF CommandOwned, Active, Starting, Spawned
    <2>4. CommandOwned(c)'
        BY <2>2, <2>3, EndOwned
    <2> QED
        BY <1>0, <1>11, <2>4, NotReadyStep, OwnMoves
<1>12. CASE WriteState(c)
    <2>1. /\ cmd[c].op \in Starts /\ cmd[c].dev \in Devices /\ cmd[c].pc = "write"
          /\ Own(cmd[c].child, cmd[c].dev)
        BY <1>0, <1>12 DEF WriteState, CommandOwned, Active, Starting, Spawned
    <2>2. /\ helper' = helper /\ file'[cmd[c].dev] = cmd[c].child /\ OthersWait(c)
          /\ \A d \in Devices : d # cmd[c].dev => file'[d] = file[d]
          /\ \/ cmd'[c] = [cmd[c] EXCEPT !.pc = "confirm"]
             \/ cmd'[c] = [cmd[c] EXCEPT !.pc = "following"]
        BY <1>12, <2>1, WriteStep
    <2>3. /\ cmd'[c].pc \in {"confirm", "following"} /\ cmd'[c].op = cmd[c].op
          /\ cmd'[c].dev = cmd[c].dev /\ cmd'[c].child = cmd[c].child
        BY <1>0, <2>2 DEF Cmd
    <2>4. CommandOwned(c)'
        BY <2>1, <2>2, <2>3 DEF CommandOwned, Active, Starting, Spawned, Own
    <2>5. Owners
        BY <2>2 DEF Owners
    <2>6. HelpersOwned'
        BY <2>2 DEF OwnInv, HelpersOwned, Alive
    <2>7. FilesOwned'
        BY <2>1, <2>2 DEF OwnInv, FilesOwned, Own
    <2> QED
        BY <2>2, <2>4, <2>5, <2>6, <2>7, OwnRest
<1>13. CASE Confirm(c)
    <2>1. cmd[c].dev \in Devices
        BY <1>0, <1>13 DEF Confirm, Active
    <2>2. PICK view \in Views : ReadEffect({cmd[c].dev}, view)
        BY <1>13, <2>1, ConfirmStep
    <2>3. cmd'[c].pc \in {"over", "done"} /\ cmd'[c].op = "kill" /\ OthersWait(c)
        BY <1>13, <2>1, ConfirmStep
    <2> QED
        BY <1>0, <2>2, <2>3, EndOwned, OwnMoves DEF ReadEffect
<1>14. CASE ChildExits(c)
    <2>1. cmd[c].dev \in Devices
        BY <1>0, <1>14 DEF ChildExits, Active
    <2>2. /\ cmd'[c].pc \in {"over", "done"} /\ cmd'[c].op = "kill" /\ OthersWait(c) /\ UNCHANGED helper
          /\ \A d \in Devices : file'[d] = file[d] \/ file'[d] = None
        BY <1>14, <2>1, ChildExitsStep
    <2> QED
        BY <1>0, <2>2, EndOwned, OwnMoves
<1>15. CASE Interrupt(c)
    <2>1. cmd[c].dev \in Devices /\ cmd[c].op \in Starts
        BY <1>0, <1>15 DEF Interrupt, CommandOwned, Active, Starting
    <2>2. cmd'[c] = [cmd[c] EXCEPT !.pc = "clear"]
        BY <1>15, InterruptStep
    <2>3. cmd'[c].pc = "clear" /\ cmd'[c].op = cmd[c].op /\ cmd'[c].dev = cmd[c].dev
        BY <1>0, <2>2 DEF Cmd
    <2>4. CommandOwned(c)'
        BY <2>1, <2>3 DEF CommandOwned, Active, Starting, Spawned
    <2> QED
        BY <1>0, <1>15, <2>4, InterruptStep, OwnMoves
<1>16. CASE KillReads(c)
    <2>1. cmd[c].dev \in Devices /\ cmd[c].op \notin Starts
        BY <1>0, <1>16 DEF KillReads, CommandOwned, Active
    <2>2. PICK view \in Views :
                /\ ReadEffect(Scope(c), view)
                /\ \/ cmd'[c].pc = "done" /\ cmd'[c].op = "kill"
                   \/ cmd'[c] = [cmd[c] EXCEPT !.pc = "signal", !.tracked = NamedBy(Scope(c), view)]
        BY <1>16, <2>1, KillReadsStep
    <2>3. ASSUME cmd'[c] = [cmd[c] EXCEPT !.pc = "signal", !.tracked = NamedBy(Scope(c), view)]
          PROVE  CommandOwned(c)'
        <3>1. /\ cmd'[c].pc = "signal" /\ cmd'[c].op = cmd[c].op /\ cmd'[c].dev = cmd[c].dev
              /\ cmd'[c].tracked = NamedBy(Scope(c), view)
            BY <1>0, <2>3 DEF Cmd
        <3>2. ASSUME cmd[c].op = "kill", NEW p \in NamedBy(Scope(c), view) PROVE Own(p, cmd[c].dev)'
            <4>1. Scope(c) \in SUBSET Devices
                BY DEF Scope
            <4>2. PICK d \in Scope(c) : file[d] = p /\ NamesLive(d, view)
                BY <4>1, NamedByType
            <4>3. d = cmd[c].dev /\ d \in Devices /\ p # None
                BY <3>2, <4>2 DEF Scope, NamesLive, Alive
            <4>4. Own(p, cmd[c].dev)
                BY <4>2, <4>3 DEF OwnInv, FilesOwned
            <4>5. helper'[p].dev = helper[p].dev /\ (helper[p].life # "none" => helper'[p].life # "none")
                BY <2>2, <4>4 DEF ReadEffect, Steady, Decline, Own
            <4>6. cmd'[c].dev = cmd[c].dev
                BY <3>1
            <4> QED
                BY <4>4, <4>5, <4>6 DEF Own
        <3> QED
            BY <2>1, <3>1, <3>2 DEF CommandOwned, Active, Starting, Spawned
    <2>4. CommandOwned(c)'
        BY <2>2, <2>3, EndOwned
    <2> QED
        BY <1>0, <1>16, <2>1, <2>2, <2>4, KillReadsStep, OwnMoves DEF ReadEffect
<1>17. CASE KillSignals(c)
    <2>1. cmd[c].dev \in Devices /\ cmd[c].op \notin Starts
        BY <1>0, <1>17 DEF KillSignals, CommandOwned, Active
    <2>2. cmd'[c] = [cmd[c] EXCEPT !.pc = "clear"]
        BY <1>17, KillSignalsStep
    <2>3. cmd'[c].pc = "clear" /\ cmd'[c].op = cmd[c].op /\ cmd'[c].dev = cmd[c].dev
        BY <1>0, <2>2 DEF Cmd
    <2>4. CommandOwned(c)'
        BY <2>1, <2>3 DEF CommandOwned, Active, Starting, Spawned
    <2> QED
        BY <1>0, <1>17, <2>4, KillSignalsStep, OwnMoves
<1>18. CASE ClearState(c)
    BY <1>0, <1>18, ClearStep, EndOwned, OwnMoves
<1>19. CASE Crash(c)
    BY <1>0, <1>19, CrashStep, EndOwned, OwnMoves
<1>20. CASE ReapFails(c)
    <2>1. /\ cmd[c].op \in Starts /\ cmd[c].child = None /\ cmd[c].dev \in Devices /\ cmd[c].pc = "reap"
          /\ cmd'[c].pc = "read" /\ cmd'[c].op = cmd[c].op /\ cmd'[c].dev = cmd[c].dev
          /\ cmd'[c].child = cmd[c].child
        BY <1>0, <1>20, ReapFailsStep DEF CommandOwned, Active, Starting
    <2>2. CommandOwned(c)'
        BY <2>1 DEF CommandOwned, Active, Starting, Spawned
    <2> QED
        BY <1>0, <1>20, <2>2, ReapFailsStep, OwnMoves
<1> QED
    BY <1>1, <1>2, <1>3, <1>4, <1>5, <1>6, <1>7, <1>8, <1>9, <1>10, <1>11, <1>12, <1>13, <1>14,
       <1>15, <1>16, <1>17, <1>18, <1>19, <1>20 DEF Command

\* The commands stay where they are.
LEMMA OwnAround ==
    ASSUME Shape, OwnInv, Decline, Stay,
           \A d \in Devices : file'[d] = file[d] \/ file'[d] = None
    PROVE  OwnInv'
<1>1. HelpersOwned' /\ FilesOwned' /\ Owners
    BY OwnStays
<1>2. \A c \in Commands : CommandOwned(c)'
    BY <1>1, WaitingOwned DEF OwnInv, Stay
<1> QED
    BY <1>1, <1>2 DEF OwnInv

Machine ==
    \/ \E p \in Pids : Bind(p) \/ Exit(p) \/ HelperDies(p)
    \/ \E d \in Devices : Shutdown(d) \/ Sweep(d)
    \/ Poll

\* What the steps of the machine have in common.
LEMMA MachineStep ==
    ASSUME Shape, Machine
    PROVE  /\ Shape' /\ Decline /\ Stay
           /\ \A d \in Devices : file'[d] = file[d] \/ file'[d] = None
           /\ calm' => /\ calm
                       /\ \A d \in Devices, p \in Pids : file[d] = p /\ file'[d] # p => ~Running(p)'
<1>0. /\ (Steady => Decline) /\ (UNCHANGED helper => Decline)
      /\ (UNCHANGED cmd => Stay)
    BY SameIsSteady DEF Steady, Stay
<1>1. ASSUME NEW p \in Pids, Bind(p) PROVE Shape' /\ Decline /\ Stay /\ UNCHANGED <<file, calm>>
    BY <1>1, BindStep
<1>2. ASSUME NEW p \in Pids, Exit(p) PROVE Shape' /\ Decline /\ Stay /\ UNCHANGED <<file, calm>>
    BY <1>0, <1>2, ExitStep
<1>3. ASSUME NEW p \in Pids, HelperDies(p) PROVE Shape' /\ Decline /\ Stay /\ UNCHANGED <<file, calm>>
    BY <1>0, <1>3, DiesStep
<1>4. ASSUME NEW d \in Devices, Shutdown(d) PROVE Shape' /\ Decline /\ Stay /\ UNCHANGED <<file, calm>>
    BY <1>0, <1>4, ShutdownStep
<1>5. ASSUME NEW d \in Devices, Sweep(d)
      PROVE  Shape' /\ Decline /\ Stay /\ ~calm' /\ \A x \in Devices : file'[x] = file[x] \/ file'[x] = None
    BY <1>0, <1>5, SweepStep
<1>6. ASSUME Poll
      PROVE  /\ Shape' /\ Decline /\ Stay /\ UNCHANGED calm
             /\ \A d \in Devices : file'[d] = file[d] \/ file'[d] = None
             /\ \A d \in Devices, p \in Pids : file[d] = p /\ file'[d] # p => ~Running(p)'
    BY <1>0, <1>6, PollStep DEF ReadEffect
<1> QED
    BY <1>1, <1>2, <1>3, <1>4, <1>5, <1>6 DEF Machine

LEMMA NextCases == Next <=> (\E c \in Commands : Command(c) \/ Crash(c)) \/ Machine
BY DEF Next, Machine

LEMMA CommandTypes ==
    ASSUME Shape, OwnInv, NEW c \in Commands, Command(c) \/ Crash(c)
    PROVE  Shape' /\ OthersWait(c)
<1>1. Active(c) => cmd[c].dev \in Devices
    BY DEF OwnInv, CommandOwned
<1>2. Read(c) \/ EnsureBooted(c) \/ WriteState(c) \/ Confirm(c) \/ ChildExits(c) \/ KillReads(c) => Active(c)
    BY DEF Read, EnsureBooted, WriteState, Confirm, ChildExits, KillReads, Active
<1> QED
    BY <1>1, <1>2, BeginStep, TrackStep, ReapStep, ReapFailsStep, ReadStep, PortStep, EnsureStep, BootFailsStep,
       KillHolderStep, SpawnStep, ReadyStep, NotReadyStep, WriteStep, ConfirmStep, ChildExitsStep,
       InterruptStep, KillReadsStep, KillSignalsStep, ClearStep, CrashStep DEF Command

LEMMA InitTypes == Init => TypeOK /\ OwnInv
<1> SUFFICES ASSUME Init PROVE TypeOK /\ OwnInv
    OBVIOUS
<1>1. "over" \in Pc /\ FALSE \in BOOLEAN /\ 1 \in Ports
    BY Constants DEF Pc, Ports
<1>2. Idle \in Cmd
    BY <1>1, IdleType
<1>3. [life |-> "none", dev |-> NoDevice, port |-> 1, term |-> FALSE] \in Helper
    BY <1>1 DEF Helper
<1>4. helper \in [Pids -> Helper] /\ cmd \in [Commands -> Cmd] /\ file \in [Devices -> Pids \cup {None}]
    BY <1>2, <1>3 DEF Init
<1>5. begun \in 0 .. MaxBegun /\ faults \in 0 .. MaxFaults /\ calm \in BOOLEAN /\ booted \subseteq Devices
    BY Constants DEF Init
<1>6. TypeOK
    BY <1>4, <1>5 DEF TypeOK, Helper, Cmd, Pc
<1>7. OwnInv
    BY DEF Init, Idle, OwnInv, HelpersOwned, FilesOwned, CommandOwned, Alive, Active, Starting, Spawned, Starts
<1> QED
    BY <1>6, <1>7

LEMMA CountersStay ==
    ASSUME TypeOK, Next
    PROVE  begun' \in 0 .. MaxBegun /\ faults' \in 0 .. MaxFaults /\ calm' \in BOOLEAN
<1>0. /\ begun \in 0 .. MaxBegun /\ faults \in 0 .. MaxFaults /\ calm \in BOOLEAN
      /\ MaxBegun \in Nat /\ MaxFaults \in Nat
    BY Constants DEF TypeOK
<1>1. ASSUME NEW c \in Commands, Begin(c)
      PROVE  begun' \in 0 .. MaxBegun /\ UNCHANGED faults /\ calm' \in BOOLEAN
    <2>1. begun < MaxBegun /\ begun' = begun + 1 /\ UNCHANGED faults
        BY <1>1 DEF Begin
    <2>2. begun' \in 0 .. MaxBegun
        BY <1>0, <2>1
    <2>3. calm' \in BOOLEAN
        BY <1>1 DEF Begin
    <2> QED
        BY <2>1, <2>2, <2>3
<1>2. ASSUME Fault PROVE faults' \in 0 .. MaxFaults
    BY <1>0, <1>2 DEF Fault
<1>3. ASSUME NEW c \in Commands, Command(c), ~Begin(c) 
      PROVE  UNCHANGED <<begun, calm>> /\ (UNCHANGED faults \/ Fault)
    BY <1>3 DEF Command, Track, Reap, ReapFails, Read, FindAvailablePort, EnsureBooted, BootFails, KillPortHolder,
       Spawn, Ready, NotReady, WriteState, Confirm, ChildExits, Interrupt, KillReads, KillSignals, ClearState
<1>4. ASSUME NEW c \in Commands, Crash(c) PROVE UNCHANGED begun /\ Fault /\ calm' \in BOOLEAN
    BY <1>4 DEF Crash
<1>5. ASSUME Machine
      PROVE  UNCHANGED begun /\ (UNCHANGED faults \/ Fault) /\ (UNCHANGED calm \/ calm' = FALSE)
    BY <1>5 DEF Machine, Bind, Exit, HelperDies, Shutdown, Sweep, Poll
<1> QED
    BY <1>0, <1>1, <1>2, <1>3, <1>4, <1>5, NextCases, Zenon

LEMMA TypesStep ==
    ASSUME TypeOK, OwnInv, [Next]_vars
    PROVE  TypeOK' /\ OwnInv'
<1>0. Shape
    BY TypeIsShape
<1>1. CASE UNCHANGED vars
    BY <1>1 DEF vars, TypeOK, OwnInv, HelpersOwned, FilesOwned, CommandOwned, Own, Alive, Active
<1>2. CASE Next
    <2>1. Shape' /\ OwnInv'
        <3>1. CASE Machine
            BY <1>0, <3>1, MachineStep, OwnAround
        <3>2. ASSUME NEW c \in Commands, Command(c) \/ Crash(c) PROVE Shape' /\ OwnInv'
            BY <1>0, <3>2, CommandTypes, OwnCommand
        <3> QED
            BY <1>2, <3>1, <3>2, NextCases
    <2>2. begun' \in 0 .. MaxBegun /\ faults' \in 0 .. MaxFaults /\ calm' \in BOOLEAN
        BY <1>2, CountersStay
    <2> QED
        BY <2>1, <2>2 DEF TypeOK, Shape, Helper, Cmd, Pc
<1> QED
    BY <1>1, <1>2

\* The process table, the state files and the commands stay well-formed, findAvailablePort
\* always finds a port; a state file names a helper that was started for its device, and a
\* command waits for, records and kills as its child only a helper of its own device
\* (index.ts, startHelper and readStateFile).
THEOREM HelpersHaveOwners == Spec => [](TypeOK /\ OwnInv)
<1>1. Init => TypeOK /\ OwnInv
    BY InitTypes
<1>2. (TypeOK /\ OwnInv) /\ [Next]_vars => (TypeOK /\ OwnInv)'
    BY TypesStep
<1> QED
    BY <1>1, <1>2, PTL DEF Spec

-----------------------------------------------------------------------------
(* Commands that run one after the other.                                   *)

Searched == {"port", "boot", "spawn", "start", "wait", "write"}
InHand(c, p) == cmd[c].pc \in {"wait", "write"} /\ cmd[c].child = p
NamedOrInHand(p) == Running(p) => file[helper[p].dev] = p \/ \E c \in Commands : InHand(c, p)

\* What a command knows while no other runs: it has found no file of its device, it is
\* about to signal all that the files in its scope name, or they name nothing that runs, and
\* the port it has chosen is no other device's.
CalmCommand(c) ==
    /\ cmd[c].pc \in Searched => file[cmd[c].dev] = None
    /\ cmd[c].pc = "following" => file[cmd[c].dev] \in {None, cmd[c].child}
    /\ cmd[c].pc = "signal" => \A d \in Scope(c) : file[d] # None => file[d] \in cmd[c].tracked
    /\ cmd[c].pc = "clear" => \A d \in Scope(c), p \in Pids : file[d] = p => ~Running(p)
    /\ cmd[c].pc \in {"boot", "spawn", "start", "wait"} =>
         \A p \in Pids : Running(p) /\ helper[p].dev # cmd[c].dev => helper[p].port # cmd[c].port

CalmInv ==
    calm => /\ \A c, k \in Commands : Active(c) /\ Active(k) => c = k
            /\ \A p \in Pids : NamedOrInHand(p)
            /\ \A c \in Commands : CalmCommand(c)

\* Files are dropped only of helpers that do not run any more.
Forgets == \A d \in Devices, p \in Pids : file[d] = p /\ file'[d] # p => ~Running(p)'

LEMMA NamedStays ==
    ASSUME Shape, OwnInv, Decline, Forgets, NEW p \in Pids, Running(p)', file[helper[p].dev] = p
    PROVE  file'[helper'[p].dev] = p
<1>1. Running(p) /\ helper'[p].dev = helper[p].dev
    BY DEF Decline
<1>2. helper[p].dev \in Devices
    BY <1>1 DEF OwnInv, HelpersOwned, Running
<1> QED
    BY <1>1, <1>2 DEF Forgets

LEMMA SameForgets == ASSUME UNCHANGED file PROVE Forgets
BY DEF Forgets

LEMMA AtRest ==
    ASSUME NEW k \in Commands, ~Active(k)
    PROVE  CalmCommand(k)
BY DEF CalmCommand, Active, Searched

\* The step of the only command that runs, once its own part is seen to.
LEMMA CalmRest ==
    ASSUME Shape, NEW c \in Commands, \A k \in Commands \ {c} : ~Active(k), OthersWait(c),
           CalmCommand(c)', \A p \in Pids : NamedOrInHand(p)'
    PROVE  CalmInv'
<1>1. \A k \in Commands \ {c} : ~Active(k)'
    <2> SUFFICES ASSUME NEW k \in Commands \ {c} PROVE ~Active(k)'
        OBVIOUS
    <2>1. cmd[k] \in Cmd /\ cmd'[k] = [cmd[k] EXCEPT !.alone = FALSE]
        BY DEF Shape, OthersWait
    <2>2. cmd'[k].pc = cmd[k].pc
        BY <2>1 DEF Cmd
    <2> QED
        BY <2>2 DEF Active
<1>2. \A k \in Commands \ {c} : CalmCommand(k)'
    BY <1>1 DEF CalmCommand, Active, Searched
<1> QED
    BY <1>1, <1>2 DEF CalmInv

\* A command with no helper in hand: every helper that runs is named, and stays so.
LEMMA CalmMoves ==
    ASSUME Shape, OwnInv, Decline, Forgets, NEW c \in Commands,
           \A k \in Commands \ {c} : ~Active(k), OthersWait(c), CalmCommand(c)',
           \A p \in Pids : Running(p)' => file[helper[p].dev] = p
    PROVE  CalmInv'
<1>1. \A p \in Pids : NamedOrInHand(p)'
    BY NamedStays DEF NamedOrInHand
<1> QED
    BY <1>1, CalmRest

LEMMA CalmCommands ==
    ASSUME Shape, OwnInv, CalmInv, NEW c \in Commands, Command(c) \/ Crash(c), calm'
    PROVE  CalmInv'
<1>0. /\ cmd[c] \in Cmd /\ CommandOwned(c) /\ (Active(c) => cmd[c].dev \in Devices)
      /\ (UNCHANGED helper => Decline) /\ (Steady => Decline) /\ (UNCHANGED file => Forgets)
    BY SameIsSteady, SameForgets DEF Shape, OwnInv, CommandOwned, Steady
<1>1. CASE Begin(c)
    <2>1. calm /\ \A k \in Commands : ~Active(k)
        BY <1>1, BeginStep
    <2>2. \A p \in Pids : Running(p) => file[helper[p].dev] = p
        BY <2>1 DEF CalmInv, NamedOrInHand, InHand, Active
    <2>3. cmd'[c].pc \in {"track", "read"} /\ OthersWait(c) /\ UNCHANGED <<helper, file>>
        BY <1>1, BeginStep
    <2>4. CalmCommand(c)'
        BY <2>3 DEF CalmCommand, Searched
    <2>5. \A p \in Pids : Running(p)' => file[helper[p].dev] = p
        BY <2>2, <2>3 DEF Running, Alive
    <2> QED
        BY <1>0, <2>1, <2>3, <2>4, <2>5, CalmMoves
<1> SUFFICES ASSUME ~Begin(c), ~Crash(c) PROVE CalmInv'
    <2>1. CASE Crash(c)
        BY <2>1, CrashStep
    <2> QED
        BY <1>1, <2>1
<1>2. Active(c) /\ cmd[c].dev \in Devices /\ calm
    <2>1. Active(c)
        BY DEF Command, Track, Reap, ReapFails, Read, FindAvailablePort, EnsureBooted, BootFails, KillPortHolder,
           Spawn, Ready, NotReady, WriteState, Confirm, ChildExits, Interrupt, KillReads, KillSignals,
           ClearState, Active
    <2>2. calm
        BY DEF Command, Track, Reap, ReapFails, Read, FindAvailablePort, EnsureBooted, BootFails, KillPortHolder,
           Spawn, Ready, NotReady, WriteState, Confirm, ChildExits, Interrupt, KillReads, KillSignals,
           ClearState
    <2> QED
        BY <1>0, <2>1, <2>2
<1>3. /\ \A k \in Commands \ {c} : ~Active(k)
      /\ CalmCommand(c)
    BY <1>2 DEF CalmInv
<1>4. /\ \A p \in Pids : Running(p) => file[helper[p].dev] = p \/ InHand(c, p)
      /\ \A p \in Pids : Running(p) /\ cmd[c].pc \notin {"wait", "write"} => file[helper[p].dev] = p
    BY <1>2, <1>3 DEF CalmInv, NamedOrInHand, InHand, Active
<1>5. ASSUME cmd[c].pc \notin {"wait", "write"}, Decline
      PROVE  \A p \in Pids : Running(p)' => file[helper[p].dev] = p
    BY <1>4, <1>5 DEF Decline
<1>6. CASE Track(c)
    <2>1. PICK view \in Views :
                /\ ReadEffect(Devices, view)
                /\ cmd'[c] = [cmd[c] EXCEPT !.pc = "reap", !.tracked = NamedBy(Devices, view)]
        BY <1>6, TrackStep
    <2>2. cmd'[c].pc = "reap" /\ cmd[c].pc = "track"
        BY <1>0, <1>6, <2>1 DEF Cmd, Track
    <2>3. CalmCommand(c)'
        BY <2>2 DEF CalmCommand, Searched
    <2> QED
        BY <1>0, <1>3, <1>5, <1>6, <2>1, <2>2, <2>3, TrackStep, CalmMoves DEF ReadEffect, Forgets
<1>7. CASE Reap(c)
    <2>0. cmd'[c] = [cmd[c] EXCEPT !.pc = "read", !.tracked = {}] /\ cmd[c].pc = "reap"
        BY <1>7, ReapStep DEF Reap
    <2>1. cmd'[c].pc = "read" /\ cmd[c].pc = "reap"
        BY <1>0, <2>0 DEF Cmd
    <2>2. CalmCommand(c)'
        BY <2>1 DEF CalmCommand, Searched
    <2> QED
        BY <1>0, <1>3, <1>5, <1>7, <2>1, <2>2, ReapStep, CalmMoves
<1>23. CASE ReapFails(c)
    <2>1. cmd'[c].pc = "read" /\ cmd[c].pc = "reap"
        BY <1>23, ReapFailsStep
    <2>2. CalmCommand(c)'
        BY <2>1 DEF CalmCommand, Searched
    <2> QED
        BY <1>0, <1>3, <1>5, <1>23, <2>1, <2>2, ReapFailsStep, CalmMoves
<1>8. CASE Read(c)
    <2>1. PICK view \in Views :
                /\ ReadEffect({cmd[c].dev}, view)
                /\ \/ cmd'[c].pc = "done"
                   \/ /\ ~NamesLive(cmd[c].dev, view)
                      /\ cmd'[c] = [cmd[c] EXCEPT !.pc = "port"]
        BY <1>2, <1>8, ReadStep
    <2>2. ASSUME ~NamesLive(cmd[c].dev, view), cmd'[c] = [cmd[c] EXCEPT !.pc = "port"]
          PROVE  CalmCommand(c)'
        <3>1. cmd'[c].pc = "port" /\ cmd'[c].dev = cmd[c].dev
            BY <1>0, <2>2 DEF Cmd
        <3>2. file'[cmd[c].dev] = None
            BY <2>1, <2>2 DEF ReadEffect
        <3> QED
            BY <3>1, <3>2 DEF CalmCommand, Searched
    <2>3. CalmCommand(c)'
        BY <2>1, <2>2 DEF CalmCommand, Searched
    <2>4. cmd[c].pc = "read"
        BY <1>8 DEF Read
    <2> QED
        BY <1>0, <1>2, <1>3, <1>5, <1>8, <2>1, <2>3, <2>4, ReadStep, CalmMoves DEF ReadEffect, Forgets
<1>9. CASE FindAvailablePort(c)
    <2>1. PICK view \in Views, port \in Ports :
                /\ ReadEffect(Devices, view) /\ Available(port, view)
                /\ cmd'[c] = [cmd[c] EXCEPT !.pc = "boot", !.port = port]
        BY <1>9, PortStep
    <2>2. cmd'[c].pc = "boot" /\ cmd'[c].dev = cmd[c].dev /\ cmd'[c].port = port /\ cmd[c].pc = "port"
        BY <1>0, <1>9, <2>1 DEF Cmd, FindAvailablePort
    <2>3. Steady /\ Decline /\ Forgets
        BY <1>0, <2>1 DEF ReadEffect, Forgets
    <2>4. ASSUME NEW p \in Pids, Running(p)' PROVE helper'[p].port # port
        <3>1. Running(p) /\ helper[p].dev \in Devices /\ file[helper[p].dev] = p
            BY <1>5, <2>2, <2>3, <2>4 DEF Decline, OwnInv, HelpersOwned, Running
        <3>2. NamesLive(helper[p].dev, view)
            <4> SUFFICES ASSUME ~NamesLive(helper[p].dev, view) PROVE FALSE
                OBVIOUS
            <4>1. file'[helper[p].dev] = None
                BY <2>1, <3>1 DEF ReadEffect
            <4> QED
                BY <2>3, <2>4, <3>1, <4>1, Constants DEF Forgets
        <3>3. p \in NamedBy(Devices, view)
            BY <3>1, <3>2, NamedByType
        <3> QED
            BY <2>1, <2>3, <3>3 DEF Available, Decline
    <2>5. file'[cmd[c].dev] = None
        BY <1>2, <1>3, <2>1, <2>2 DEF ReadEffect, CalmCommand, Searched
    <2>6. CalmCommand(c)'
        BY <2>2, <2>4, <2>5 DEF CalmCommand, Searched
    <2> QED
        BY <1>3, <1>5, <1>9, <2>2, <2>3, <2>6, PortStep, CalmMoves
<1>10. CASE EnsureBooted(c)
    <2>1. cmd'[c] = [cmd[c] EXCEPT !.pc = "spawn"] /\ UNCHANGED <<helper, file>> /\ OthersWait(c)
        BY <1>2, <1>10, EnsureStep
    <2>2. /\ cmd'[c].pc = "spawn" /\ cmd'[c].dev = cmd[c].dev /\ cmd'[c].port = cmd[c].port
          /\ cmd[c].pc = "boot"
        BY <1>0, <1>10, <2>1 DEF Cmd, EnsureBooted
    <2>3. CalmCommand(c)'
        BY <1>3, <2>1, <2>2 DEF CalmCommand, Searched, Running, Alive
    <2> QED
        BY <1>0, <1>3, <1>5, <2>1, <2>2, <2>3, CalmMoves
<1>11. CASE BootFails(c)
    <2>1. cmd'[c].pc = "over" /\ cmd[c].pc = "boot" /\ UNCHANGED <<helper, file>> /\ OthersWait(c)
        BY <1>11, BootFailsStep DEF BootFails
    <2>2. CalmCommand(c)'
        BY <2>1 DEF CalmCommand, Searched
    <2> QED
        BY <1>0, <1>3, <1>5, <2>1, <2>2, CalmMoves
<1>12. CASE KillPortHolder(c)
    <2>1. /\ cmd'[c] = [cmd[c] EXCEPT !.pc = "start"] /\ UNCHANGED file /\ Steady /\ OthersWait(c)
        BY <1>12, KillHolderStep
    <2>2. /\ cmd'[c].pc = "start" /\ cmd'[c].dev = cmd[c].dev /\ cmd'[c].port = cmd[c].port
          /\ cmd[c].pc = "spawn"
        BY <1>0, <1>12, <2>1 DEF Cmd, KillPortHolder
    <2>3. CalmCommand(c)'
        BY <1>3, <2>1, <2>2 DEF CalmCommand, Searched, Steady, Decline
    <2> QED
        BY <1>0, <1>3, <1>5, <2>1, <2>2, <2>3, CalmMoves
<1>13. CASE Spawn(c)
    <2>1. PICK p \in Pids :
                /\ helper[p].life = "none"
                /\ helper'[p] = [life |-> "loading", dev |-> cmd[c].dev, port |-> cmd[c].port,
                                 term |-> FALSE]
                /\ \A q \in Pids : q # p => helper'[q] = helper[q]
                /\ cmd'[c] = [cmd[c] EXCEPT !.pc = "wait", !.child = p]
        BY <1>13, SpawnStep
    <2>2. /\ cmd'[c].pc = "wait" /\ cmd'[c].dev = cmd[c].dev /\ cmd'[c].port = cmd[c].port
          /\ cmd'[c].child = p
        BY <1>0, <2>1 DEF Cmd
    <2>3. file' = file /\ OthersWait(c) /\ cmd[c].pc = "start"
        BY <1>13, SpawnStep
    <2>4. \A q \in Pids : q # p => (Running(q)' <=> Running(q))
        BY <2>1 DEF Running, Alive
    <2>5. helper'[p].dev = cmd[c].dev
        BY <2>1
    <2>6. CalmCommand(c)'
        BY <1>3, <2>1, <2>2, <2>3, <2>4, <2>5 DEF CalmCommand, Searched
    <2>7. ASSUME NEW q \in Pids PROVE NamedOrInHand(q)'
        <3>1. CASE q = p
            BY <2>2, <3>1 DEF NamedOrInHand, InHand
        <3>2. CASE q # p
            BY <1>4, <2>1, <2>2, <2>3, <2>4, <3>2 DEF NamedOrInHand
        <3> QED
            BY <3>1, <3>2
    <2> QED
        BY <1>3, <2>3, <2>6, <2>7, CalmRest
<1>14. CASE Ready(c)
    <2>1. cmd'[c] = [cmd[c] EXCEPT !.pc = "write"] /\ UNCHANGED <<helper, file>> /\ OthersWait(c)
        BY <1>14, ReadyStep
    <2>2. /\ cmd'[c].pc = "write" /\ cmd'[c].dev = cmd[c].dev /\ cmd'[c].child = cmd[c].child
          /\ cmd[c].pc = "wait"
        BY <1>0, <1>14, <2>1 DEF Cmd, Ready
    <2>3. CalmCommand(c)'
        BY <1>3, <2>1, <2>2 DEF CalmCommand, Searched
    <2>4. \A p \in Pids : NamedOrInHand(p)'
        BY <1>4, <2>1, <2>2 DEF NamedOrInHand, InHand, Running, Alive
    <2> QED
        BY <1>3, <2>1, <2>3, <2>4, CalmRest
<1>15. CASE NotReady(c)
    <2>1. /\ UNCHANGED file /\ Steady /\ OthersWait(c) /\ cmd[c].pc = "wait"
          /\ \A p \in Pids : p = cmd[c].child => ~Alive(p)'
          /\ \/ cmd'[c] = [cmd[c] EXCEPT !.pc = "spawn", !.attempt = 2]
             \/ cmd'[c].pc = "over"
        BY <1>15, NotReadyStep DEF NotReady
    <2>2. ASSUME cmd'[c] = [cmd[c] EXCEPT !.pc = "spawn", !.attempt = 2] PROVE CalmCommand(c)'
        <3>1. cmd'[c].pc = "spawn" /\ cmd'[c].dev = cmd[c].dev /\ cmd'[c].port = cmd[c].port
            BY <1>0, <2>2 DEF Cmd
        <3> QED
            BY <1>3, <2>1, <3>1 DEF CalmCommand, Searched, Steady, Decline
    <2>3. CalmCommand(c)'
        BY <2>1, <2>2 DEF CalmCommand, Searched
    <2>4. \A p \in Pids : Running(p)' => Running(p) /\ p # cmd[c].child
        BY <2>1 DEF Steady, Decline, Running
    <2>5. \A p \in Pids : Running(p)' => file[helper[p].dev] = p
        BY <1>4, <2>4 DEF InHand
    <2> QED
        BY <1>0, <1>3, <2>1, <2>3, <2>5, CalmMoves
<1>16. CASE WriteState(c)
    <2>1. /\ helper' = helper /\ file'[cmd[c].dev] = cmd[c].child /\ OthersWait(c)
          /\ \A d \in Devices : d # cmd[c].dev => file'[d] = file[d]
          /\ \/ cmd'[c] = [cmd[c] EXCEPT !.pc = "confirm"]
             \/ cmd'[c] = [cmd[c] EXCEPT !.pc = "following"]
        BY <1>2, <1>16, WriteStep
    <2>2. /\ cmd'[c].pc \in {"confirm", "following"} /\ cmd'[c].dev = cmd[c].dev
          /\ cmd'[c].child = cmd[c].child /\ cmd[c].pc = "write"
        BY <1>0, <1>16, <2>1 DEF Cmd, WriteState
    <2>3. Own(cmd[c].child, cmd[c].dev) /\ file[cmd[c].dev] = None
        BY <1>0, <1>3, <2>2 DEF CommandOwned, Spawned, CalmCommand, Searched
    <2>4. CalmCommand(c)'
        BY <2>1, <2>2 DEF CalmCommand, Searched
    <2>5. ASSUME NEW p \in Pids, Running(p) PROVE file'[helper[p].dev] = p
        <3>1. CASE p = cmd[c].child
            BY <2>1, <2>3, <3>1 DEF Own
        <3>2. CASE p # cmd[c].child
            <4>1. file[helper[p].dev] = p /\ helper[p].dev \in Devices
                BY <1>4, <2>5, <3>2 DEF InHand, OwnInv, HelpersOwned, Running
            <4>2. helper[p].dev # cmd[c].dev
                BY <2>3, <4>1, Constants
            <4> QED
                BY <2>1, <4>1, <4>2
        <3> QED
            BY <3>1, <3>2
    <2>6. \A p \in Pids : NamedOrInHand(p)'
        BY <2>1, <2>5 DEF NamedOrInHand, Running, Alive
    <2> QED
        BY <1>3, <2>1, <2>4, <2>6, CalmRest
<1>17. CASE Confirm(c)
    <2>1. PICK view \in Views : ReadEffect({cmd[c].dev}, view)
        BY <1>2, <1>17, ConfirmStep
    <2>2. cmd'[c].pc \in {"over", "done"} /\ OthersWait(c) /\ cmd[c].pc = "confirm"
        BY <1>2, <1>17, ConfirmStep DEF Confirm
    <2>3. CalmCommand(c)'
        BY <2>2 DEF CalmCommand, Searched
    <2> QED
        BY <1>0, <1>3, <1>5, <2>1, <2>2, <2>3, CalmMoves DEF ReadEffect, Forgets
<1>18. CASE ChildExits(c)
    <2>1. /\ UNCHANGED helper /\ OthersWait(c) /\ file'[cmd[c].dev] = None /\ cmd'[c].pc = "done"
          /\ \A d \in Devices : d # cmd[c].dev => file'[d] = file[d]
        BY <1>2, <1>18, ChildExitsStep
    <2>2. cmd[c].pc = "following" /\ ~Alive(cmd[c].child) /\ file[cmd[c].dev] \in {None, cmd[c].child}
        BY <1>3, <1>18 DEF ChildExits, CalmCommand
    <2>3. CalmCommand(c)'
        BY <2>1 DEF CalmCommand, Searched
    <2>4. ASSUME NEW p \in Pids, Running(p) PROVE file'[helper[p].dev] = p
        <3>1. file[helper[p].dev] = p /\ helper[p].dev \in Devices
            BY <1>4, <2>2, <2>4 DEF OwnInv, HelpersOwned, Running
        <3>2. helper[p].dev # cmd[c].dev
            BY <2>2, <2>4, <3>1, Constants DEF Running
        <3> QED
            BY <2>1, <3>1, <3>2
    <2>5. \A p \in Pids : NamedOrInHand(p)'
        BY <2>1, <2>4 DEF NamedOrInHand, Running, Alive
    <2> QED
        BY <1>3, <2>1, <2>3, <2>5, CalmRest
<1>19. CASE Interrupt(c)
    <2>1. /\ UNCHANGED file /\ Steady /\ OthersWait(c) /\ cmd[c].pc = "following"
          /\ \A p \in Pids : p = cmd[c].child => ~Alive(p)'
          /\ cmd'[c] = [cmd[c] EXCEPT !.pc = "clear"]
        BY <1>19, InterruptStep DEF Interrupt
    <2>2. cmd'[c].pc = "clear" /\ cmd'[c].dev = cmd[c].dev /\ cmd'[c].op = cmd[c].op
        BY <1>0, <2>1 DEF Cmd
    <2>3. cmd[c].op # "killAll" /\ file[cmd[c].dev] \in {None, cmd[c].child}
        BY <1>0, <1>3, <2>1 DEF CommandOwned, Starting, Starts, CalmCommand
    <2>4. Scope(c)' = {cmd[c].dev}
        BY <1>2, <2>2, <2>3 DEF Scope
    <2>5. \A p \in Pids : file'[cmd[c].dev] = p => ~Running(p)'
        BY <2>1, <2>3, Constants DEF Running
    <2>6. CalmCommand(c)'
        BY <2>2, <2>4, <2>5 DEF CalmCommand, Searched
    <2> QED
        BY <1>0, <1>3, <1>5, <2>1, <2>6, CalmMoves
<1>20. CASE KillReads(c)
    <2>1. PICK view \in Views :
                /\ ReadEffect(Scope(c), view)
                /\ \/ cmd'[c].pc = "done"
                   \/ cmd'[c] = [cmd[c] EXCEPT !.pc = "signal", !.tracked = NamedBy(Scope(c), view)]
        BY <1>2, <1>20, KillReadsStep
    <2>2. ASSUME cmd'[c] = [cmd[c] EXCEPT !.pc = "signal", !.tracked = NamedBy(Scope(c), view)]
          PROVE  CalmCommand(c)'
        <3>1. /\ cmd'[c].pc = "signal" /\ cmd'[c].op = cmd[c].op /\ cmd'[c].dev = cmd[c].dev
              /\ cmd'[c].tracked = NamedBy(Scope(c), view)
            BY <1>0, <2>2 DEF Cmd
        <3>2. Scope(c)' = Scope(c) /\ Scope(c) \in SUBSET Devices
            BY <3>1 DEF Scope
        <3>3. ASSUME NEW d \in Scope(c), file'[d] # None PROVE file'[d] \in NamedBy(Scope(c), view)
            <4>1. NamesLive(d, view) /\ file'[d] = file[d]
                BY <2>1, <3>2, <3>3 DEF ReadEffect
            <4> QED
                BY <3>2, <4>1, NamedByType
        <3> QED
            BY <3>1, <3>2, <3>3 DEF CalmCommand, Searched
    <2>3. CalmCommand(c)'
        BY <2>1, <2>2 DEF CalmCommand, Searched
    <2>4. cmd[c].pc = "read"
        BY <1>20 DEF KillReads
    <2> QED
        BY <1>0, <1>2, <1>3, <1>5, <1>20, <2>1, <2>3, <2>4, KillReadsStep, CalmMoves DEF ReadEffect, Forgets
<1>21. CASE KillSignals(c)
    <2>1. /\ UNCHANGED file /\ Steady /\ OthersWait(c) /\ cmd[c].pc = "signal"
          /\ \A p \in Pids : p \in cmd[c].tracked => ~Running(p)'
          /\ cmd'[c] = [cmd[c] EXCEPT !.pc = "clear"]
        BY <1>21, KillSignalsStep DEF KillSignals
    <2>2. cmd'[c].pc = "clear" /\ cmd'[c].dev = cmd[c].dev /\ cmd'[c].op = cmd[c].op
        BY <1>0, <2>1 DEF Cmd
    <2>3. Scope(c)' = Scope(c)
        BY <2>2 DEF Scope
    <2>4. \A d \in Scope(c), p \in Pids : file'[d] = p => ~Running(p)'
        BY <1>3, <2>1, Constants DEF CalmCommand
    <2>5. CalmCommand(c)'
        BY <2>2, <2>3, <2>4 DEF CalmCommand, Searched
    <2> QED
        BY <1>0, <1>3, <1>5, <2>1, <2>5, CalmMoves
<1>22. CASE ClearState(c)
    <2>1. /\ UNCHANGED helper /\ OthersWait(c) /\ cmd'[c].pc = "done" /\ cmd[c].pc = "clear"
          /\ \A d \in Devices : file'[d] = IF d \in Scope(c) THEN None ELSE file[d]
        BY <1>22, ClearStep DEF ClearState
    <2>2. CalmCommand(c)'
        BY <2>1 DEF CalmCommand, Searched
    <2>3. ASSUME NEW p \in Pids, Running(p) PROVE file'[helper[p].dev] = p
        <3>1. file[helper[p].dev] = p /\ helper[p].dev \in Devices
            BY <1>4, <2>1, <2>3 DEF OwnInv, HelpersOwned, Running
        <3>2. helper[p].dev \notin Scope(c)
            BY <1>3, <2>1, <2>3, <3>1 DEF CalmCommand
        <3> QED
            BY <2>1, <3>1, <3>2
    <2>4. \A p \in Pids : NamedOrInHand(p)'
        BY <2>1, <2>3 DEF NamedOrInHand, Running, Alive
    <2> QED
        BY <1>3, <2>1, <2>2, <2>4, CalmRest
<1> QED
    BY <1>6, <1>7, <1>8, <1>9, <1>10, <1>11, <1>12, <1>13, <1>14, <1>15, <1>16, <1>17, <1>18, <1>19,
       <1>20, <1>21, <1>22, <1>23 DEF Command

LEMMA CalmMachine ==
    ASSUME Shape, OwnInv, CalmInv, Machine, calm'
    PROVE  CalmInv'
<1>1. /\ calm /\ Decline /\ Stay /\ Forgets
      /\ \A d \in Devices : file'[d] = file[d] \/ file'[d] = None
    BY MachineStep DEF Forgets
<1>2. ASSUME NEW c \in Commands
      PROVE  /\ cmd'[c].pc = cmd[c].pc /\ cmd'[c].op = cmd[c].op /\ cmd'[c].dev = cmd[c].dev
             /\ cmd'[c].child = cmd[c].child /\ cmd'[c].tracked = cmd[c].tracked
             /\ cmd'[c].port = cmd[c].port
    <2>1. cmd[c] \in Cmd /\ (cmd'[c] = cmd[c] \/ cmd'[c] = [cmd[c] EXCEPT !.alone = FALSE])
        BY <1>1 DEF Shape, Stay
    <2> QED
        BY <2>1 DEF Cmd
<1>3. \A c, k \in Commands : Active(c)' /\ Active(k)' => c = k
    BY <1>1, <1>2 DEF CalmInv, Active
<1>4. ASSUME NEW p \in Pids PROVE NamedOrInHand(p)'
    <2> SUFFICES ASSUME Running(p)' PROVE file'[helper'[p].dev] = p \/ \E c \in Commands : InHand(c, p)'
        BY DEF NamedOrInHand
    <2>1. Running(p)
        BY <1>1 DEF Decline
    <2>2. CASE file[helper[p].dev] = p
        BY <1>1, <2>2, NamedStays
    <2>3. CASE \E c \in Commands : InHand(c, p)
        BY <1>2, <2>3 DEF InHand
    <2> QED
        BY <1>1, <2>1, <2>2, <2>3 DEF CalmInv, NamedOrInHand
<1>5. ASSUME NEW c \in Commands PROVE CalmCommand(c)'
    <2>1. CalmCommand(c)
        BY <1>1 DEF CalmInv
    <2>2. Scope(c)' = Scope(c) /\ Scope(c) \in SUBSET Devices
        BY <1>2 DEF Scope
    <2>3. cmd[c].pc \in Searched \cup {"following"} => cmd[c].dev \in Devices
        BY DEF OwnInv, CommandOwned, Active, Searched
    <2>4. /\ cmd[c].pc \in Searched => file'[cmd[c].dev] = None
          /\ cmd[c].pc = "following" => file'[cmd[c].dev] \in {None, cmd[c].child}
        BY <1>1, <2>1, <2>3 DEF CalmCommand
    <2>5. cmd[c].pc = "signal" => \A d \in Scope(c) : file'[d] # None => file'[d] \in cmd[c].tracked
        BY <1>1, <2>1, <2>2 DEF CalmCommand
    <2>6. cmd[c].pc = "clear" => \A d \in Scope(c), p \in Pids : file'[d] = p => ~Running(p)'
        BY <1>1, <2>1, <2>2, Constants DEF CalmCommand, Decline
    <2>7. cmd[c].pc \in {"boot", "spawn", "start", "wait"} =>
            \A p \in Pids : Running(p)' /\ helper'[p].dev # cmd[c].dev => helper'[p].port # cmd[c].port
        BY <1>1, <2>1 DEF CalmCommand, Decline
    <2> QED
        BY <1>2, <2>2, <2>4, <2>5, <2>6, <2>7 DEF CalmCommand
<1> QED
    BY <1>3, <1>4, <1>5 DEF CalmInv

LEMMA CalmStep ==
    ASSUME TypeOK, OwnInv, CalmInv, [Next]_vars
    PROVE  CalmInv'
<1>0. Shape
    BY TypeIsShape
<1>1. CASE UNCHANGED vars
    BY <1>1 DEF vars, CalmInv, NamedOrInHand, InHand, CalmCommand, Running, Alive, Active, Scope
<1>2. CASE ~calm'
    BY <1>2 DEF CalmInv
<1>3. CASE Next /\ calm'
    BY <1>0, <1>3, NextCases, CalmMachine, CalmCommands
<1> QED
    BY <1>1, <1>2, <1>3

LEMMA InitCalm == Init => CalmInv
BY DEF Init, Idle, CalmInv, NamedOrInHand, CalmCommand, Active, Running, Alive, Searched

LEMMA CalmInvariant == Spec => [](TypeOK /\ OwnInv /\ CalmInv)
<1>1. Init => TypeOK /\ OwnInv /\ CalmInv
    BY InitTypes, InitCalm
<1>2. (TypeOK /\ OwnInv /\ CalmInv) /\ [Next]_vars => (TypeOK /\ OwnInv /\ CalmInv)'
    BY TypesStep, CalmStep
<1> QED
    BY <1>1, <1>2, PTL DEF Spec

\* Commands that run one after the other leave no helper behind: one that runs while no
\* command does is named by the state file of its device (index.ts, startHelper, killStreams
\* and the cleanup of follow), for any number of commands, devices, deaths and shutdowns.
THEOREM SequentialCommandsCleanUp == Spec => []SequentialNeverOrphans
<1>1. CalmInv => SequentialNeverOrphans
    BY DEF CalmInv, SequentialNeverOrphans, NamedOrInHand, InHand, Active
<1> QED
    BY <1>1, CalmInvariant, PTL

-----------------------------------------------------------------------------
(* Commands spare the helpers of other devices.                             *)

\* Reading state files signals no helper of a device that is booted.
LEMMA ReadingSpares ==
    ASSUME Shape, OwnInv, NEW ds \in SUBSET Devices, NEW view \in Views, ReadEffect(ds, view),
           NEW p \in Pids, Running(p), helper[p].dev \in booted
    PROVE  Running(p)'
<1> SUFFICES ASSUME ~Running(p)' PROVE FALSE
    OBVIOUS
<1>1. PICK d \in ds : file[d] = p /\ d \notin view
    BY DEF ReadEffect
<1>2. helper[p].dev = d
    BY <1>1, Constants DEF OwnInv, FilesOwned, Own
<1> QED
    BY <1>1, <1>2, ViewsKnown

LEMMA SpareStep ==
    ASSUME TypeOK, OwnInv, CalmInv, Next, NEW p \in Pids, NEW c \in Commands,
           calm, cmd'[c] # cmd[c], cmd[c].op # "killAll", Active(c),
           helper[p].dev # cmd[c].dev, helper[p].dev \in booted, Running(p)
    PROVE  (Alive(p)' => Running(p)') /\ (faults' = faults => Alive(p)')
<1>0. /\ Shape /\ CommandOwned(c) /\ CalmCommand(c) /\ cmd[c].dev \in Devices
      /\ \A k \in Commands : Active(k) => k = c
      /\ Alive(p) /\ ~helper[p].term
    BY TypeIsShape DEF OwnInv, CommandOwned, CalmInv, Running
<1>1. ASSUME helper'[p] = helper[p] PROVE Running(p)'
    BY <1>0, <1>1 DEF Running, Alive
<1>2. ASSUME Running(p)' PROVE (Alive(p)' => Running(p)') /\ (faults' = faults => Alive(p)')
    BY <1>2 DEF Running
<1>3. CASE Machine
    <2>1. ASSUME NEW q \in Pids, Bind(q) PROVE Running(p)'
        <3>1. CASE q = p
            BY <1>0, <2>1, <3>1, BindStep DEF Running, Alive
        <3>2. CASE q # p
            BY <1>0, <1>1, <2>1, <3>2, BindStep
        <3> QED
            BY <3>1, <3>2
    <2>2. ASSUME NEW q \in Pids, Exit(q) PROVE FALSE
        BY <1>0, <2>2, ExitStep
    <2>3. ASSUME NEW q \in Pids, HelperDies(q)
          PROVE  (Alive(p)' => Running(p)') /\ (faults' = faults => Alive(p)')
        <3>1. CASE q = p
            <4>1. faults' # faults
                BY <2>3 DEF HelperDies, Fault, TypeOK
            <4> QED
                BY <1>0, <2>3, <3>1, <4>1, DiesStep
        <3>2. CASE q # p
            BY <1>0, <1>1, <1>2, <2>3, <3>2, DiesStep
        <3> QED
            BY <3>1, <3>2
    <2>4. ASSUME NEW d \in Devices, Shutdown(d) \/ Sweep(d) PROVE Running(p)'
        BY <1>0, <1>1, <2>4, ShutdownStep, SweepStep
    <2>5. ASSUME Poll PROVE FALSE
        BY <1>0, <2>5, PollStep
    <2> QED
        BY <1>2, <1>3, <2>1, <2>2, <2>3, <2>4, <2>5 DEF Machine
<1>4. ASSUME NEW k \in Commands, Command(k) \/ Crash(k) PROVE Running(p)'
    <2>1. CASE Begin(k)
        BY <1>0, <1>1, <2>1, BeginStep
    <2>2. CASE Crash(k)
        BY <1>0, <1>1, <2>2, CrashStep
    <2> SUFFICES ASSUME ~Begin(k), ~Crash(k) PROVE Running(p)'
        BY <2>1, <2>2
    <2>3. k = c
        <3>1. Active(k)
            BY <1>4 DEF Command, Track, Reap, ReapFails, Read, FindAvailablePort, EnsureBooted, BootFails,
               KillPortHolder, Spawn, Ready, NotReady, WriteState, Confirm, ChildExits, Interrupt, KillReads, KillSignals,
               ClearState, Active
        <3> QED
            BY <1>0, <3>1
    <2>4. CASE Track(c) \/ FindAvailablePort(c)
        BY <1>0, <2>4, TrackStep, PortStep, ReadingSpares
    <2>5. CASE Reap(c)
        BY <1>0, <1>1, <2>5, ReapStep DEF Orphans
    <2>6. CASE Read(c) \/ Confirm(c)
        <3>1. PICK view \in Views : ReadEffect({cmd[c].dev}, view)
            BY <1>0, <2>6, ReadStep, ConfirmStep
        <3>2. {cmd[c].dev} \in SUBSET Devices
            BY <1>0
        <3> QED
            BY <1>0, <3>1, <3>2, ReadingSpares
    <2>7. CASE KillReads(c)
        <3>1. PICK view \in Views : ReadEffect(Scope(c), view)
            BY <1>0, <2>7, KillReadsStep
        <3>2. Scope(c) \in SUBSET Devices
            BY DEF Scope
        <3> QED
            BY <1>0, <3>1, <3>2, ReadingSpares
    <2>8. CASE KillPortHolder(c)
        <3>1. cmd[c].pc = "spawn" /\ helper[p].port # cmd[c].port
            BY <1>0, <2>8 DEF KillPortHolder, CalmCommand
        <3>2. ~Holds(p, cmd[c].port)
            BY <3>1 DEF Holds
        <3> QED
            BY <1>0, <1>1, <2>8, <3>2, KillHolderStep
    <2>9. CASE Spawn(c)
        BY <1>0, <1>1, <2>9, SpawnStep DEF Alive
    <2>10. CASE NotReady(c) \/ Interrupt(c)
        <3>1. p # cmd[c].child
            BY <1>0, <2>10 DEF CommandOwned, Spawned, Own, NotReady, Interrupt
        <3> QED
            BY <1>0, <1>1, <2>10, <3>1, NotReadyStep, InterruptStep
    <2>11. CASE KillSignals(c)
        <3>1. cmd[c].pc = "signal" /\ cmd[c].op = "kill"
            BY <1>0, <2>11 DEF KillSignals, CommandOwned, Shape, Cmd, Op, Starts
        <3>2. p \notin cmd[c].tracked
            BY <1>0, <3>1 DEF CommandOwned, Own
        <3> QED
            BY <1>0, <1>1, <2>11, <3>2, KillSignalsStep
    <2>12. CASE EnsureBooted(c) \/ BootFails(c) \/ Ready(c) \/ WriteState(c) \/ ChildExits(c) \/ ClearState(c)
        BY <1>0, <1>1, <2>12, EnsureStep, BootFailsStep, ReadyStep, WriteStep, ChildExitsStep, ClearStep
    <2>13. CASE ReapFails(c)
        BY <1>0, <1>1, <2>13, ReapFailsStep
    <2> QED
        BY <1>4, <2>3, <2>4, <2>5, <2>6, <2>7, <2>8, <2>9, <2>10, <2>11, <2>12, <2>13 DEF Command
<1> QED
    BY <1>2, <1>3, <1>4, NextCases

\* Unless it kills all, a command that runs alone neither signals nor kills a helper of a
\* booted device that it was not asked about (index.ts, findAvailablePort, killPortHolder and
\* killStreams).
THEOREM OthersAreSpared == Spec => StartsSpareOthers
<1>1. TypeOK /\ OwnInv /\ CalmInv /\ [Next]_vars =>
        [\A p \in Pids : \A c \in Commands :
         ( /\ calm /\ cmd'[c] # cmd[c] /\ cmd[c].op # "killAll" /\ Active(c)
           /\ helper[p].dev # cmd[c].dev /\ helper[p].dev \in booted
           /\ Running(p) )
         => (Alive(p)' => Running(p)') /\ (faults' = faults => Alive(p)')]_vars
    BY SpareStep
<1> QED
    BY <1>1, CalmInvariant, PTL DEF Spec, StartsSpareOthers

-----------------------------------------------------------------------------
(* A start that is left alone.                                              *)

\* From its reap on, what runs for its device is named by the device's file, then nothing,
\* then its child; from killPortHolder on, only the child can hold its port.
AloneCommand(c) ==
    LET d == cmd[c].dev
        child == cmd[c].child
        At(pcs) == cmd[c].pc \in pcs
        Ours(q) == Running(q) /\ helper[q].dev = d
    IN  /\ At({"reap"}) => \A q \in Pids : Ours(q) /\ q \in cmd[c].tracked => file[d] = q
        /\ At({"read"}) => \A q \in Pids : Ours(q) => file[d] = q
        /\ At(Searched) => file[d] = None
        /\ At({"port", "boot", "spawn", "start"}) => ~Alive(child) /\ \A q \in Pids : ~Ours(q)
        /\ At({"wait", "write", "confirm"}) => \A q \in Pids : Ours(q) => q = child
        /\ At({"start"}) => \A q \in Pids : ~Holds(q, cmd[c].port)
        /\ At({"wait"}) => /\ \A q \in Pids : Holds(q, cmd[c].port) => q = child
                           /\ Alive(child) => Running(child)
        /\ At({"write", "confirm"}) => helper[child].life = "up" /\ Running(child)
        /\ At({"spawn", "start", "wait", "write", "confirm"}) => d \in booted
        /\ At({"confirm"}) => file[d] = child

AloneInv == \A c \in Commands : cmd[c].alone /\ cmd[c].op \in Starts => AloneCommand(c)

\* Other commands disturb it.
LEMMA AloneRest ==
    ASSUME Shape, NEW c \in Commands, OthersWait(c),
           cmd'[c].alone /\ cmd'[c].op \in Starts => AloneCommand(c)'
    PROVE  AloneInv'
<1>1. ASSUME NEW k \in Commands \ {c} PROVE ~cmd'[k].alone
    <2>1. cmd[k] \in Cmd /\ cmd'[k] = [cmd[k] EXCEPT !.alone = FALSE]
        BY DEF Shape, OthersWait
    <2> QED
        BY <2>1 DEF Cmd
<1> QED
    BY <1>1 DEF AloneInv

\* A read in which the helper of a booted device, or one that no file names, goes unharmed.
LEMMA ReadingKeeps ==
    ASSUME Shape, OwnInv, NEW ds \in SUBSET Devices, NEW view \in Views, ReadEffect(ds, view),
           NEW p \in Pids, Running(p), helper[p].dev \in booted \/ file[helper[p].dev] # p
    PROVE  Running(p)'
<1> SUFFICES ASSUME ~Running(p)' PROVE FALSE
    OBVIOUS
<1>1. PICK d \in ds : file[d] = p /\ d \notin view
    BY DEF ReadEffect
<1>2. helper[p].dev = d
    BY <1>1, Constants DEF OwnInv, FilesOwned, Own
<1> QED
    BY <1>1, <1>2, ViewsKnown

LEMMA AloneCommands ==
    ASSUME Shape, OwnInv, AloneInv, NEW c \in Commands, Command(c) \/ Crash(c)
    PROVE  AloneInv'
<1>0. /\ cmd[c] \in Cmd /\ CommandOwned(c) /\ (Active(c) => cmd[c].dev \in Devices)
    BY DEF Shape, OwnInv, CommandOwned
<1>1. CASE Begin(c)
    <2>1. /\ OthersWait(c) /\ cmd'[c].pc \in {"track", "read"}
          /\ (cmd'[c].op \in Starts => cmd'[c].pc = "track")
        BY <1>1, BeginStep
    <2>2. cmd'[c].op \in Starts => AloneCommand(c)'
        BY <2>1 DEF AloneCommand, Searched
    <2> QED
        BY <2>1, <2>2, AloneRest
<1>2. ASSUME cmd'[c].op = "kill", OthersWait(c) PROVE AloneInv'
    BY <1>2, AloneRest DEF Starts
<1>3. CASE BootFails(c) \/ Confirm(c) \/ ChildExits(c) \/ ClearState(c) \/ Crash(c)
    <2>1. Confirm(c) \/ ChildExits(c) => cmd[c].dev \in Devices
        BY <1>0 DEF Confirm, ChildExits, Active
    <2> QED
        BY <1>2, <1>3, <2>1, BootFailsStep, ConfirmStep, ChildExitsStep, ClearStep, CrashStep
<1>18. CASE ReapFails(c)
    BY <1>18, ReapFailsStep, AloneRest
<1>4. CASE KillReads(c) \/ KillSignals(c)
    <2>1. cmd[c].op \notin Starts /\ cmd[c].dev \in Devices
        BY <1>0, <1>4 DEF KillReads, KillSignals, CommandOwned, Active
    <2>2. cmd'[c].op = "kill" \/ cmd'[c].op = cmd[c].op
        <3>1. CASE KillReads(c)
            <4>1. PICK view \in Views :
                    \/ cmd'[c].op = "kill"
                    \/ cmd'[c] = [cmd[c] EXCEPT !.pc = "signal", !.tracked = NamedBy(Scope(c), view)]
                BY <2>1, <3>1, KillReadsStep
            <4> QED
                BY <1>0, <4>1 DEF Cmd
        <3>2. CASE KillSignals(c)
            <4>1. cmd'[c] = [cmd[c] EXCEPT !.pc = "clear"]
                BY <3>2, KillSignalsStep
            <4> QED
                BY <1>0, <4>1 DEF Cmd
        <3> QED
            BY <1>4, <3>1, <3>2
    <2>3. OthersWait(c)
        BY <1>4, <2>1, KillReadsStep, KillSignalsStep
    <2> QED
        BY <2>1, <2>2, <2>3, AloneRest DEF Starts
<1>5. CASE Interrupt(c)
    <2>1. cmd'[c] = [cmd[c] EXCEPT !.pc = "clear"] /\ OthersWait(c)
        BY <1>5, InterruptStep
    <2>2. cmd'[c].pc = "clear"
        BY <1>0, <2>1 DEF Cmd
    <2>3. AloneCommand(c)'
        BY <2>2 DEF AloneCommand, Searched
    <2> QED
        BY <2>1, <2>3, AloneRest
<1>6. CASE Track(c)
    <2>1. PICK view \in Views :
                /\ ReadEffect(Devices, view)
                /\ cmd'[c] = [cmd[c] EXCEPT !.pc = "reap", !.tracked = NamedBy(Devices, view)]
        BY <1>6, TrackStep
    <2>2. /\ cmd'[c].pc = "reap" /\ cmd'[c].dev = cmd[c].dev /\ cmd'[c].tracked = NamedBy(Devices, view)
        BY <1>0, <2>1 DEF Cmd
    <2>3. ASSUME NEW q \in Pids, Running(q)', helper'[q].dev = cmd[c].dev, q \in NamedBy(Devices, view)
          PROVE  file'[cmd[c].dev] = q
        <3>1. helper[q].dev = cmd[c].dev
            BY <2>1, <2>3 DEF ReadEffect, Steady, Decline
        <3>2. PICK x \in Devices : file[x] = q /\ NamesLive(x, view)
            BY <2>3, NamedByType
        <3>3. x = cmd[c].dev
            BY <3>1, <3>2, Constants DEF OwnInv, FilesOwned, Own
        <3> QED
            BY <2>1, <3>2, <3>3 DEF ReadEffect
    <2>4. AloneCommand(c)'
        BY <2>2, <2>3 DEF AloneCommand, Searched
    <2> QED
        BY <1>6, <2>4, TrackStep, AloneRest
<1> SUFFICES ASSUME cmd'[c].alone, cmd'[c].op \in Starts, OthersWait(c),
                    Reap(c) \/ Read(c) \/ FindAvailablePort(c) \/ EnsureBooted(c) \/ KillPortHolder(c)
                    \/ Spawn(c) \/ Ready(c) \/ NotReady(c) \/ WriteState(c)
             PROVE  AloneCommand(c)'
    <2>1. CASE Reap(c) \/ Read(c) \/ FindAvailablePort(c) \/ EnsureBooted(c) \/ KillPortHolder(c)
               \/ Spawn(c) \/ Ready(c) \/ NotReady(c) \/ WriteState(c)
        <3>1. Active(c)
            BY <2>1 DEF Reap, Read, FindAvailablePort, EnsureBooted, KillPortHolder, Spawn, Ready, NotReady,
               WriteState, Active
        <3>2. OthersWait(c)
            BY <1>0, <2>1, <3>1, ReapStep, ReadStep, PortStep, EnsureStep, KillHolderStep, SpawnStep,
               ReadyStep, NotReadyStep, WriteStep
        <3> QED
            BY <2>1, <3>2, AloneRest
    <2> QED
        BY <1>1, <1>3, <1>4, <1>5, <1>6, <1>18, <2>1 DEF Command
<1>7. cmd[c].dev \in Devices /\ cmd[c].child \in Pids \cup {None}
    <2>1. Active(c)
        BY DEF Reap, Read, FindAvailablePort, EnsureBooted, KillPortHolder, Spawn, Ready, NotReady,
           WriteState, Active
    <2> QED
        BY <1>0, <2>1 DEF Cmd
<1>8. ASSUME cmd[c].alone, cmd[c].op \in Starts PROVE AloneCommand(c)
    BY <1>8 DEF AloneInv
<1> DEFINE d == cmd[c].dev
<1>9. CASE Reap(c)
    <2>1. /\ UNCHANGED file /\ cmd'[c] = [cmd[c] EXCEPT !.pc = "read", !.tracked = {}] /\ Steady
          /\ \A p \in Pids : p \in Orphans(c) => ~Running(p)'
          /\ cmd[c].pc = "reap"
        BY <1>9, ReapStep DEF Reap
    <2>2. /\ cmd'[c].pc = "read" /\ cmd'[c].dev = d /\ cmd'[c].op = cmd[c].op
          /\ cmd'[c].alone = cmd[c].alone
        BY <1>0, <2>1 DEF Cmd
    <2>3. \A q \in Pids : Running(q) /\ helper[q].dev = d /\ q \in cmd[c].tracked => file[d] = q
        BY <1>8, <2>1, <2>2 DEF AloneCommand
    <2>4. ASSUME NEW q \in Pids, Running(q)', helper'[q].dev = d PROVE file'[d] = q
        <3>1. Running(q) /\ helper[q].dev = d /\ q \notin Orphans(c)
            BY <2>1, <2>4 DEF Steady, Decline
        <3>2. q \in cmd[c].tracked
            BY <3>1 DEF Orphans, Running
        <3> QED
            BY <2>1, <2>3, <3>1, <3>2
    <2> QED
        BY <2>2, <2>4 DEF AloneCommand, Searched
<1>10. CASE Read(c)
    <2>1. PICK view \in Views :
                /\ ReadEffect({d}, view)
                /\ \/ cmd'[c].op = "kill"
                   \/ ~NamesLive(d, view) /\ cmd'[c] = [cmd[c] EXCEPT !.pc = "port"]
        BY <1>7, <1>10, ReadStep
    <2>2. /\ ~NamesLive(d, view) /\ cmd'[c] = [cmd[c] EXCEPT !.pc = "port"] /\ cmd[c].pc = "read"
        BY <1>10, <2>1 DEF Starts, Read
    <2>3. /\ cmd'[c].pc = "port" /\ cmd'[c].dev = d /\ cmd'[c].op = cmd[c].op
          /\ cmd'[c].alone = cmd[c].alone /\ cmd'[c].child = cmd[c].child
        BY <1>0, <2>2 DEF Cmd
    <2>4. \A q \in Pids : Running(q) /\ helper[q].dev = d => file[d] = q
        BY <1>8, <2>2, <2>3 DEF AloneCommand
    <2>5. file'[d] = None
        BY <2>1, <2>2 DEF ReadEffect
    <2>6. ASSUME NEW q \in Pids, Running(q)', helper'[q].dev = d PROVE FALSE
        <3>1. Running(q) /\ helper[q].dev = d
            BY <2>1, <2>6 DEF ReadEffect, Steady, Decline
        <3>2. file[d] = q
            BY <2>4, <3>1
        <3> QED
            BY <1>7, <2>1, <2>5, <2>6, <3>2, Constants DEF ReadEffect
    <2>7. ~Alive(cmd[c].child)'
        <3>1. cmd[c].child = None
            BY <1>0, <2>2 DEF CommandOwned
        <3> QED
            BY <2>3, <3>1 DEF Alive
    <2> QED
        BY <2>3, <2>5, <2>6, <2>7 DEF AloneCommand, Searched
<1>11. CASE FindAvailablePort(c)
    <2>1. PICK view \in Views, port \in Ports :
                /\ ReadEffect(Devices, view)
                /\ cmd'[c] = [cmd[c] EXCEPT !.pc = "boot", !.port = port]
        BY <1>11, PortStep
    <2>2. /\ cmd'[c].pc = "boot" /\ cmd'[c].dev = d /\ cmd'[c].op = cmd[c].op
          /\ cmd'[c].alone = cmd[c].alone /\ cmd'[c].child = cmd[c].child
        BY <1>0, <2>1 DEF Cmd
    <2>3. /\ file[d] = None /\ ~Alive(cmd[c].child)
          /\ \A q \in Pids : ~(Running(q) /\ helper[q].dev = d)
        BY <1>8, <1>11, <2>2 DEF AloneCommand, Searched, FindAvailablePort
    <2>4. /\ file'[d] = None /\ ~Alive(cmd[c].child)'
          /\ \A q \in Pids : ~(Running(q)' /\ helper'[q].dev = d)
        BY <1>7, <2>1, <2>2, <2>3 DEF ReadEffect, Steady, Decline, Alive
    <2> QED
        BY <2>2, <2>4 DEF AloneCommand, Searched
<1>12. CASE EnsureBooted(c)
    <2>1. /\ UNCHANGED <<helper, file>> /\ booted' = booted \cup {d}
          /\ cmd'[c] = [cmd[c] EXCEPT !.pc = "spawn"] /\ cmd[c].pc = "boot"
        BY <1>7, <1>12, EnsureStep DEF EnsureBooted
    <2>2. /\ cmd'[c].pc = "spawn" /\ cmd'[c].dev = d /\ cmd'[c].op = cmd[c].op
          /\ cmd'[c].alone = cmd[c].alone /\ cmd'[c].child = cmd[c].child
        BY <1>0, <2>1 DEF Cmd
    <2>3. /\ file[d] = None /\ ~Alive(cmd[c].child)
          /\ \A q \in Pids : ~(Running(q) /\ helper[q].dev = d)
        BY <1>8, <2>1, <2>2 DEF AloneCommand, Searched
    <2>4. /\ file'[d] = None /\ ~Alive(cmd[c].child)' /\ d \in booted'
          /\ \A q \in Pids : ~(Running(q)' /\ helper'[q].dev = d)
        BY <2>1, <2>2, <2>3 DEF Alive, Running
    <2> QED
        BY <2>2, <2>4 DEF AloneCommand, Searched
<1>13. CASE KillPortHolder(c)
    <2>1. /\ UNCHANGED <<file, booted>> /\ Steady /\ cmd'[c] = [cmd[c] EXCEPT !.pc = "start"]
          /\ \A p \in Pids : ~Holds(p, cmd[c].port)'
          /\ cmd[c].pc = "spawn"
        BY <1>13, KillHolderStep DEF KillPortHolder
    <2>2. /\ cmd'[c].pc = "start" /\ cmd'[c].dev = d /\ cmd'[c].op = cmd[c].op
          /\ cmd'[c].alone = cmd[c].alone /\ cmd'[c].child = cmd[c].child
        BY <1>0, <2>1 DEF Cmd
    <2>3. /\ file[d] = None /\ ~Alive(cmd[c].child) /\ d \in booted
          /\ \A q \in Pids : ~(Running(q) /\ helper[q].dev = d)
        BY <1>8, <2>1, <2>2 DEF AloneCommand, Searched
    <2>4. /\ file'[d] = None /\ ~Alive(cmd[c].child)' /\ d \in booted'
          /\ \A q \in Pids : ~(Running(q)' /\ helper'[q].dev = d)
        BY <1>7, <2>1, <2>2, <2>3 DEF Steady, Decline, Alive
    <2> QED
        BY <2>1, <2>2, <2>4 DEF AloneCommand, Searched
<1>14. CASE Spawn(c)
    <2>1. PICK p \in Pids :
                /\ helper'[p] = [life |-> "loading", dev |-> cmd[c].dev, port |-> cmd[c].port,
                                 term |-> FALSE]
                /\ \A q \in Pids : q # p => helper'[q] = helper[q]
                /\ cmd'[c] = [cmd[c] EXCEPT !.pc = "wait", !.child = p]
        BY <1>14, SpawnStep
    <2>2. /\ cmd'[c].pc = "wait" /\ cmd'[c].dev = d /\ cmd'[c].op = cmd[c].op
          /\ cmd'[c].alone = cmd[c].alone /\ cmd'[c].child = p /\ cmd'[c].port = cmd[c].port
        <3>1. cmd'[c] = [cmd[c] EXCEPT !.pc = "wait", !.child = p]
            BY <2>1
        <3> QED
            BY <1>0, <3>1 DEF Cmd
    <2>3. UNCHANGED <<file, booted>> /\ cmd[c].pc = "start"
        BY <1>14, SpawnStep
    <2>4. /\ file[d] = None /\ d \in booted
          /\ \A q \in Pids : ~(Running(q) /\ helper[q].dev = d)
          /\ \A q \in Pids : ~Holds(q, cmd[c].port)
        BY <1>8, <2>2, <2>3 DEF AloneCommand, Searched
    <2>5. helper'[p].life = "loading" /\ ~helper'[p].term
        BY <2>1
    <2>6. \A q \in Pids : q # p => ~(Running(q)' /\ helper'[q].dev = d)
        BY <2>1, <2>4 DEF Running, Alive
    <2>7. \A q \in Pids : ~(helper'[q].life = "up" /\ helper'[q].port = cmd[c].port)
        BY <2>1, <2>4, <2>5 DEF Holds
    <2>8. Running(p)'
        BY <2>5, Constants DEF Running, Alive
    <2> QED
        BY <2>2, <2>3, <2>4, <2>6, <2>7, <2>8 DEF AloneCommand, Searched, Holds
<1>15. CASE Ready(c)
    <2>1. /\ UNCHANGED <<helper, file, booted>> /\ cmd'[c] = [cmd[c] EXCEPT !.pc = "write"]
          /\ cmd[c].pc = "wait" /\ Alive(cmd[c].child) /\ \E p \in Pids : Holds(p, cmd[c].port)
        BY <1>15, ReadyStep DEF Ready
    <2>2. /\ cmd'[c].pc = "write" /\ cmd'[c].dev = d /\ cmd'[c].op = cmd[c].op
          /\ cmd'[c].alone = cmd[c].alone /\ cmd'[c].child = cmd[c].child
        BY <1>0, <2>1 DEF Cmd
    <2>3. /\ file[d] = None /\ d \in booted
          /\ \A q \in Pids : Running(q) /\ helper[q].dev = d => q = cmd[c].child
          /\ \A q \in Pids : Holds(q, cmd[c].port) => q = cmd[c].child
          /\ Running(cmd[c].child)
        BY <1>8, <2>1, <2>2 DEF AloneCommand, Searched
    <2>4. helper[cmd[c].child].life = "up"
        BY <2>1, <2>3 DEF Holds
    <2>5. /\ file'[d] = None /\ d \in booted'
          /\ \A q \in Pids : Running(q)' /\ helper'[q].dev = d => q = cmd[c].child
          /\ helper'[cmd[c].child].life = "up" /\ Running(cmd[c].child)'
        BY <2>1, <2>2, <2>3, <2>4 DEF Running, Alive
    <2> QED
        BY <2>2, <2>5 DEF AloneCommand, Searched
<1>16. CASE NotReady(c)
    <2>1. /\ UNCHANGED <<file, booted>> /\ Steady /\ cmd[c].pc = "wait"
          /\ \A p \in Pids : p = cmd[c].child => ~Alive(p)'
          /\ cmd'[c] = [cmd[c] EXCEPT !.pc = "spawn", !.attempt = 2]
        BY <1>16, NotReadyStep DEF NotReady, Starts
    <2>2. /\ cmd'[c].pc = "spawn" /\ cmd'[c].dev = d /\ cmd'[c].op = cmd[c].op
          /\ cmd'[c].alone = cmd[c].alone /\ cmd'[c].child = cmd[c].child
        BY <1>0, <2>1 DEF Cmd
    <2>3. /\ file[d] = None /\ d \in booted
          /\ \A q \in Pids : Running(q) /\ helper[q].dev = d => q = cmd[c].child
        BY <1>8, <2>1, <2>2 DEF AloneCommand, Searched
    <2>4. ~Alive(cmd[c].child)'
        BY <1>7, <2>1, <2>2 DEF Alive
    <2>5. \A q \in Pids : ~(Running(q)' /\ helper'[q].dev = d)
        BY <2>1, <2>3 DEF Steady, Decline, Running
    <2> QED
        BY <2>1, <2>2, <2>3, <2>4, <2>5 DEF AloneCommand, Searched
<1>17. CASE WriteState(c)
    <2>1. /\ UNCHANGED <<helper, booted>> /\ file'[d] = cmd[c].child /\ cmd[c].pc = "write"
          /\ \/ cmd'[c] = [cmd[c] EXCEPT !.pc = "confirm"]
             \/ cmd'[c] = [cmd[c] EXCEPT !.pc = "following"]
        BY <1>7, <1>17, WriteStep DEF WriteState
    <2>2. /\ cmd'[c].pc \in {"confirm", "following"} /\ cmd'[c].dev = d /\ cmd'[c].op = cmd[c].op
          /\ cmd'[c].alone = cmd[c].alone /\ cmd'[c].child = cmd[c].child
        <3>1. CASE cmd'[c] = [cmd[c] EXCEPT !.pc = "confirm"]
            BY <1>0, <3>1 DEF Cmd
        <3>2. CASE cmd'[c] = [cmd[c] EXCEPT !.pc = "following"]
            BY <1>0, <3>2 DEF Cmd
        <3> QED
            BY <2>1, <3>1, <3>2
    <2>3. /\ d \in booted
          /\ \A q \in Pids : Running(q) /\ helper[q].dev = d => q = cmd[c].child
          /\ helper[cmd[c].child].life = "up" /\ Running(cmd[c].child)
        BY <1>8, <2>1, <2>2 DEF AloneCommand
    <2>4. /\ d \in booted'
          /\ \A q \in Pids : Running(q)' /\ helper'[q].dev = d => q = cmd[c].child
          /\ helper'[cmd[c].child].life = "up" /\ Running(cmd[c].child)'
        BY <2>1, <2>2, <2>3 DEF Running, Alive
    <2> QED
        BY <2>1, <2>2, <2>4 DEF AloneCommand, Searched
<1> QED
    BY <1>9, <1>10, <1>11, <1>12, <1>13, <1>14, <1>15, <1>16, <1>17

\* What a step of the machine must leave to a start that stays alone.
LEMMA AloneStays ==
    ASSUME Shape, OwnInv, NEW c \in Commands, AloneCommand(c), cmd[c].op \in Starts, Decline,
           UNCHANGED booted, cmd'[c] = cmd[c],
           \A d \in Devices : file'[d] = file[d] \/ file'[d] = None,
           Forgets,
           cmd[c].pc \in {"wait", "write", "confirm"} =>
             \A q \in Pids : Running(q) /\ q = cmd[c].child
                             => /\ Alive(q)' => Running(q)'
                                /\ helper[q].life = "up" => helper'[q].life = "up",
           cmd[c].pc \in {"start", "wait"} =>
             \A q \in Pids : helper'[q].life = "up" /\ helper[q].life # "up"
                             => helper[q].port # cmd[c].port \/ q = cmd[c].child
    PROVE  AloneCommand(c)'
<1> DEFINE d == cmd[c].dev
           child == cmd[c].child
           Ours(q) == Running(q) /\ helper[q].dev = d
<1>0. CommandOwned(c) /\ d \in Devices /\ child \in Pids \cup {None}
    BY DEF OwnInv, CommandOwned, Shape, Cmd
<1>1. \A q \in Pids : Running(q)' /\ helper'[q].dev = d => Ours(q)
    BY DEF Decline
<1>2. \A q \in Pids : Running(q)' /\ file[d] = q => file'[d] = q
    BY <1>0 DEF Forgets
<1>3. cmd[c].pc \in Searched => file[d] = None
    BY DEF AloneCommand
<1>4. cmd[c].pc = "reap" => \A q \in Pids : Running(q)' /\ helper'[q].dev = d /\ q \in cmd[c].tracked
                                            => file'[d] = q
    BY <1>1, <1>2 DEF AloneCommand
<1>5. cmd[c].pc = "read" => \A q \in Pids : Running(q)' /\ helper'[q].dev = d => file'[d] = q
    BY <1>1, <1>2 DEF AloneCommand
<1>6. cmd[c].pc \in Searched => file'[d] = None
    BY <1>0, <1>3
<1>7. cmd[c].pc \in {"port", "boot", "spawn", "start"} =>
        /\ ~(child # None /\ helper'[child].life \in {"loading", "up"})
        /\ \A q \in Pids : ~(Running(q)' /\ helper'[q].dev = d)
    <2>1. cmd[c].pc \in {"port", "boot", "spawn", "start"} => ~Alive(child) /\ \A q \in Pids : ~Ours(q)
        BY DEF AloneCommand
    <2>2. \A q \in Pids : q # None /\ helper'[q].life \in {"loading", "up"} => Alive(q)
        BY DEF Decline, Alive
    <2> QED
        BY <1>0, <1>1, <2>1, <2>2
<1>8. cmd[c].pc \in {"wait", "write", "confirm"} =>
        \A q \in Pids : Running(q)' /\ helper'[q].dev = d => q = child
    BY <1>1 DEF AloneCommand
<1>9. cmd[c].pc \in {"wait", "write", "confirm"} => child \in Pids
    BY <1>0 DEF CommandOwned, Spawned, Own
<1>10. ASSUME cmd[c].pc \in {"start", "wait"}, NEW q \in Pids, helper'[q].life = "up", helper'[q].port = cmd[c].port
       PROVE  cmd[c].pc = "wait" /\ q = child
    <2>1. helper[q].port = cmd[c].port /\ Alive(q)
        BY <1>10, Constants DEF Decline, Alive
    <2>2. cmd[c].pc = "start" => q # child
        BY <2>1 DEF AloneCommand
    <2>3. helper[q].life = "up" \/ q = child
        BY <1>10, <2>1
    <2> QED
        BY <1>10, <2>1, <2>2, <2>3 DEF AloneCommand, Holds
<1>11. cmd[c].pc = "wait" /\ Alive(child)' => Running(child)'
    <2> SUFFICES ASSUME cmd[c].pc = "wait", Alive(child)' PROVE Running(child)'
        OBVIOUS
    <2>1. Alive(child)
        BY <1>9 DEF Decline, Alive
    <2>2. Running(child)
        BY <2>1 DEF AloneCommand
    <2>3. \A q \in Pids : q = child /\ Alive(q)' => Running(q)'
        BY <2>2
    <2> QED
        BY <1>9, <2>3 DEF Running, Alive
<1>12. cmd[c].pc \in {"write", "confirm"} => helper'[child].life = "up" /\ Running(child)'
    <2> SUFFICES ASSUME cmd[c].pc \in {"write", "confirm"}
                 PROVE  helper'[child].life = "up" /\ Running(child)'
        OBVIOUS
    <2>1. helper[child].life = "up" /\ Running(child)
        BY DEF AloneCommand
    <2>2. \A q \in Pids : q = child => helper'[q].life = "up" /\ (Alive(q)' => Running(q)')
        BY <2>1
    <2>3. \A q \in Pids : helper'[q].life = "up" => Alive(q)'
        BY Constants DEF Alive
    <2> QED
        BY <1>9, <2>2, <2>3 DEF Running, Alive
<1>13. cmd[c].pc \in {"spawn", "start", "wait", "write", "confirm"} => d \in booted'
    BY DEF AloneCommand
<1>14. cmd[c].pc = "confirm" => file'[d] = child
    <2> SUFFICES ASSUME cmd[c].pc = "confirm" PROVE file'[d] = child
        OBVIOUS
    <2>1. file[d] = child
        BY DEF AloneCommand
    <2>2. Running(child)'
        BY <1>12
    <2> QED
        BY <1>2, <1>9, <2>1, <2>2 DEF Running, Alive
<1> QED
    BY <1>4, <1>5, <1>6, <1>7, <1>8, <1>10, <1>11, <1>12, <1>13, <1>14 DEF AloneCommand, Alive, Holds

LEMMA AloneMachine ==
    ASSUME Shape, OwnInv, AloneInv, Machine
    PROVE  AloneInv'
<1> SUFFICES ASSUME NEW c \in Commands, cmd'[c].alone, cmd'[c].op \in Starts PROVE AloneCommand(c)'
    BY DEF AloneInv
<1>1. Decline /\ cmd'[c] = cmd[c]
    <2>1. Stay /\ cmd[c] \in Cmd
        BY MachineStep DEF Shape
    <2>2. ~[cmd[c] EXCEPT !.alone = FALSE].alone
        BY <2>1 DEF Cmd
    <2> QED
        BY <2>1, <2>2, MachineStep DEF Stay
<1>2. AloneCommand(c) /\ cmd[c].op \in Starts
    BY <1>1 DEF AloneInv
<1>3. CommandOwned(c) /\ cmd[c].dev \in Devices
    BY <1>2 DEF OwnInv, CommandOwned
<1>4. ASSUME NEW p \in Pids, Bind(p) PROVE AloneCommand(c)'
    <2>1. /\ UNCHANGED <<file, booted>> /\ helper[p].life = "loading" /\ ~helper[p].term
          /\ \A q \in Pids : q # p => helper'[q] = helper[q]
          /\ helper'[p].term = helper[p].term
          /\ helper'[p].life = "up" =>
               (cmd[c].pc \in {"start", "wait"} /\ cmd[c].port = helper[p].port => cmd[c].child = p)
          /\ helper'[p].life = "dead" => \E q \in Pids : Holds(q, helper[p].port)
          /\ helper'[p].life \in {"up", "dead"}
        BY <1>1, <1>4, BindStep
    <2>2. \A q \in Pids : Running(q) => /\ Alive(q)' => Running(q)'
                                        /\ helper[q].life = "up" => helper'[q].life = "up"
        BY <2>1 DEF Running, Alive
    <2>3. cmd[c].pc \in {"start", "wait"} =>
            \A q \in Pids : helper'[q].life = "up" /\ helper[q].life # "up"
                            => helper[q].port # cmd[c].port \/ q = cmd[c].child
        BY <2>1
    <2> QED
        BY <1>1, <1>2, <2>1, <2>2, <2>3, AloneStays DEF Forgets
<1>5. ASSUME NEW p \in Pids, Exit(p) PROVE AloneCommand(c)'
    <2>1. /\ UNCHANGED <<file, booted>> /\ Steady /\ ~Running(p)
          /\ \A q \in Pids : q # p => helper'[q] = helper[q]
        BY <1>5, ExitStep DEF Running
    <2>2. \A q \in Pids : Running(q) => helper'[q] = helper[q]
        BY <2>1
    <2>3. \A q \in Pids : Running(q) => Running(q)'
        BY <2>2 DEF Running, Alive
    <2>4. \A q \in Pids : Running(q) => (helper[q].life = "up" => helper'[q].life = "up")
        BY <2>2
    <2> QED
        BY <1>1, <1>2, <2>1, <2>3, <2>4, AloneStays DEF Forgets, Steady
<1>6. ASSUME Poll PROVE AloneCommand(c)'
    <2>1. PICK view \in Views : ReadEffect(Devices, view)
        BY <1>6, PollStep
    <2>2. UNCHANGED booted
        BY <1>6, PollStep
    <2>3. ASSUME NEW q \in Pids, Running(q), q = cmd[c].child, cmd[c].pc \in {"wait", "write", "confirm"}
          PROVE  Running(q)'
        <3>1. helper[q].dev = cmd[c].dev
            BY <1>3, <2>3 DEF CommandOwned, Spawned, Own
        <3>2. CASE cmd[c].pc \in {"wait", "write"}
            <4>1. file[cmd[c].dev] # q
                BY <1>2, <3>2, Constants DEF AloneCommand, Searched
            <4> QED
                BY <2>1, <2>3, <3>1, <4>1, ReadingKeeps
        <3>3. CASE cmd[c].pc = "confirm"
            <4>1. cmd[c].dev \in booted
                BY <1>2, <3>3 DEF AloneCommand
            <4> QED
                BY <2>1, <2>3, <3>1, <4>1, ReadingKeeps
        <3> QED
            BY <2>3, <3>2, <3>3
    <2> QED
        BY <1>1, <1>2, <2>1, <2>2, <2>3, AloneStays DEF ReadEffect, Forgets, Steady
<1>7. ASSUME NEW p \in Pids, HelperDies(p) PROVE FALSE
    BY <1>7, DiesStep DEF NoneAlone
<1>8. ASSUME NEW x \in Devices, Shutdown(x) \/ Sweep(x) PROVE FALSE
    BY <1>8, ShutdownStep, SweepStep DEF NoneAlone
<1> QED
    BY <1>4, <1>5, <1>6, <1>7, <1>8 DEF Machine

LEMMA AloneInvariant == Spec => [](TypeOK /\ OwnInv /\ AloneInv)
<1>1. Init => TypeOK /\ OwnInv /\ AloneInv
    <2>1. Init => AloneInv
        BY DEF Init, Idle, AloneInv
    <2> QED
        BY <2>1, InitTypes
<1>2. ASSUME TypeOK, OwnInv, AloneInv, [Next]_vars PROVE AloneInv'
    <2>1. CASE UNCHANGED vars
        <3>1. ASSUME NEW c \in Commands, AloneCommand(c) PROVE AloneCommand(c)'
            BY <2>1, <3>1 DEF vars, AloneCommand, Running, Alive, Holds
        <3> QED
            BY <1>2, <2>1, <3>1 DEF vars, AloneInv
    <2>2. CASE Next
        BY <2>2, <1>2, TypeIsShape, NextCases, AloneCommands, AloneMachine
    <2> QED
        BY <1>2, <2>1, <2>2
<1>3. (TypeOK /\ OwnInv /\ AloneInv) /\ [Next]_vars => (TypeOK /\ OwnInv /\ AloneInv)'
    BY <1>2, TypesStep
<1> QED
    BY <1>1, <1>3, PTL DEF Spec

\* What a start that no other command, no fault and no stray helper on its port disturbed has
\* achieved when it succeeds, whatever was there before it: its device has one live helper,
\* named by its state file, and every other helper of the device is on its way out (index.ts,
\* reapOrphanHelpers, startHelper, detach and follow).
THEOREM StartsLeaveOneHelper == Spec => OneHelperAfterStart
<1>1. ASSUME TypeOK, OwnInv, AloneInv, [Next]_vars, NEW c \in Commands,
             cmd[c].pc \in {"read", "write", "confirm"}, cmd[c].op \in Starts,
             cmd'[c].alone, cmd'[c].pc \in {"done", "following"}
      PROVE  LET p == file'[cmd[c].dev]
             IN  /\ Alive(p) /\ helper[p].dev = cmd[c].dev
                 /\ \A q \in Pids \ {p} : helper[q].dev = cmd[c].dev => ~Running(q)
                 /\ (p = cmd[c].child => Running(p))
    <2> DEFINE d == cmd[c].dev
    <2>0. /\ Shape /\ cmd[c] \in Cmd /\ CommandOwned(c) /\ d \in Devices
        BY <1>1, TypeIsShape DEF Shape, OwnInv, CommandOwned
    <2>1. cmd'[c].pc # cmd[c].pc
        BY <1>1
    <2>2. Command(c)
        <3>1. CASE UNCHANGED vars
            BY <2>1, <3>1 DEF vars
        <3>2. ASSUME \E k \in Commands \ {c} : OthersWait(k) PROVE FALSE
            <4>1. cmd'[c] = [cmd[c] EXCEPT !.alone = FALSE]
                BY <3>2 DEF OthersWait
            <4> QED
                BY <2>0, <2>1, <4>1 DEF Cmd
        <3>3. CASE Machine
            <4>1. cmd'[c] = cmd[c] \/ cmd'[c] = [cmd[c] EXCEPT !.alone = FALSE]
                BY <2>0, <3>3, MachineStep DEF Stay
            <4> QED
                BY <2>0, <2>1, <4>1 DEF Cmd
        <3>4. ASSUME NEW k \in Commands, Command(k) \/ Crash(k) PROVE OthersWait(k)
            BY <1>1, <2>0, <3>4, CommandTypes
        <3>5. ~Crash(c)
            BY <1>1, <2>0, CrashStep
        <3> QED
            BY <1>1, <3>1, <3>2, <3>3, <3>4, <3>5, NextCases
    <2>3. Read(c) \/ WriteState(c) \/ Confirm(c)
        BY <1>1, <2>2 DEF Command, Begin, Track, Reap, ReapFails, FindAvailablePort, EnsureBooted, BootFails,
           KillPortHolder, Spawn, Ready, NotReady, ChildExits, Interrupt, KillReads, KillSignals,
           ClearState, Active
    <2>4. cmd[c].alone => AloneCommand(c)
        BY <1>1 DEF AloneInv
    <2>5. CASE Read(c)
        <3>1. PICK view \in Views : /\ ReadEffect({d}, view)
                                    /\ \/ NamesLive(d, view) /\ cmd'[c].alone = cmd[c].alone
                                       \/ cmd'[c] = [cmd[c] EXCEPT !.pc = "port"]
            BY <2>0, <2>5, ReadStep
        <3>2. NamesLive(d, view) /\ cmd[c].alone
            <4>1. CASE cmd'[c] = [cmd[c] EXCEPT !.pc = "port"]
                BY <1>1, <2>0, <4>1 DEF Cmd
            <4> QED
                BY <1>1, <3>1, <4>1
        <3>3. /\ file'[d] = file[d] /\ Alive(file[d]) /\ helper[file[d]].dev = d
              /\ file[d] \in Pids
            BY <1>1, <2>0, <3>1, <3>2 DEF ReadEffect, NamesLive, Alive, OwnInv, FilesOwned, Own
        <3>4. \A q \in Pids : Running(q) /\ helper[q].dev = d => file[d] = q
            BY <2>4, <2>5, <3>2 DEF AloneCommand, Read
        <3>5. cmd[c].child = None
            BY <2>0, <2>5 DEF CommandOwned, Read
        <3> QED
            BY <3>3, <3>4, <3>5, Constants
    <2>6. CASE WriteState(c)
        <3>1. file'[d] = cmd[c].child /\ cmd[c].pc = "write"
            BY <2>0, <2>6, WriteStep DEF WriteState
        <3>2. cmd[c].alone
            <4>1. CASE cmd'[c] = [cmd[c] EXCEPT !.pc = "confirm"]
                BY <1>1, <2>0, <4>1 DEF Cmd
            <4>2. CASE cmd'[c] = [cmd[c] EXCEPT !.pc = "following"]
                BY <1>1, <2>0, <4>2 DEF Cmd
            <4> QED
                BY <2>0, <2>6, <4>1, <4>2, WriteStep
        <3>3. /\ Running(cmd[c].child)
              /\ \A q \in Pids : Running(q) /\ helper[q].dev = d => q = cmd[c].child
            BY <2>4, <3>1, <3>2 DEF AloneCommand
        <3>4. helper[cmd[c].child].dev = d
            BY <2>0, <3>1 DEF CommandOwned, Spawned, Own
        <3> QED
            BY <3>1, <3>3, <3>4 DEF Running
    <2>7. CASE Confirm(c)
        <3>1. PICK view \in Views :
                /\ ReadEffect({d}, view)
                /\ cmd'[c].pc = IF NamesLive(d, view) THEN "done" ELSE "over"
                /\ cmd'[c].alone = cmd[c].alone
            BY <2>0, <2>7, ConfirmStep
        <3>2. NamesLive(d, view) /\ cmd[c].alone /\ cmd[c].pc = "confirm"
            BY <1>1, <2>7, <3>1 DEF Confirm
        <3>3. /\ Running(cmd[c].child) /\ file[d] = cmd[c].child
              /\ \A q \in Pids : Running(q) /\ helper[q].dev = d => q = cmd[c].child
            BY <2>4, <3>2 DEF AloneCommand
        <3>4. helper[cmd[c].child].dev = d
            BY <2>0, <3>2 DEF CommandOwned, Spawned, Own
        <3>5. file'[d] = cmd[c].child
            BY <2>0, <3>1, <3>2, <3>3 DEF ReadEffect
        <3> QED
            BY <3>3, <3>4, <3>5 DEF Running
    <2> QED
        BY <2>3, <2>5, <2>6, <2>7
<1>2. TypeOK /\ OwnInv /\ AloneInv /\ [Next]_vars =>
        [\A c \in Commands :
         ( /\ cmd[c].pc \in {"read", "write", "confirm"} /\ cmd[c].op \in Starts
           /\ cmd'[c].alone /\ cmd'[c].pc \in {"done", "following"} )
         => LET p == file'[cmd[c].dev]
            IN  /\ Alive(p) /\ helper[p].dev = cmd[c].dev
                /\ \A q \in Pids \ {p} : helper[q].dev = cmd[c].dev => ~Running(q)
                /\ (p = cmd[c].child => Running(p))]_vars
    BY <1>1
<1> QED
    BY <1>2, AloneInvariant, PTL DEF Spec, OneHelperAfterStart
============================================================================
