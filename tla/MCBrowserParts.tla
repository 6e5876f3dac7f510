--------------------------- MODULE MCBrowserParts ---------------------------
(***************************************************************************)
(* Eight parts of the page, of its client library and of the preview       *)
(* server that share no state: touch throttling, gateway calls, the motion *)
(* session, the connection of a preview page, switching simulators, the    *)
(* control socket, one setting, and screen recording.  A behaviour runs    *)
(* one of them, chosen at the start, and the others rest: their product    *)
(* would show nothing more.                                                *)
(***************************************************************************)
EXTENDS Naturals

CONSTANTS Channels, MaxEvents,                              \* TouchThrottle
          Execs, Files,                                     \* GatewaySession
          Commands, Statuses, MaxAngles, Nobody,            \* MotionSession
          Helpers, MaxDeaths, MaxDrops, MaxBoots, MaxStrays,  \* PreviewConnection
          Devices, First, MaxAsks,                          \* DeviceSwitch
          Requests, MaxRestarts,                            \* ExecSocket
          Values, Opposite, Default, MaxClicks, MaxMounts, MaxPresses, MaxReads,   \* SimulatorSettings
          MaxRecorders, MaxSequence, MaxSession, Descriptions  \* ScreenRecording

VARIABLES
    part,
    touchSeq, down, waiting, elapsed, congested, touchClosed, wire,
    conn, link, gatewayCall, arrived, timeout, ponged, heartbeat,
    inFlight, writer, queued, reader, command, status, angleAsked, angle, failed, closed, overlapped,
    booted, boots, snapshot, helper, file, deaths, watcher, changed, compute, recompute, lastSent,
    pushed, drops, config, available, attaching, strays,
    history, at, shown, shell, busy, latest, asks, refused,
    cache, attempts, request, page, minted,
    sim, settingShown, settingFresh, revision, asked, clicks, mount, queue, presses, dock, late, reads, count,
    troubled, raced, crossed,
    source, hook, load, loaded, rec

ASSUME BrowserAssumption ==
    /\ {MaxEvents, MaxAngles, MaxDeaths, MaxDrops, MaxBoots, MaxStrays, MaxAsks, MaxRestarts, MaxClicks,
        MaxMounts, MaxPresses, MaxReads, MaxRecorders, MaxSequence, MaxSession} \subseteq Nat
    /\ 1 \in Helpers /\ First \in Devices
    /\ Default \in Values /\ "none" \notin Values /\ Opposite \in [Values -> Values] /\ MaxMounts > 0
    /\ 0 \notin Descriptions
    /\ "angle" \notin Commands
    /\ Nobody \notin {"angle", "command", "status"}
    /\ Nobody \notin [for : {"angle"} \cup Commands, angle : 0..MaxAngles,
                      phase : {"waits", "sent", "replied", "refused"}]

touch == <<touchSeq, down, waiting, elapsed, congested, touchClosed, wire>>
gateway == <<conn, link, gatewayCall, arrived, timeout, ponged, heartbeat>>
motion == <<inFlight, writer, queued, reader, command, status, angleAsked, angle, failed, closed, overlapped>>
preview == <<booted, boots, snapshot, helper, file, deaths, watcher, changed, compute, recompute,
             lastSent, pushed, drops, config, available, attaching, strays>>
switch == <<history, at, shown, shell, busy, latest, asks, refused>>
socket == <<cache, attempts, request, page, minted>>
setting == <<sim, settingShown, settingFresh, revision, asked, clicks, mount, queue, presses, dock, late, reads,
             count, troubled, raced, crossed>>
recording == <<source, hook, load, loaded, rec>>

Touch == INSTANCE TouchThrottle WITH closed <- touchClosed
Gateway == INSTANCE GatewaySession WITH request <- gatewayCall
Motion == INSTANCE MotionSession WITH asked <- angleAsked
Preview == INSTANCE PreviewConnection
Switch == INSTANCE DeviceSwitch
Socket == INSTANCE ExecSocket
Setting == INSTANCE SimulatorSettings WITH shown <- settingShown, fresh <- settingFresh
Recording == INSTANCE ScreenRecording

\* The appearance is light or dark.
MCOpposite == [light |-> "dark", dark |-> "light"]

-----------------------------------------------------------------------------
PartsInit ==
    /\ part \in {"touch", "gateway", "motion", "preview", "switch", "socket", "setting", "recording"}
    /\ Touch!TouchInit /\ Gateway!GatewayInit /\ Motion!MotionInit /\ Preview!PreviewInit
    /\ Switch!SwitchInit /\ Socket!ExecInit /\ Setting!SettingsInit /\ Recording!Init
    /\ part # "recording" => loaded   \* what rests, rests in one state
    /\ part # "gateway" => heartbeat

Touches ==
    /\ part = "touch" /\ Touch!TouchNext
    /\ UNCHANGED <<part, gateway, motion, preview, switch, socket, setting, recording>>
Relays ==
    /\ part = "gateway" /\ Gateway!GatewayNext
    /\ UNCHANGED <<part, touch, motion, preview, switch, socket, setting, recording>>
Moves ==
    /\ part = "motion" /\ Motion!MotionNext
    /\ UNCHANGED <<part, touch, gateway, preview, switch, socket, setting, recording>>
Previews ==
    /\ part = "preview" /\ Preview!PreviewNext
    /\ UNCHANGED <<part, touch, gateway, motion, switch, socket, setting, recording>>
Switches ==
    /\ part = "switch" /\ Switch!SwitchNext
    /\ UNCHANGED <<part, touch, gateway, motion, preview, socket, setting, recording>>
Executes ==
    /\ part = "socket" /\ Socket!ExecNext
    /\ UNCHANGED <<part, touch, gateway, motion, preview, switch, setting, recording>>
Sets ==
    /\ part = "setting" /\ Setting!SettingsNext
    /\ UNCHANGED <<part, touch, gateway, motion, preview, switch, socket, recording>>
Records ==
    /\ part = "recording" /\ Recording!Next
    /\ UNCHANGED <<part, touch, gateway, motion, preview, switch, socket, setting>>

PartsNext ==
    Touches \/ Relays \/ Moves \/ Previews \/ Switches \/ Executes \/ Sets \/ Records

\* The part that runs is scheduled as its module says.
PartsSpec ==
    /\ PartsInit
    /\ [][PartsNext]_<<part, touch, gateway, motion, preview, switch, socket, setting, recording>>
    /\ \/ []<>(part = "gateway") /\ Gateway!GatewayFairness
       \/ []<>(part = "preview") /\ Preview!PreviewFairness
       \/ []<>(part = "socket") /\ Socket!ExecFairness
       \/ []<>(part = "recording") /\ Recording!Fairness
       \/ []<>(part \in {"touch", "motion", "switch", "setting"})

-----------------------------------------------------------------------------
\* Every part's variables have their types.
PartsTypeOK ==
    /\ Touch!TouchTypeOK /\ Gateway!GatewayTypeOK /\ Motion!MotionTypeOK /\ Preview!PreviewTypeOK
    /\ Switch!SwitchTypeOK /\ Socket!ExecTypeOK /\ Setting!SettingsTypeOK /\ Recording!TypeOK

\* What a touch channel sends reads as gestures, in order (transport.ts:536-652).
WireInOrder == Touch!WireInOrder

\* A gateway call settles, also over a dead link, unless only the gateway can settle
\* it (transport.ts:205-478, 822-856).
CallsSettle == Gateway!CallsSettle

\* The simulator ends at the last angle asked for (device-motion.ts:176-255).
LatestAngleLands == Motion!LatestAngleLands

\* A page whose simulator stays booted ends on a live helper (middleware.ts:1914-2036).
ComesBack == part = "preview" => Preview!ComesBack

\* Device and URL agree at rest unless a click failed (client.tsx:355-392).
UrlAgreesUnlessRefused == Switch!UrlAgreesUnlessRefused

\* A request of the control socket stalls only behind a fetch of the token (exec.ts:73-209).
OnlyRefreshStalls == Socket!OnlyRefreshStalls

\* The last set of a setting lands unless two writers raced (latest-wins.ts:8-29).
LastSetLands == Setting!LastSetLands

\* An exported native recording plays (native-stream-recorder.ts:80-207).
ExportsDecodable == Recording!ExportsDecodable

\* ... and "Finishing" ends (use-screen-recording.ts:362-388).
StopEnds == Recording!StopEnds
=============================================================================
