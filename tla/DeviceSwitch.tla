---------------------------- MODULE DeviceSwitch ----------------------------
(***************************************************************************)
(* Switching simulators in place (client.tsx, device-switch.ts and         *)
(* latest-switch.ts).  A click starts the simulator and switches to its    *)
(* configuration at once, and again after the start when the first attempt *)
(* found nothing streaming; Back and Forward move the URL first and switch *)
(* to what it names.  Configurations land in any order.                    *)
(***************************************************************************)
EXTENDS Naturals, Sequences

CONSTANTS Devices,  \* the simulators
          First,    \* the one the page was opened on
          MaxAsks   \* bound: clicks, Backs and Forwards

VARIABLES
  history,  \* the devices of the session history's entries
  at,       \* the entry the URL shows
  shown,    \* the device of the mounted shell
  shell,    \* shellGeneration
  busy,     \* a click of this shell is under way: switching, switchingRef
  latest,   \* the newest switch of latestSwitch
  asks,     \* what was asked: [device, push, phase, id, shell]
  refused   \* a click failed, and nothing was applied since

svars == <<history, at, shown, shell, busy, latest, asks, refused>>

SwitchInit ==
  /\ history = <<First>> /\ at = 1 /\ shown = First /\ shell = 0
  /\ busy = FALSE /\ latest = 0 /\ asks = <<>> /\ refused = FALSE

Url == history[at]

\* runSwitch: the switch takes the next number and loads the configuration.
Ask(device, push) ==
  /\ Len(asks) < MaxAsks
  /\ latest' = latest + 1 /\ UNCHANGED refused
  /\ asks' = Append(asks, [device |-> device, push |-> push, phase |-> "loading",
                           id |-> latest', shell |-> shell])

\* A click on another simulator, unless this shell already switches.
Click(d) ==
  /\ ~busy /\ d # shown /\ busy' = TRUE
  /\ Ask(d, TRUE)
  /\ UNCHANGED <<history, at, shown, shell>>

\* Back and Forward: the URL has moved when the page hears of it.
Pop(step) ==
  /\ at + step \in DOMAIN history /\ at' = at + step
  /\ Ask(history[at'], FALSE)
  /\ UNCHANGED <<history, shown, shell, busy>>

Phase(k, phase) == asks' = [asks EXCEPT ![k].phase = phase]

\* Mutant: any configuration that lands is applied.
CurrentAny(k) == TRUE

\* Only the latest switch applies what it loaded, or fails.
Current(k) == asks[k].id = latest

\* The configuration lands: the new shell mounts, a click's URL is pushed.
Lands(k) ==
  /\ asks[k].phase \in {"loading", "again"} /\ Phase(k, "over")
  /\ IF Current(k)
     THEN /\ shown' = asks[k].device /\ shell' = shell + 1 /\ busy' = FALSE
          /\ history' = IF asks[k].push THEN SubSeq(history, 1, at) \o <<asks[k].device>>
                                        ELSE history
          /\ at' = IF asks[k].push THEN at + 1 ELSE at
          /\ refused' = FALSE
     ELSE UNCHANGED <<shown, shell, busy, history, at, refused>>
  /\ UNCHANGED latest

\* A superseded switch that finds no configuration neither applies nor fails.
LoadsNothing(k) ==
  /\ asks[k].phase \in {"loading", "again"} /\ ~Current(k) /\ Phase(k, "over")
  /\ UNCHANGED <<history, at, shown, shell, busy, latest, refused>>

\* The catch of a click: the page says that it couldn't switch.
ClickFails(k) ==
  /\ Phase(k, "over") /\ refused' = TRUE
  /\ busy' = (busy /\ asks[k].shell # shell)
  /\ UNCHANGED <<history, at, shown, shell, latest>>

\* A click finds nothing streaming yet and waits for its start.
NothingYet(k) ==
  /\ asks[k].push /\ asks[k].phase = "loading" /\ Current(k)
  /\ Phase(k, "starting")
  /\ UNCHANGED <<history, at, shown, shell, busy, latest, refused>>

\* The start went well: the click switches again, as a new latest switch.
Started(k) ==
  /\ asks[k].phase = "starting" /\ latest' = latest + 1
  /\ asks' = [asks EXCEPT ![k].phase = "again", ![k].id = latest']
  /\ UNCHANGED <<history, at, shown, shell, busy, refused>>

\* The start failed, or nothing streams after it either.
StartFails(k) ==
  /\ \/ asks[k].phase = "starting"
     \/ asks[k].phase = "again" /\ Current(k)
  /\ ClickFails(k)

\* Back to a simulator that does not stream: the page reloads on its URL.
Reloads(k) ==
  /\ ~asks[k].push /\ asks[k].phase = "loading" /\ Current(k)
  /\ shown' = Url /\ shell' = shell + 1 /\ busy' = FALSE /\ refused' = FALSE
  /\ asks' = [j \in DOMAIN asks |-> [asks[j] EXCEPT !.phase = "over"]]
  /\ UNCHANGED <<history, at, latest>>

SwitchNext ==
  \/ \E d \in Devices : Click(d)
  \/ \E step \in {1, 0 - 1} : Pop(step)
  \/ \E k \in DOMAIN asks : \/ Lands(k) \/ LoadsNothing(k) \/ NothingYet(k)
                            \/ Started(k) \/ StartFails(k) \/ Reloads(k)

SwitchSpec == SwitchInit /\ [][SwitchNext]_svars

-----------------------------------------------------------------------------
AtRest == \A k \in DOMAIN asks : asks[k].phase = "over"

\* Types of the variables.
SwitchTypeOK ==
  /\ history \in Seq(Devices) /\ at \in DOMAIN history /\ shown \in Devices
  /\ shell \in 0..(2 * MaxAsks) /\ latest \in 0..(2 * MaxAsks)
  /\ busy \in BOOLEAN /\ refused \in BOOLEAN
  /\ asks \in Seq([device : Devices, push : BOOLEAN, id : 1..(2 * MaxAsks), shell : 0..(2 * MaxAsks),
                   phase : {"loading", "starting", "again", "over"}])

(***************************************************************************)
(* At rest the device shown is the one the URL names, in whatever order    *)
(* the configurations of overlapping switches landed ("so the device shown *)
(* and the URL always agree", latest-switch.ts:3-4).                       *)
(***************************************************************************)
UrlAgrees == AtRest => shown = Url

(***************************************************************************)
(* They agree at rest unless a click failed, which may have superseded a   *)
(* Back whose configuration was not in, and left neither applied.          *)
(***************************************************************************)
UrlAgreesUnlessRefused == AtRest /\ ~refused => shown = Url
=============================================================================
