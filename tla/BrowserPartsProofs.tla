-------------------------- MODULE BrowserPartsProofs --------------------------
(* What holds of the parts of the page for every value of the bounds: the    *)
(* wire of a touch channel, the motion session, one setting, the switch      *)
(* between simulators, the files that the recorders export, and the types    *)
(* of all eight parts.  Each part has its own inductive invariant; a step of *)
(* the composition is a step of each part, or leaves its variables alone.    *)
EXTENDS MCBrowserParts, Integers, Sequences, FiniteSetTheorems, WellFoundedInduction, TLAPS

\* What each part sees of a step.
LEMMA PartSteps ==
    ASSUME [PartsNext]_<<part, touch, gateway, motion, preview, switch, socket, setting, recording>>
    PROVE  /\ [Touch!TouchNext]_touch
           /\ [Gateway!GatewayNext]_gateway
           /\ [Preview!PreviewNext]_preview
           /\ [Socket!ExecNext]_socket
           /\ [Motion!MotionNext]_motion
           /\ [Setting!SettingsNext]_setting
           /\ [Switch!SwitchNext]_switch
           /\ [Recording!Next]_recording
BY DEF PartsNext, Touches, Relays, Moves, Previews, Switches, Executes, Sets, Records

-----------------------------------------------------------------------------
(* A touch channel.  What waits is the newest event, of a gesture that goes  *)
(* on; what was sent is older than what waits, and a release ended a gesture. *)

Last(s) == s[Len(s)]

ChannelInv(c) ==
    /\ waiting[c] # 0 => waiting[c] = touchSeq[c] /\ down[c]
    /\ wire[c] # <<>> =>
         /\ Last(wire[c]).seq <= touchSeq[c]
         /\ waiting[c] # 0 => Last(wire[c]).seq < touchSeq[c]
         /\ Last(wire[c]).type = "end" => ~down[c]

TouchInv ==
    /\ Touch!TouchTypeOK
    /\ Touch!WireInOrder
    /\ \A c \in Channels : ChannelInv(c)

\* One channel's wire with one more message: in order if the message is newer
\* than the last one and a press, or the last one is no release.
Follows(s, m) ==
    /\ m \in Touch!Messages /\ m.seq = m.event
    /\ s # <<>> => Last(s).seq < m.seq /\ (Last(s).type = "end" => m.type = "begin")

InOrder(s) ==
    \A i \in 1..Len(s) :
      /\ s[i].seq = s[i].event
      /\ i > 1 => /\ s[i].seq > s[i - 1].seq
                  /\ s[i - 1].type = "end" => s[i].type = "begin"

LEMMA AppendInOrder ==
    ASSUME NEW s \in Seq(Touch!Messages), InOrder(s), NEW m, Follows(s, m)
    PROVE  /\ Append(s, m) \in Seq(Touch!Messages)
           /\ Append(s, m) # <<>>
           /\ InOrder(Append(s, m))
           /\ Last(Append(s, m)) = m
<1> DEFINE t == Append(s, m)
<1>1. /\ Len(s) \in Nat /\ Len(t) = Len(s) + 1 /\ t \in Seq(Touch!Messages)
      /\ \A i \in 1..Len(s) : t[i] = s[i]
      /\ t[Len(s) + 1] = m
    BY DEF Follows
<1>2. t # <<>> /\ Last(t) = m
    BY <1>1 DEF Last
<1> HIDE DEF t
<1>3. ASSUME NEW i \in 1..Len(t)
      PROVE  /\ t[i].seq = t[i].event
             /\ i > 1 => /\ t[i].seq > t[i - 1].seq
                         /\ t[i - 1].type = "end" => t[i].type = "begin"
  <2>1. CASE i \in 1..Len(s)
    <3>1. i > 1 => i - 1 \in 1..Len(s)
        BY <1>1, <2>1
    <3> QED
        BY <1>1, <2>1, <3>1 DEF InOrder
  <2>2. CASE i = Len(s) + 1
    <3>1. i > 1 => s # <<>> /\ t[i - 1] = Last(s)
        BY <1>1, <2>2 DEF Last
    <3>2. i > 1 => Last(s) \in Touch!Messages
        BY <1>1, <2>2 DEF Last
    <3> QED
        BY <1>1, <2>2, <3>1, <3>2 DEF Follows, Touch!Messages
  <2> QED
      BY <1>1, <2>1, <2>2
<1>4. InOrder(t)
    BY <1>3 DEF InOrder
<1> QED
    BY <1>1, <1>2, <1>4 DEF t

LEMMA MessageFacts ==
    ASSUME NEW type \in {"begin", "move", "end"}, NEW n \in 1..MaxEvents
    PROVE  LET m == Touch!Message(type, n, n) IN
           m \in Touch!Messages /\ m.type = type /\ m.seq = n /\ m.event = n
BY DEF Touch!Message, Touch!Messages

\* What an event or the timer of channel c may do, and that it keeps TouchInv.
LEMMA ChannelStep ==
    ASSUME TouchInv, NEW c \in Channels,
           NEW n \in 0..MaxEvents, NEW w \in 0..MaxEvents, NEW d \in BOOLEAN, NEW e \in BOOLEAN,
           NEW s \in Seq(Touch!Messages),
           touchSeq' = [touchSeq EXCEPT ![c] = n], waiting' = [waiting EXCEPT ![c] = w],
           down' = [down EXCEPT ![c] = d], elapsed' = [elapsed EXCEPT ![c] = e],
           wire' = [wire EXCEPT ![c] = s], UNCHANGED <<congested, touchClosed>>,
           w # 0 => w = n /\ d,
           s # <<>> => /\ Last(s).seq <= n
                       /\ w # 0 => Last(s).seq < n
                       /\ Last(s).type = "end" => ~d,
           InOrder(s)
    PROVE  TouchInv'
<1>1. /\ touchSeq \in [Channels -> 0..MaxEvents] /\ waiting \in [Channels -> 0..MaxEvents]
      /\ down \in [Channels -> BOOLEAN] /\ elapsed \in [Channels -> BOOLEAN]
      /\ congested \in BOOLEAN /\ touchClosed \in BOOLEAN
      /\ wire \in [Channels -> Seq(Touch!Messages)]
    BY DEF TouchInv, Touch!TouchTypeOK
<1>2. Touch!TouchTypeOK'
    BY <1>1 DEF Touch!TouchTypeOK
<1>3. /\ touchSeq'[c] = n /\ waiting'[c] = w /\ down'[c] = d /\ wire'[c] = s
      /\ \A k \in Channels \ {c} : /\ touchSeq'[k] = touchSeq[k] /\ waiting'[k] = waiting[k]
                                   /\ down'[k] = down[k] /\ wire'[k] = wire[k]
    BY <1>1
<1>4. ASSUME NEW k \in Channels PROVE InOrder(wire'[k]) /\ ChannelInv(k)'
  <2>1. CASE k = c
      BY <1>3, <2>1 DEF ChannelInv
  <2>2. CASE k # c
      BY <1>3, <2>2 DEF TouchInv, ChannelInv, Touch!WireInOrder, InOrder
  <2> QED
      BY <2>1, <2>2
<1>5. Touch!WireInOrder'
    BY <1>4 DEF InOrder, Touch!WireInOrder
<1> QED
    BY <1>2, <1>4, <1>5 DEF TouchInv

LEMMA TouchNextKeeps == TouchInv /\ [Touch!TouchNext]_touch => TouchInv'
<1> SUFFICES ASSUME TouchInv, [Touch!TouchNext]_touch PROVE TouchInv'
    OBVIOUS
<1>1. /\ touchSeq \in [Channels -> 0..MaxEvents] /\ waiting \in [Channels -> 0..MaxEvents]
      /\ down \in [Channels -> BOOLEAN] /\ elapsed \in [Channels -> BOOLEAN]
      /\ congested \in BOOLEAN /\ touchClosed \in BOOLEAN
      /\ wire \in [Channels -> Seq(Touch!Messages)]
      /\ MaxEvents \in Nat
    BY BrowserAssumption DEF TouchInv, Touch!TouchTypeOK
<1>2. ASSUME NEW c \in Channels,
             \/ Touch!Begin(c) \/ Touch!MoveCongested(c) \/ Touch!MoveNow(c) \/ Touch!MoveWaits(c)
             \/ Touch!End(c) \/ Touch!Timer(c) \/ Touch!Elapse(c)
      PROVE  TouchInv'
  <2> DEFINE old  == touchSeq[c]
             s    == wire[c]
             wait == waiting[c]
  <2>1. /\ old \in 0..MaxEvents /\ wait \in 0..MaxEvents /\ s \in Seq(Touch!Messages)
        /\ down[c] \in BOOLEAN /\ elapsed[c] \in BOOLEAN /\ InOrder(s)
        /\ wait # 0 => wait = old /\ down[c]
        /\ s # <<>> => /\ Last(s).seq <= old
                       /\ wait # 0 => Last(s).seq < old
                       /\ Last(s).type = "end" => ~down[c]
        /\ s # <<>> => Last(s).seq \in Nat
    <3>1. InOrder(s) /\ ChannelInv(c)
        BY DEF TouchInv, Touch!WireInOrder, InOrder
    <3>2. s \in Seq(Touch!Messages) /\ (s # <<>> => Last(s) \in Touch!Messages)
        BY <1>1 DEF Last
    <3> QED
        BY <1>1, <3>1, <3>2 DEF ChannelInv, Touch!Messages
  <2>2. ASSUME touchSeq[c] < MaxEvents
        PROVE  old + 1 \in 1..MaxEvents /\ old + 1 \in 0..MaxEvents
      BY <1>1, <2>1, <2>2
  <2>3. /\ touchSeq = [touchSeq EXCEPT ![c] = @] /\ down = [down EXCEPT ![c] = @]
        /\ elapsed = [elapsed EXCEPT ![c] = @] /\ wire = [wire EXCEPT ![c] = @]
        /\ waiting = [waiting EXCEPT ![c] = @]
      BY <1>1
  <2>4. touchSeq' = [touchSeq EXCEPT ![c] = @ + 1] => touchSeq'[c] = old + 1
      BY <1>1
  <2> HIDE DEF old, s, wait
  <2>5. CASE Touch!Begin(c)
    <3> DEFINE m == Touch!Message("begin", old + 1, old + 1)
    <3>1. /\ touchSeq[c] < MaxEvents
          /\ touchSeq' = [touchSeq EXCEPT ![c] = old + 1]
          /\ down' = [down EXCEPT ![c] = TRUE]
          /\ waiting' = [waiting EXCEPT ![c] = 0]
          /\ wire' = [wire EXCEPT ![c] = Append(s, m)]
          /\ elapsed' = [elapsed EXCEPT ![c] = FALSE]
          /\ UNCHANGED <<congested, touchClosed>>
        BY <2>4, <2>5 DEF Touch!Begin, Touch!Arrives, Touch!SendNow, old, s
    <3>2. m \in Touch!Messages /\ m.type = "begin" /\ m.seq = old + 1 /\ m.event = old + 1
        BY <2>2, <3>1, MessageFacts
    <3> HIDE DEF m
    <3>3. Follows(s, m)
        BY <2>1, <3>2 DEF Follows
    <3>4. /\ Append(s, m) \in Seq(Touch!Messages) /\ InOrder(Append(s, m))
          /\ Last(Append(s, m)) = m
        BY <2>1, <3>3, AppendInOrder
    <3>5. old + 1 \in 0..MaxEvents /\ old + 1 <= old + 1 /\ 0 \in 0..MaxEvents
        BY <1>1, <2>2, <3>1
    <3> QED
        BY <3>1, <3>2, <3>4, <3>5, ChannelStep
  <2>6. CASE Touch!MoveNow(c)
    <3> DEFINE m == Touch!Message("move", old + 1, old + 1)
    <3>1. /\ touchSeq[c] < MaxEvents /\ down[c]
          /\ touchSeq' = [touchSeq EXCEPT ![c] = old + 1]
          /\ down' = [down EXCEPT ![c] = down[c]]
          /\ waiting' = [waiting EXCEPT ![c] = 0]
          /\ wire' = [wire EXCEPT ![c] = Append(s, m)]
          /\ elapsed' = [elapsed EXCEPT ![c] = FALSE]
          /\ UNCHANGED <<congested, touchClosed>>
        BY <2>3, <2>4, <2>6 DEF Touch!MoveNow, Touch!Arrives, Touch!SendNow, old, s
    <3>2. m \in Touch!Messages /\ m.type = "move" /\ m.seq = old + 1 /\ m.event = old + 1
        BY <2>2, <3>1, MessageFacts
    <3> HIDE DEF m
    <3>3. Follows(s, m)
        BY <2>1, <3>1, <3>2 DEF Follows
    <3>4. /\ Append(s, m) \in Seq(Touch!Messages) /\ InOrder(Append(s, m))
          /\ Last(Append(s, m)) = m
        BY <2>1, <3>3, AppendInOrder
    <3>5. old + 1 \in 0..MaxEvents /\ old + 1 <= old + 1 /\ 0 \in 0..MaxEvents
        BY <1>1, <2>2, <3>1
    <3> QED
        BY <2>1, <3>1, <3>2, <3>4, <3>5, ChannelStep
  <2>7. CASE Touch!MoveCongested(c) \/ Touch!MoveWaits(c)
    <3>1. PICK w \in {0, old + 1} :
          /\ touchSeq[c] < MaxEvents /\ down[c]
          /\ touchSeq' = [touchSeq EXCEPT ![c] = old + 1]
          /\ down' = [down EXCEPT ![c] = down[c]]
          /\ waiting' = [waiting EXCEPT ![c] = w]
          /\ wire' = [wire EXCEPT ![c] = s]
          /\ elapsed' = [elapsed EXCEPT ![c] = elapsed[c]]
          /\ UNCHANGED <<congested, touchClosed>>
        BY <2>3, <2>4, <2>7 DEF Touch!MoveCongested, Touch!MoveWaits, Touch!Arrives, old, s
    <3>2. w \in 0..MaxEvents /\ old + 1 \in 0..MaxEvents /\ (w # 0 => w = old + 1)
        BY <1>1, <2>2, <3>1
    <3>3. s # <<>> => Last(s).seq < old + 1 /\ Last(s).seq <= old + 1
        BY <2>1
    <3> QED
        BY <2>1, <3>1, <3>2, <3>3, ChannelStep
  <2>8. ASSUME Touch!End(c) \/ Touch!Timer(c)
        PROVE  LET f == s \o Touch!Flushed(c) IN
               /\ f \in Seq(Touch!Messages) /\ InOrder(f)
               /\ wait # 0 => f # <<>> /\ Last(f).type = "move" /\ Last(f).seq = old
               /\ wait = 0 => f = s
    <3>1. CASE wait = 0
        BY <2>1, <3>1 DEF Touch!Flushed, wait
    <3>2. CASE wait # 0
      <4> DEFINE m == Touch!Message("move", old, old)
      <4>1. old \in 1..MaxEvents
          BY <1>1, <2>1, <3>2
      <4>2. m \in Touch!Messages /\ m.type = "move" /\ m.seq = old /\ m.event = old
          BY <4>1, MessageFacts
      <4>3. Touch!Flushed(c) = <<m>>
          BY <2>1, <3>2 DEF Touch!Flushed, old, wait
      <4> HIDE DEF m
      <4>4. s \o <<m>> = Append(s, m)
          BY <2>1, <4>2
      <4>5. Follows(s, m)
          BY <2>1, <3>2, <4>2 DEF Follows
      <4>6. /\ Append(s, m) \in Seq(Touch!Messages) /\ InOrder(Append(s, m))
            /\ Append(s, m) # <<>> /\ Last(Append(s, m)) = m
          BY <2>1, <4>5, AppendInOrder
      <4> QED
          BY <3>2, <4>2, <4>3, <4>4, <4>6
    <3> QED
        BY <3>1, <3>2
  <2>9. CASE Touch!End(c)
    <3> DEFINE f == s \o Touch!Flushed(c)
               m == Touch!Message("end", old + 1, old + 1)
    <3>1. /\ touchSeq[c] < MaxEvents /\ down[c]
          /\ touchSeq' = [touchSeq EXCEPT ![c] = old + 1]
          /\ down' = [down EXCEPT ![c] = FALSE]
          /\ waiting' = [waiting EXCEPT ![c] = 0]
          /\ wire' = [wire EXCEPT ![c] = f \o <<m>>]
          /\ elapsed' = [elapsed EXCEPT ![c] = (elapsed[c] /\ wait = 0)]
          /\ UNCHANGED <<congested, touchClosed>>
        BY <2>4, <2>9 DEF Touch!End, Touch!Arrives, old, s, wait
    <3>2. m \in Touch!Messages /\ m.type = "end" /\ m.seq = old + 1 /\ m.event = old + 1
        BY <2>2, <3>1, MessageFacts
    <3>3. /\ f \in Seq(Touch!Messages) /\ InOrder(f)
          /\ f # <<>> => Last(f).seq <= old /\ Last(f).type # "end" /\ Last(f).seq \in Nat
      <4>1. /\ f \in Seq(Touch!Messages) /\ InOrder(f)
            /\ wait # 0 => Last(f).type = "move" /\ Last(f).seq = old
            /\ wait = 0 => f = s
          BY <2>8, <2>9
      <4>2. old <= old /\ old \in Nat
          BY <1>1, <2>1
      <4> HIDE DEF f
      <4>3. CASE wait = 0
          BY <2>1, <3>1, <4>1, <4>3
      <4>4. CASE wait # 0
          BY <4>1, <4>2, <4>4
      <4> QED
          BY <4>1, <4>3, <4>4
    <3> HIDE DEF f, m
    <3>4. f \o <<m>> = Append(f, m)
        BY <3>2, <3>3
    <3>5. Follows(f, m)
        BY <2>1, <3>2, <3>3 DEF Follows
    <3>6. /\ Append(f, m) \in Seq(Touch!Messages) /\ InOrder(Append(f, m))
          /\ Last(Append(f, m)) = m
        BY <3>3, <3>5, AppendInOrder
    <3>7. /\ old + 1 \in 0..MaxEvents /\ old + 1 <= old + 1 /\ 0 \in 0..MaxEvents
          /\ (elapsed[c] /\ wait = 0) \in BOOLEAN
        BY <1>1, <2>2, <3>1
    <3> QED
        BY <3>1, <3>2, <3>4, <3>6, <3>7, ChannelStep
  <2>10. CASE Touch!Timer(c)
    <3> DEFINE f == s \o Touch!Flushed(c)
    <3>1. /\ wait # 0
          /\ touchSeq' = [touchSeq EXCEPT ![c] = old]
          /\ down' = [down EXCEPT ![c] = down[c]]
          /\ waiting' = [waiting EXCEPT ![c] = 0]
          /\ wire' = [wire EXCEPT ![c] = f]
          /\ elapsed' = [elapsed EXCEPT ![c] = FALSE]
          /\ UNCHANGED <<congested, touchClosed>>
        BY <2>3, <2>10 DEF Touch!Timer, old, s, wait
    <3>2. /\ f \in Seq(Touch!Messages) /\ InOrder(f)
          /\ Last(f).type = "move" /\ Last(f).seq = old
        BY <2>8, <2>10, <3>1
    <3>3. old <= old /\ 0 \in 0..MaxEvents
        BY <1>1, <2>1
    <3> HIDE DEF f
    <3> QED
        BY <2>1, <3>1, <3>2, <3>3, ChannelStep
  <2>11. CASE Touch!Elapse(c)
    <3>1. /\ touchSeq' = [touchSeq EXCEPT ![c] = old]
          /\ down' = [down EXCEPT ![c] = down[c]]
          /\ waiting' = [waiting EXCEPT ![c] = wait]
          /\ wire' = [wire EXCEPT ![c] = s]
          /\ elapsed' = [elapsed EXCEPT ![c] = TRUE]
          /\ UNCHANGED <<congested, touchClosed>>
        BY <2>3, <2>11 DEF Touch!Elapse, old, s, wait
    <3> QED
        BY <2>1, <3>1, ChannelStep
  <2> QED
      BY <1>2, <2>5, <2>6, <2>7, <2>9, <2>10, <2>11
<1>3. CASE Touch!Congestion
    BY <1>1, <1>3 DEF Touch!Congestion, TouchInv, Touch!TouchTypeOK, Touch!WireInOrder, ChannelInv
<1>4. CASE Touch!CloseTouch
  <2>1. Touch!TouchTypeOK'
      BY <1>1, <1>4 DEF Touch!CloseTouch, Touch!TouchTypeOK
  <2>2. \A c \in Channels : waiting'[c] = 0
      BY <1>4 DEF Touch!CloseTouch
  <2> QED
      BY <1>4, <2>1, <2>2 DEF Touch!CloseTouch, TouchInv, Touch!WireInOrder, ChannelInv
<1>5. CASE UNCHANGED touch
    BY <1>5 DEF touch, TouchInv, Touch!TouchTypeOK, Touch!WireInOrder, ChannelInv
<1> QED
    BY <1>2, <1>3, <1>4, <1>5 DEF Touch!TouchNext

LEMMA TouchInitInv == Touch!TouchInit => TouchInv
<1> SUFFICES ASSUME Touch!TouchInit PROVE TouchInv
    OBVIOUS
<1>1. /\ 0 \in 0..MaxEvents
      /\ \A c \in Channels : wire[c] = <<>> /\ waiting[c] = 0
    BY BrowserAssumption DEF Touch!TouchInit
<1>2. Touch!TouchTypeOK
    BY <1>1, <<>> \in Seq(Touch!Messages) DEF Touch!TouchInit, Touch!TouchTypeOK
<1>3. Touch!WireInOrder
    BY <1>1 DEF Touch!WireInOrder
<1> QED
    BY <1>1, <1>2, <1>3 DEF TouchInv, ChannelInv

\* What a touch channel sends reads as gestures: numbers rise, every message
\* carries its own event's, and after a release comes a press.
\* (GatewayTransport.streamTouch, transport.ts:536-652)
THEOREM TouchesInOrder == PartsSpec => []WireInOrder
<1>1. PartsInit => TouchInv
    BY TouchInitInv DEF PartsInit
<1>2. TouchInv /\ [PartsNext]_<<part, touch, gateway, motion, preview, switch, socket, setting, recording>>
        => TouchInv'
    BY PartSteps, TouchNextKeeps
<1>3. TouchInv => WireInOrder
    BY DEF TouchInv, WireInOrder
<1> QED
    BY <1>1, <1>2, <1>3, PTL DEF PartsSpec

-----------------------------------------------------------------------------
(* The motion session.  A request is out exactly while its writer or reader *)
(* waits for it, and what the simulator lacks of the last angle is queued,   *)
(* or in the writer's hands.                                                 *)

Writing == [for : {"angle"} \cup Commands, angle : 0..MaxAngles,
            phase : {"waits", "sent", "replied", "refused"}]

\* One request at a time: the writer's or the reader's.
RequestInv ==
    /\ inFlight \in {"angle", "command"} <=> writer # Nobody /\ writer.phase = "sent"
    /\ inFlight = "status" <=> reader = "sent"
    /\ writer # Nobody =>
         /\ writer.phase = "sent" => (inFlight = "angle" <=> writer.for = "angle")
         /\ writer.phase = "waits" => writer.for = "angle"
         /\ reader # "none" => writer.phase = "waits"
         /\ writer.phase = "refused" => failed
    /\ closed => failed

\* The last angle asked for is queued, else about to be sent, else reached.
AngleInv ==
    /\ writer = Nobody => queued = 0
    /\ ~failed => IF queued # 0 THEN queued = angleAsked
                  ELSE IF writer # Nobody /\ writer.for = "angle" /\ writer.phase \in {"waits", "sent"}
                       THEN writer.angle = angleAsked
                       ELSE angle = angleAsked

MotionInv == Motion!MotionTypeOK /\ ~overlapped /\ RequestInv /\ AngleInv

LEMMA WriterFacts ==
    ASSUME Motion!MotionTypeOK, writer # Nobody
    PROVE  /\ writer \in Writing
           /\ writer.for \in {"angle"} \cup Commands
           /\ writer.angle \in 0..MaxAngles
           /\ writer.phase \in {"waits", "sent", "replied", "refused"}
BY DEF Motion!MotionTypeOK, Writing

LEMMA WriterMade ==
    ASSUME NEW for \in {"angle"} \cup Commands, NEW n \in 0..MaxAngles,
           NEW phase \in {"waits", "sent", "replied", "refused"},
           NEW w, w = [for |-> for, angle |-> n, phase |-> phase]
    PROVE  /\ w # Nobody /\ w \in Writing
           /\ w.for = for /\ w.angle = n /\ w.phase = phase
BY BrowserAssumption DEF Writing

LEMMA WriterPhased ==
    ASSUME Motion!MotionTypeOK, writer # Nobody,
           NEW phase \in {"waits", "sent", "replied", "refused"},
           NEW w, w = [writer EXCEPT !.phase = phase]
    PROVE  /\ w # Nobody /\ w \in Writing
           /\ w.for = writer.for /\ w.angle = writer.angle /\ w.phase = phase
<1>1. w = [for |-> writer.for, angle |-> writer.angle, phase |-> phase]
    BY WriterFacts DEF Writing
<1>2. writer.for \in {"angle"} \cup Commands /\ writer.angle \in 0..MaxAngles
    BY WriterFacts
<1> QED
    BY <1>1, <1>2, BrowserAssumption DEF Writing

LEMMA MotionNextKeeps == MotionInv /\ [Motion!MotionNext]_motion => MotionInv'
<1> SUFFICES ASSUME MotionInv, [Motion!MotionNext]_motion PROVE MotionInv'
    OBVIOUS
<1> USE DEF MotionInv
<1>0. /\ MaxAngles \in Nat
      /\ Nobody \notin {"angle", "command", "status"} /\ "angle" \notin Commands
    BY BrowserAssumption
<1>1. /\ inFlight \in {Nobody, "angle", "command", "status"}
      /\ writer \in {Nobody} \cup Writing
      /\ queued \in 0..MaxAngles /\ angleAsked \in 0..MaxAngles /\ angle \in 0..MaxAngles
      /\ reader \in {"none", "sent", "replied"}
      /\ command \in [Commands -> {"idle", "looping", "running", "over"}]
      /\ status \in [Statuses -> {"idle", "looping", "reading", "over"}]
      /\ failed \in BOOLEAN /\ closed \in BOOLEAN /\ overlapped \in BOOLEAN
    BY DEF Motion!MotionTypeOK, Writing
<1>2. CASE Motion!SetAngle
  <2>1. angleAsked + 1 \in 0..MaxAngles /\ angleAsked + 1 # 0 /\ angleAsked' = angleAsked + 1
      BY <1>0, <1>1, <1>2 DEF Motion!SetAngle
  <2>2. CASE writer = Nobody
    <3>1. /\ writer' # Nobody /\ writer' \in Writing
          /\ writer'.for = "angle" /\ writer'.angle = angleAsked + 1 /\ writer'.phase = "waits"
          /\ queued' = queued
      <4>1. writer' = [for |-> "angle", angle |-> angleAsked + 1, phase |-> "waits"] /\ queued' = queued
          BY <1>2, <2>1, <2>2 DEF Motion!SetAngle, Motion!AngleWriter
      <4> QED
          BY <2>1, <4>1, WriterMade
    <3> QED
        BY <1>1, <1>2, <2>1, <2>2, <3>1
           DEF Motion!SetAngle, Motion!MotionTypeOK, Writing, RequestInv, AngleInv
  <2>3. CASE writer # Nobody
      BY <1>1, <1>2, <2>1, <2>3
         DEF Motion!SetAngle, Motion!MotionTypeOK, Writing, RequestInv, AngleInv
  <2> QED
      BY <2>2, <2>3
<1>3. CASE Motion!AngleSends
  <2>1. writer # Nobody /\ writer.phase = "waits" /\ reader = "none" /\ inFlight = Nobody
      BY <1>0, <1>1, <1>3 DEF Motion!AngleSends, RequestInv
  <2>2. /\ writer' # Nobody /\ writer' \in Writing
        /\ writer'.for = "angle" /\ writer'.angle = writer.angle
        /\ writer'.phase = IF closed THEN "refused" ELSE "sent"
    <3>1. writer' = [writer EXCEPT !.phase = IF closed THEN "refused" ELSE "sent"]
        BY <1>1, <1>3, <2>1 DEF Motion!AngleSends, Motion!Sent
    <3> QED
        BY <2>1, <3>1, WriterPhased DEF RequestInv
  <2>3. /\ inFlight' = IF closed THEN Nobody ELSE "angle"
        /\ ~overlapped' /\ failed' = (failed \/ closed)
        /\ overlapped' \in BOOLEAN /\ failed' \in BOOLEAN
      BY <1>1, <1>3, <2>1 DEF Motion!AngleSends, Motion!Request
  <2>4. UNCHANGED <<queued, reader, command, status, angleAsked, angle, closed>>
      BY <1>3 DEF Motion!AngleSends
  <2>5. Motion!MotionTypeOK'
      BY <1>0, <1>1, <2>2, <2>3, <2>4 DEF Motion!MotionTypeOK, Writing
  <2> QED
      BY <1>0, <1>1, <2>1, <2>2, <2>3, <2>4, <2>5 DEF RequestInv, AngleInv
<1>4. ASSUME NEW c \in Commands, Motion!CommandAsked(c) PROVE MotionInv'
    BY <1>1, <1>4 DEF Motion!CommandAsked, Motion!MotionTypeOK, RequestInv, AngleInv
<1>5. ASSUME NEW c \in Commands, Motion!CommandSends(c) PROVE MotionInv'
  <2>1. writer = Nobody /\ reader = "none" /\ inFlight = Nobody
      BY <1>0, <1>1, <1>5 DEF Motion!CommandSends, Motion!Quiet, RequestInv
  <2>2. /\ writer' # Nobody /\ writer' \in Writing
        /\ writer'.for = c /\ writer'.angle = 0
        /\ writer'.phase = IF closed THEN "refused" ELSE "sent"
    <3>1. writer' = [for |-> c, angle |-> 0, phase |-> IF closed THEN "refused" ELSE "sent"]
        BY <1>1, <1>5, <2>1 DEF Motion!CommandSends, Motion!Sent
    <3>2. /\ 0 \in 0..MaxAngles /\ c \in {"angle"} \cup Commands
          /\ (IF closed THEN "refused" ELSE "sent") \in {"waits", "sent", "replied", "refused"}
        BY <1>0
    <3> QED
        BY ONLY <3>1, <3>2, WriterMade
  <2>3. /\ inFlight' = IF closed THEN Nobody ELSE "command"
        /\ ~overlapped' /\ failed' = (failed \/ closed)
        /\ overlapped' \in BOOLEAN /\ failed' \in BOOLEAN
      BY <1>1, <1>5, <2>1 DEF Motion!CommandSends, Motion!Request
  <2>4. /\ UNCHANGED <<queued, reader, status, angleAsked, angle, closed>>
        /\ command' = [command EXCEPT ![c] = "running"]
      BY <1>5 DEF Motion!CommandSends
  <2>5. Motion!MotionTypeOK'
      BY <1>0, <1>1, <2>2, <2>3, <2>4 DEF Motion!MotionTypeOK, Writing
  <2> QED
      BY <1>0, <1>1, <2>1, <2>2, <2>3, <2>4, <2>5 DEF RequestInv, AngleInv
<1>6. ASSUME NEW r \in Statuses, Motion!StatusGoesOn(r) PROVE MotionInv'
  <2>1. UNCHANGED <<writer, queued, command, angleAsked, angle, closed>>
      BY <1>6 DEF Motion!StatusGoesOn
  <2>2. status' \in [Statuses -> {"idle", "looping", "reading", "over"}]
      BY <1>1, <1>6 DEF Motion!StatusGoesOn
  <2>3. CASE UNCHANGED <<inFlight, reader, failed, overlapped>>
      BY <1>1, <2>1, <2>2, <2>3 DEF Motion!MotionTypeOK, RequestInv, AngleInv
  <2>4. CASE ~UNCHANGED <<inFlight, reader, failed, overlapped>>
    <3>1. /\ reader = "none" /\ writer = Nobody
          /\ Motion!Request("status")
          /\ reader' = IF Motion!Sent THEN "sent" ELSE "replied"
        BY <1>6, <2>4 DEF Motion!StatusGoesOn
    <3>2. inFlight = Nobody
        BY <1>0, <1>1, <3>1 DEF RequestInv
    <3>3. /\ inFlight' = IF closed THEN Nobody ELSE "status"
          /\ reader' = IF closed THEN "replied" ELSE "sent"
          /\ ~overlapped' /\ failed' = (failed \/ closed)
        /\ overlapped' \in BOOLEAN /\ failed' \in BOOLEAN
        BY <1>1, <3>1, <3>2 DEF Motion!Request, Motion!Sent
    <3>4. Motion!MotionTypeOK'
        BY <1>0, <1>1, <2>1, <2>2, <3>3 DEF Motion!MotionTypeOK, Writing
    <3> QED
        BY <1>0, <1>1, <2>1, <3>1, <3>2, <3>3, <3>4 DEF RequestInv, AngleInv
  <2> QED
      BY <2>3, <2>4
<1>7. ASSUME NEW ok \in BOOLEAN, Motion!Reply(ok) PROVE MotionInv'
  <2>1. /\ inFlight # Nobody /\ inFlight' = Nobody /\ failed' = (failed \/ ~ok)
        /\ UNCHANGED <<queued, command, status, angleAsked, closed, overlapped>>
      BY <1>7 DEF Motion!Reply
  <2>2. CASE inFlight = "status"
    <3>1. reader' = "replied" /\ UNCHANGED <<writer, angle>>
        BY <1>7, <2>2 DEF Motion!Reply
    <3>2. Motion!MotionTypeOK'
        BY <1>1, <2>1, <3>1 DEF Motion!MotionTypeOK, Writing
    <3> QED
        BY <1>0, <1>1, <2>1, <2>2, <3>1, <3>2 DEF RequestInv, AngleInv
  <2>3. CASE inFlight # "status"
    <3>1. writer # Nobody /\ writer.phase = "sent" /\ reader = "none"
        BY <1>1, <2>1, <2>3 DEF RequestInv
    <3>2. /\ writer' # Nobody /\ writer' \in Writing
          /\ writer'.for = writer.for /\ writer'.angle = writer.angle
          /\ writer'.phase = IF ok THEN "replied" ELSE "refused"
      <4>1. writer' = [writer EXCEPT !.phase = IF ok THEN "replied" ELSE "refused"]
          BY <1>7, <2>3 DEF Motion!Reply
      <4> QED
          BY <3>1, <4>1, WriterPhased
    <3>3. /\ angle' = IF ok /\ writer.for = "angle" THEN writer.angle ELSE angle
          /\ reader' = reader
        BY <1>7, <2>3, <3>1 DEF Motion!Reply, RequestInv
    <3>4. Motion!MotionTypeOK'
        BY <1>1, <2>1, <3>1, <3>2, <3>3, WriterFacts DEF Motion!MotionTypeOK, Writing
    <3> QED
        BY <1>0, <1>1, <2>1, <3>1, <3>2, <3>3, <3>4 DEF RequestInv, AngleInv
  <2> QED
      BY <2>2, <2>3
<1>8. CASE Motion!SessionFails
  <2>1. /\ closed' /\ closed' \in BOOLEAN /\ failed' /\ failed' \in BOOLEAN
        /\ inFlight' = Nobody /\ queued' = 0
        /\ reader' = IF reader = "sent" THEN "replied" ELSE reader
        /\ UNCHANGED <<command, status, angleAsked, angle, overlapped>>
      BY <1>8 DEF Motion!SessionFails
  <2>2. CASE writer # Nobody /\ writer.phase = "sent"
    <3>1. /\ writer' # Nobody /\ writer' \in Writing
          /\ writer'.for = writer.for /\ writer'.phase = "refused"
      <4>1. writer' = [writer EXCEPT !.phase = "refused"]
          BY <1>8, <2>2 DEF Motion!SessionFails
      <4> QED
          BY <2>2, <4>1, WriterPhased
    <3>2. Motion!MotionTypeOK'
        BY <1>0, <1>1, <2>1, <3>1 DEF Motion!MotionTypeOK, Writing
    <3> QED
        BY <1>0, <1>1, <2>1, <2>2, <3>1, <3>2 DEF RequestInv, AngleInv
  <2>3. CASE ~(writer # Nobody /\ writer.phase = "sent")
    <3>1. writer' = writer
        BY <1>8, <2>3 DEF Motion!SessionFails
    <3>2. Motion!MotionTypeOK'
        BY <1>0, <1>1, <2>1, <3>1 DEF Motion!MotionTypeOK, Writing
    <3> QED
        BY <1>0, <1>1, <2>1, <2>3, <3>1, <3>2 DEF RequestInv, AngleInv
  <2> QED
      BY <2>2, <2>3
<1>9. CASE Motion!WriterDone
  <2>1. /\ writer # Nobody /\ writer.phase \in {"replied", "refused"}
        /\ UNCHANGED <<inFlight, reader, angleAsked, angle, failed, closed, overlapped>>
      BY <1>9 DEF Motion!WriterDone
  <2>2. reader = "none" /\ inFlight = Nobody
      BY <1>1, <2>1 DEF RequestInv
  <2>3. /\ command' \in [Commands -> {"idle", "looping", "running", "over"}]
        /\ status' \in [Statuses -> {"idle", "looping", "reading", "over"}]
      BY <1>1, <1>9 DEF Motion!WriterDone
  <2>4. CASE queued = 0
    <3>1. writer' = Nobody /\ queued' = 0
        BY <1>9, <2>4 DEF Motion!WriterDone, Motion!NextWriter
    <3>2. Motion!MotionTypeOK'
        BY <1>1, <2>1, <2>3, <2>4, <3>1 DEF Motion!MotionTypeOK, Writing
    <3> QED
        BY <1>0, <1>1, <2>1, <2>2, <2>4, <3>1, <3>2 DEF RequestInv, AngleInv
  <2>5. CASE queued # 0
    <3>1. /\ writer' # Nobody /\ writer' \in Writing
          /\ writer'.for = "angle" /\ writer'.angle = queued /\ writer'.phase = "waits"
          /\ queued' = 0
      <4>1. writer' = Motion!NextWriter /\ queued' = IF writer' = Nobody THEN queued ELSE 0
          BY <1>9 DEF Motion!WriterDone
      <4>2. Motion!NextWriter = [for |-> "angle", angle |-> queued, phase |-> "waits"]
          BY <2>5 DEF Motion!NextWriter, Motion!AngleWriter
      <4> QED
          BY <1>1, <4>1, <4>2, WriterMade
    <3>2. Motion!MotionTypeOK'
        BY <1>0, <1>1, <2>1, <2>3, <3>1 DEF Motion!MotionTypeOK, Writing
    <3> QED
        BY <1>0, <1>1, <2>1, <2>2, <2>5, <3>1, <3>2 DEF RequestInv, AngleInv
  <2> QED
      BY <2>4, <2>5
<1>10. CASE Motion!ReaderDone
  <2>1. status' \in [Statuses -> {"idle", "looping", "reading", "over"}]
      BY <1>1, <1>10 DEF Motion!ReaderDone
  <2>2. Motion!MotionTypeOK'
      BY <1>1, <1>10, <2>1 DEF Motion!ReaderDone, Motion!MotionTypeOK, Writing
  <2> QED
      BY <1>1, <1>10, <2>2 DEF Motion!ReaderDone, RequestInv, AngleInv
<1>11. CASE UNCHANGED motion
    BY <1>11 DEF motion, Motion!MotionTypeOK, RequestInv, AngleInv
<1> QED
    BY <1>2, <1>3, <1>4, <1>5, <1>6, <1>7, <1>8, <1>9, <1>10, <1>11 DEF Motion!MotionNext

LEMMA MotionInitInv == Motion!MotionInit => MotionInv
<1> SUFFICES ASSUME Motion!MotionInit PROVE MotionInv
    OBVIOUS
<1>1. 0 \in 0..MaxAngles /\ Nobody \notin {"angle", "command", "status"}
    BY BrowserAssumption
<1>2. Motion!MotionTypeOK
    BY <1>1 DEF Motion!MotionInit, Motion!MotionTypeOK
<1> QED
    BY <1>1, <1>2 DEF Motion!MotionInit, MotionInv, RequestInv, AngleInv

LEMMA MotionInvariant == PartsSpec => []MotionInv
<1>1. PartsInit => MotionInv
    BY MotionInitInv DEF PartsInit
<1>2. MotionInv /\ [PartsNext]_<<part, touch, gateway, motion, preview, switch, socket, setting, recording>>
        => MotionInv'
    BY PartSteps, MotionNextKeeps
<1> QED
    BY <1>1, <1>2, PTL DEF PartsSpec

\* No angle is lost: with nobody writing, the simulator is at the last angle
\* asked for, unless the helper refused something or failed.
\* (setAngle, writeAngle and writeCommand, device-motion.ts:176-255)
THEOREM AngleLands == PartsSpec => []LatestAngleLands
<1>1. MotionInv => LatestAngleLands
    BY DEF MotionInv, AngleInv, LatestAngleLands, Motion!LatestAngleLands
<1> QED
    BY <1>1, MotionInvariant, PTL

\* request() never refuses a call as already in flight: the helper is asked
\* one thing at a time, whatever resumes first.  (device-motion.ts:176-255)
THEOREM OneRequestAtATime == PartsSpec => []Motion!NeverOverlaps
<1>1. MotionInv => Motion!NeverOverlaps
    BY DEF MotionInv, Motion!NeverOverlaps
<1> QED
    BY <1>1, MotionInvariant, PTL

-----------------------------------------------------------------------------
(* One setting of the simulator.  While no set failed and no two writers     *)
(* raced, the value asked for last is the one of the only writer with a set  *)
(* in flight, or the one that waits for it, or the simulator's.              *)

Mounts == Setting!Mounts
Empty == Setting!Empty
Resting == Setting!Resting
Sending == Setting!Busy
MaybeValue == Values \cup {"none"}
Queue == [value : MaybeValue, done : BOOLEAN, next : MaybeValue]
Toggle == [at : {"resting", "reading", "read", "setting"}, known : MaybeValue, value : MaybeValue, done : BOOLEAN]
Read == [id : 0 .. MaxReads, startedAt : Nat, value : MaybeValue]

SettingTypes ==
    /\ sim \in Values /\ settingShown \in Values /\ asked \in Values /\ settingFresh \in BOOLEAN /\ revision \in Nat
    /\ clicks \in 0 .. MaxClicks /\ mount \in Mounts /\ queue \in [Mounts -> Queue]
    /\ presses \in 0 .. MaxPresses /\ dock \in Toggle
    /\ late \subseteq Values /\ reads \subseteq Read /\ count \in 0 .. MaxReads
    /\ troubled \in BOOLEAN /\ raced \in BOOLEAN /\ crossed \in BOOLEAN

\* What a queue and the toggle know in each of their phases.
WritersInv ==
    /\ \A m \in Mounts : queue[m].value = "none" => queue[m] = Empty
    /\ dock.at = "resting" => dock = Resting
    /\ dock.at \in {"reading", "read"} => dock.known = "none" /\ ~dock.done
    /\ dock.at \in {"read", "setting"} => dock.value \in Values
    /\ ~troubled => late = {}

\* The value that a queue comes to.
ComesTo(m) == IF queue[m].next = "none" THEN queue[m].value ELSE queue[m].next

\* One writer at most has a set in flight, and it holds the value asked for last until it
\* took effect.
AskedInv ==
    ~troubled /\ ~raced =>
      /\ \A v, w \in Sending : v = w
      /\ Sending = {} => sim = asked
      /\ \A m \in Mounts : queue[m] # Empty =>
           asked = ComesTo(m) /\ (queue[m].done => sim = queue[m].value)
      /\ dock.at = "setting" => asked = dock.value /\ (dock.done => sim = dock.value)

\* A read that may still be stored has read what was asked for last.
ShownInv ==
    /\ \A r \in reads : r.startedAt <= revision
    /\ ~troubled /\ ~raced /\ ~crossed =>
         /\ IF dock.at = "setting" /\ dock.known = "none" THEN reads = {} ELSE settingShown = asked
         /\ \A r \in reads : r.startedAt = revision => Sending = {} /\ r.value \in {"none", asked}

SettingInv == SettingTypes /\ WritersInv /\ AskedInv /\ ShownInv

LEMMA SettingConstants ==
    /\ "none" \notin Values /\ MaxClicks \in Nat /\ MaxPresses \in Nat /\ MaxReads \in Nat /\ MaxMounts \in Nat
    /\ 0 \notin Mounts /\ Default \in Values /\ Opposite \in [Values -> Values] /\ 1 \in Mounts
    /\ Empty = [value |-> "none", done |-> FALSE, next |-> "none"] /\ Empty \in Queue
    /\ Resting = [at |-> "resting", known |-> "none", value |-> "none", done |-> FALSE] /\ Resting \in Toggle
BY BrowserAssumption
   DEF Mounts, Setting!Mounts, Empty, Setting!Empty, Resting, Setting!Resting, Setting!None, Queue, Toggle, MaybeValue

\* Who is busy, now and after a step.
LEMMA BusyMembers ==
    /\ \A w : w \in Sending <=> (w \in Mounts /\ queue[w] # Empty) \/ (w = 0 /\ dock.at = "setting")
    /\ \A w : w \in Sending' <=> (w \in Mounts /\ queue'[w] # Empty) \/ (w = 0 /\ dock'.at = "setting")
BY DEF Sending, Setting!Busy, Setting!Dock, Mounts, Empty

\* One queue changes.
LEMMA QueueChanges ==
    ASSUME SettingInv, NEW m \in Mounts, NEW x \in Queue, queue' = [queue EXCEPT ![m] = x], dock' = dock,
           x.value = "none" => x = Empty
    PROVE  /\ queue' \in [Mounts -> Queue] /\ queue'[m] = x
           /\ \A n \in Mounts : n # m => queue'[n] = queue[n]
           /\ \A n \in Mounts : queue'[n].value = "none" => queue'[n] = Empty
           /\ Sending' = IF x = Empty THEN Sending \ {m} ELSE Sending \cup {m}
<1>1. /\ queue' \in [Mounts -> Queue] /\ queue'[m] = x
      /\ \A n \in Mounts : n # m => queue'[n] = queue[n]
    BY DEF SettingInv, SettingTypes
<1>2. \A n \in Mounts : queue'[n].value = "none" => queue'[n] = Empty
    BY <1>1 DEF SettingInv, WritersInv
<1>3. m # 0
    BY SettingConstants
<1>4. Sending' = IF x = Empty THEN Sending \ {m} ELSE Sending \cup {m}
    BY <1>1, <1>3, BusyMembers
<1> QED
    BY <1>1, <1>2, <1>4

LEMMA ClickKeeps ==
    ASSUME SettingInv, NEW v \in Values, Setting!Click(v)
    PROVE  SettingInv'
<1> DEFINE x == IF queue[mount] = Empty THEN [value |-> v, done |-> FALSE, next |-> "none"]
                                        ELSE [queue[mount] EXCEPT !.next = v]
<1>1. /\ clicks' = clicks + 1 /\ clicks < MaxClicks
      /\ settingShown' = v /\ settingFresh' = FALSE /\ revision' = revision + 1
      /\ asked' = v /\ raced' = (raced \/ Sending \ {mount} # {})
      /\ queue' = [queue EXCEPT ![mount] = x]
      /\ UNCHANGED <<sim, mount, presses, dock, late, reads, count, troubled, crossed>>
    BY DEF Setting!Click, Setting!Patch, Setting!Asks, Setting!Sent, Setting!None, Setting!toggle,
           Setting!reading, Sending, Empty
<1>2. mount \in Mounts /\ queue[mount] \in Queue /\ "none" \notin Values /\ revision \in Nat
    BY SettingConstants DEF SettingInv, SettingTypes
<1>3. /\ x \in Queue /\ x.value # "none" /\ x # Empty
      /\ (IF x.next = "none" THEN x.value ELSE x.next) = v
      /\ x.done => queue[mount] # Empty /\ queue[mount].done /\ x.value = queue[mount].value
  <2>1. CASE queue[mount] = Empty
      BY <1>2, <2>1, SettingConstants DEF Queue, MaybeValue
  <2>2. CASE queue[mount] # Empty
    <3>1. queue[mount].value # "none"
        BY <1>2, <2>2 DEF SettingInv, WritersInv
    <3> QED
        BY <1>2, <2>2, <3>1, SettingConstants DEF Queue, MaybeValue
  <2> QED
      BY <2>1, <2>2
<1> HIDE DEF x
<1>4. /\ queue' \in [Mounts -> Queue] /\ queue'[mount] = x
      /\ \A n \in Mounts : n # mount => queue'[n] = queue[n]
      /\ \A n \in Mounts : queue'[n].value = "none" => queue'[n] = Empty
      /\ Sending' = Sending \cup {mount}
    BY <1>1, <1>2, <1>3, QueueChanges
<1>5. SettingTypes'
  <2>1. clicks' \in 0 .. MaxClicks /\ revision' \in Nat /\ raced' \in BOOLEAN
      BY <1>1, SettingConstants DEF SettingInv, SettingTypes
  <2> QED
      BY <1>1, <1>4, <2>1 DEF SettingInv, SettingTypes
<1>6. WritersInv'
    BY <1>1, <1>4, Empty' = Empty, Resting' = Resting DEF SettingInv, WritersInv
<1>7. ASSUME ~troubled', ~raced'
      PROVE  ~troubled /\ ~raced /\ Sending' = {mount} /\ dock.at # "setting"
             /\ \A n \in Mounts : n # mount => queue[n] = Empty
  <2>1. ~troubled /\ ~raced /\ Sending \ {mount} = {} /\ mount # 0
      BY <1>1, <1>2, <1>7, SettingConstants
  <2> QED
      BY <1>4, <2>1, BusyMembers
<1>8. AskedInv'
  <2> SUFFICES ASSUME ~troubled', ~raced'
               PROVE  /\ \A n \in Mounts : queue'[n] # Empty =>
                           /\ asked' = IF queue'[n].next = "none" THEN queue'[n].value ELSE queue'[n].next
                           /\ queue'[n].done => sim' = queue'[n].value
      BY <1>1, <1>7, Empty' = Empty DEF AskedInv, ComesTo
  <2>1. queue[mount] # Empty /\ queue[mount].done => sim = queue[mount].value
      BY <1>2, <1>7 DEF SettingInv, AskedInv
  <2> QED
      BY <1>1, <1>3, <1>4, <1>7, <2>1
<1>9. ShownInv'
  <2>1. \A r \in reads : r.startedAt \in Nat /\ r.startedAt <= revision
      BY DEF SettingInv, SettingTypes, ShownInv, Read
  <2>2. \A r \in reads' : r.startedAt < revision' /\ r.startedAt \in Nat
      BY <1>1, <1>2, <2>1
  <2> QED
      BY <1>1, <1>2, <1>7, <2>2 DEF ShownInv
<1> QED
    BY <1>5, <1>6, <1>8, <1>9 DEF SettingInv

LEMMA TakesEffectKeeps ==
    ASSUME SettingInv, NEW m \in Mounts, Setting!TakesEffect(m)
    PROVE  SettingInv'
<1> DEFINE x == [queue[m] EXCEPT !.done = TRUE]
<1>1. /\ queue[m] # Empty /\ sim' = queue[m].value /\ queue' = [queue EXCEPT ![m] = x]
      /\ UNCHANGED <<settingShown, settingFresh, revision, asked, clicks, mount, presses, dock, late, reads,
                     count, troubled, raced, crossed>>
    BY DEF Setting!TakesEffect, Setting!cache, Setting!toggle, Setting!reading, Empty
<1>2. queue[m] \in Queue /\ queue[m].value \in Values
    BY <1>1 DEF SettingInv, SettingTypes, WritersInv, Queue, MaybeValue
<1>3. /\ x \in Queue /\ x.value = queue[m].value /\ x.next = queue[m].next /\ x.value # "none" /\ x # Empty
    BY <1>2, SettingConstants DEF Queue
<1> HIDE DEF x
<1>4. /\ queue' \in [Mounts -> Queue] /\ queue'[m] = x
      /\ \A n \in Mounts : n # m => queue'[n] = queue[n]
      /\ \A n \in Mounts : queue'[n].value = "none" => queue'[n] = Empty
      /\ Sending' = Sending \cup {m}
    BY <1>1, <1>3, QueueChanges
<1>5. m \in Sending /\ Sending' = Sending
    BY <1>1, <1>4, BusyMembers
<1>6. SettingTypes'
    BY <1>1, <1>2, <1>4 DEF SettingInv, SettingTypes
<1>7. WritersInv'
    BY <1>1, <1>4, Empty' = Empty, Resting' = Resting DEF SettingInv, WritersInv
<1>8. AskedInv'
  <2> SUFFICES ASSUME ~troubled, ~raced
               PROVE  /\ \A v, w \in Sending : v = w
                      /\ \A n \in Mounts : queue'[n] # Empty =>
                           /\ asked = IF queue'[n].next = "none" THEN queue'[n].value ELSE queue'[n].next
                           /\ queue'[n].done => sim' = queue'[n].value
                      /\ dock.at # "setting"
      BY <1>1, <1>5, Empty' = Empty DEF AskedInv, ComesTo
  <2>1. \A v, w \in Sending : v = w
      BY DEF SettingInv, AskedInv
  <2>2. dock.at # "setting" /\ \A n \in Mounts : n # m => queue[n] = Empty
      BY <1>5, <2>1, BusyMembers, SettingConstants
  <2>3. asked = ComesTo(m)
      BY <1>1 DEF SettingInv, AskedInv
  <2> QED
      BY <1>1, <1>3, <1>4, <2>1, <2>2, <2>3 DEF ComesTo
<1>9. ShownInv'
    BY <1>1, <1>5 DEF SettingInv, ShownInv
<1> QED
    BY <1>6, <1>7, <1>8, <1>9 DEF SettingInv

\* The loop goes on with the value that waits, or ends.
LEMMA FollowsKeeps ==
    ASSUME SettingInv, NEW m \in Mounts, queue[m] # Empty, Setting!Follows(m), dock' = dock
    PROVE  /\ queue' \in [Mounts -> Queue]
           /\ \A n \in Mounts : queue'[n].value = "none" => queue'[n] = Empty
           /\ \A n \in Mounts : n # m => queue'[n] = queue[n]
           /\ Sending' \subseteq Sending
           /\ queue'[m] = Empty => ComesTo(m) = queue[m].value
           /\ queue'[m] # Empty => ~queue'[m].done /\ queue'[m].next = "none" /\ queue'[m].value = ComesTo(m)
<1> DEFINE next == queue[m].next
           sent == [value |-> next, done |-> FALSE, next |-> "none"]
           x == IF next \in {"none", queue[m].value} THEN Empty ELSE sent
<1>1. queue' = [queue EXCEPT ![m] = x]
    BY DEF Setting!Follows, Setting!None, Setting!Sent, Empty
<1>2. queue[m] \in Queue /\ next \in MaybeValue
    BY DEF SettingInv, SettingTypes, Queue
<1>3. sent \in Queue /\ sent.value = next /\ sent.done = FALSE /\ sent.next = "none"
    BY <1>2 DEF Queue, MaybeValue
<1> HIDE DEF sent
<1>4. /\ x \in Queue /\ (x.value = "none" => x = Empty)
      /\ x = Empty => (IF next = "none" THEN queue[m].value ELSE next) = queue[m].value
      /\ x # Empty => ~x.done /\ x.next = "none" /\ x.value = (IF next = "none" THEN queue[m].value ELSE next)
    BY <1>3, SettingConstants
<1> HIDE DEF x
<1>5. /\ queue' \in [Mounts -> Queue] /\ queue'[m] = x
      /\ \A n \in Mounts : n # m => queue'[n] = queue[n]
      /\ \A n \in Mounts : queue'[n].value = "none" => queue'[n] = Empty
      /\ Sending' = IF x = Empty THEN Sending \ {m} ELSE Sending \cup {m}
    BY <1>1, <1>4, QueueChanges
<1>6. m \in Sending
    BY BusyMembers
<1> QED
    BY <1>4, <1>5, <1>6 DEF ComesTo

LEMMA SetReturnsKeeps ==
    ASSUME SettingInv, NEW m \in Mounts, Setting!SetReturns(m)
    PROVE  SettingInv'
<1>1. /\ queue[m].done /\ Setting!Follows(m) /\ settingFresh' = (settingFresh \/ settingShown = queue[m].value)
      /\ UNCHANGED <<sim, settingShown, revision, asked, clicks, mount, presses, dock, late, reads, count,
                     troubled, raced, crossed>>
    BY DEF Setting!SetReturns, Setting!toggle, Setting!reading
<1>2. queue[m] # Empty /\ m \in Sending
    BY <1>1, SettingConstants, BusyMembers
<1>3. /\ queue' \in [Mounts -> Queue]
      /\ \A n \in Mounts : queue'[n].value = "none" => queue'[n] = Empty
      /\ \A n \in Mounts : n # m => queue'[n] = queue[n]
      /\ Sending' \subseteq Sending
      /\ queue'[m] = Empty => ComesTo(m) = queue[m].value
      /\ queue'[m] # Empty => ~queue'[m].done /\ queue'[m].next = "none" /\ queue'[m].value = ComesTo(m)
    BY <1>1, <1>2, FollowsKeeps
<1>4. SettingTypes'
  <2>1. settingFresh' \in BOOLEAN
      BY <1>1 DEF SettingInv, SettingTypes
  <2> QED
      BY <1>1, <1>3, <2>1 DEF SettingInv, SettingTypes
<1>5. WritersInv'
    BY <1>1, <1>3, Empty' = Empty, Resting' = Resting DEF SettingInv, WritersInv
<1>6. AskedInv'
  <2> SUFFICES ASSUME ~troubled, ~raced
               PROVE  /\ \A v, w \in Sending' : v = w
                      /\ sim = asked \/ Sending' # {}
                      /\ \A n \in Mounts : queue'[n] # Empty =>
                           /\ asked = IF queue'[n].next = "none" THEN queue'[n].value ELSE queue'[n].next
                           /\ queue'[n].done => sim = queue'[n].value
                      /\ dock.at # "setting"
      BY <1>1, Empty' = Empty DEF AskedInv, ComesTo
  <2>1. \A v, w \in Sending : v = w
      BY DEF SettingInv, AskedInv
  <2>2. dock.at # "setting" /\ \A n \in Mounts : n # m => queue[n] = Empty
      BY <1>2, <2>1, BusyMembers, SettingConstants
  <2>3. asked = ComesTo(m) /\ sim = queue[m].value
      BY <1>1, <1>2 DEF SettingInv, AskedInv
  <2>4. sim = asked \/ Sending' # {}
      BY <1>3, <2>3, BusyMembers
  <2> QED
      BY <1>3, <2>1, <2>2, <2>3, <2>4
<1>7. ShownInv'
    BY <1>1, <1>2 DEF SettingInv, ShownInv
<1> QED
    BY <1>4, <1>5, <1>6, <1>7 DEF SettingInv

\* A read begins, or the bound is reached.
LEMMA ReadsKeep ==
    ASSUME SettingInv, Setting!Reads, revision' = revision
    PROVE  /\ reads' \subseteq Read /\ count' \in 0 .. MaxReads
           /\ \A r \in reads' : r.startedAt <= revision
           /\ \A r \in reads' : r \in reads \/ r.value = "none"
<1>1. /\ revision \in Nat /\ count \in 0 .. MaxReads /\ reads \subseteq Read
      /\ \A r \in reads : r.startedAt <= revision
    BY DEF SettingInv, SettingTypes, ShownInv
<1>2. CASE UNCHANGED <<reads, count>>
    BY <1>1, <1>2
<1>3. CASE count < MaxReads /\ count' = count + 1 /\ reads' = reads \cup {Setting!Begun}
  <2>1. /\ Setting!Begun \in Read /\ Setting!Begun.startedAt = revision /\ Setting!Begun.value = "none"
        /\ count' \in 0 .. MaxReads
      BY <1>1, <1>3, SettingConstants DEF Setting!Begun, Setting!None, Read, MaybeValue
  <2> QED
      BY <1>1, <1>3, <2>1
<1> QED
    BY <1>2, <1>3 DEF Setting!Reads, Setting!reading

LEMMA SetFailsKeeps ==
    ASSUME SettingInv, NEW m \in Mounts, Setting!SetFails(m)
    PROVE  SettingInv'
<1>1. /\ queue[m] # Empty /\ troubled' = TRUE /\ Setting!Follows(m) /\ Setting!Reads
      /\ late' \in {late, late \cup {queue[m].value}}
      /\ UNCHANGED <<sim, settingShown, settingFresh, revision, asked, clicks, mount, presses, dock, raced, crossed>>
    BY DEF Setting!SetFails, Setting!GivesUp, Setting!cache, Setting!toggle, Empty
<1>2. /\ queue' \in [Mounts -> Queue]
      /\ \A n \in Mounts : queue'[n].value = "none" => queue'[n] = Empty
    BY <1>1, FollowsKeeps
<1>3. /\ reads' \subseteq Read /\ count' \in 0 .. MaxReads
      /\ \A r \in reads' : r.startedAt <= revision
    BY <1>1, ReadsKeep
<1>4. late' \subseteq Values
  <2>1. queue[m].value \in Values
      BY <1>1 DEF SettingInv, SettingTypes, WritersInv, Queue, MaybeValue
  <2> QED
      BY <1>1, <2>1 DEF SettingInv, SettingTypes
<1> QED
    BY <1>1, <1>2, <1>3, <1>4, Empty' = Empty, Resting' = Resting
    DEF SettingInv, SettingTypes, WritersInv, AskedInv, ShownInv

\* A read is begun by hand, by a press that is over, or by the panel that mounts.
LEMMA RefreshKeeps ==
    ASSUME SettingInv, Setting!Reads, mount' \in Mounts, crossed' = (crossed \/ Sending # {}),
           UNCHANGED <<sim, settingShown, settingFresh, revision, asked, clicks, queue, presses, dock, late,
                       troubled, raced>>
    PROVE  SettingInv'
<1>1. /\ reads' \subseteq Read /\ count' \in 0 .. MaxReads
      /\ \A r \in reads' : r.startedAt <= revision
      /\ \A r \in reads' : r \in reads \/ r.value = "none"
    BY ReadsKeep
<1>2. Sending' = Sending
    BY BusyMembers
<1>3. crossed' \in BOOLEAN /\ (~crossed' => ~crossed /\ Sending = {} /\ dock.at # "setting")
    BY BusyMembers DEF SettingInv, SettingTypes
<1>4. SettingTypes' /\ WritersInv'
    BY <1>1, <1>3, Empty' = Empty, Resting' = Resting DEF SettingInv, SettingTypes, WritersInv
<1>5. AskedInv'
    BY <1>2, Empty' = Empty DEF SettingInv, AskedInv, ComesTo
<1>6. ShownInv'
    BY <1>1, <1>2, <1>3 DEF SettingInv, ShownInv
<1> QED
    BY <1>4, <1>5, <1>6 DEF SettingInv

\* What the toggle's steps have in common: its phase changes, the queues do not.
LEMMA DockChanges ==
    ASSUME SettingInv, queue' = queue
    PROVE  Sending' = (IF dock'.at = "setting" THEN (Sending \ {0}) \cup {0} ELSE Sending \ {0})
BY BusyMembers, SettingConstants

LEMMA PressKeeps ==
    ASSUME SettingInv, Setting!Press
    PROVE  SettingInv'
<1> DEFINE v == Opposite[settingShown]
           x == [at |-> "setting", known |-> settingShown, value |-> v, done |-> FALSE]
           y == [Resting EXCEPT !.at = "reading"]
<1>1. /\ dock = Resting /\ presses < MaxPresses /\ presses' = presses + 1
      /\ UNCHANGED <<sim, clicks, mount, queue, late, reads, count, troubled, crossed>>
      /\ \/ /\ settingShown' = v /\ settingFresh' = FALSE /\ revision' = revision + 1
            /\ asked' = v /\ raced' = (raced \/ Sending \ {0} # {}) /\ dock' = x
         \/ dock' = y /\ UNCHANGED <<settingShown, settingFresh, revision, asked, raced>>
    BY DEF Setting!Press, Setting!Patch, Setting!Asks, Setting!Dock, Setting!cache, Setting!panel,
           Setting!reading, Sending, Resting
<1>2. v \in Values /\ settingShown \in Values /\ "none" \notin Values /\ revision \in Nat
    BY SettingConstants DEF SettingInv, SettingTypes
<1>3. /\ x \in Toggle /\ x.at = "setting" /\ x.known # "none" /\ x.value = v /\ ~x.done
      /\ y \in Toggle /\ y.at = "reading" /\ y.known = "none" /\ ~y.done
    BY <1>2, SettingConstants DEF Toggle, MaybeValue
<1>4. presses' \in 0 .. MaxPresses
    BY <1>1, SettingConstants DEF SettingInv, SettingTypes
<1>5. dock.at = "resting" /\ 0 \notin Sending
    BY <1>1, SettingConstants, BusyMembers
<1> HIDE DEF x, y, v
<1>6. CASE /\ settingShown' = v /\ settingFresh' = FALSE /\ revision' = revision + 1
           /\ asked' = v /\ raced' = (raced \/ Sending \ {0} # {}) /\ dock' = x
  <2>1. SettingTypes'
    <3>1. revision' \in Nat /\ raced' \in BOOLEAN
        BY <1>2, <1>6 DEF SettingInv, SettingTypes
    <3> QED
        BY <1>1, <1>2, <1>3, <1>4, <1>6, <3>1 DEF SettingInv, SettingTypes
  <2>2. WritersInv'
      BY <1>1, <1>2, <1>3, <1>6, Empty' = Empty, Resting' = Resting DEF SettingInv, WritersInv
  <2>3. ASSUME ~raced' PROVE ~raced /\ Sending = {} /\ Sending' = {0} /\ \A n \in Mounts : queue[n] = Empty
    <3>1. ~raced /\ Sending = {}
        BY <1>5, <1>6, <2>3
    <3> QED
        BY <1>1, <1>3, <1>6, <3>1, DockChanges, BusyMembers
  <2>4. AskedInv'
      BY <1>1, <1>3, <1>6, <2>3, Empty' = Empty DEF SettingInv, AskedInv
  <2>5. ShownInv'
    <3>1. \A r \in reads : r.startedAt \in Nat /\ r.startedAt <= revision
        BY DEF SettingInv, SettingTypes, ShownInv, Read
    <3>2. \A r \in reads' : r.startedAt < revision' /\ r.startedAt \in Nat
        BY <1>1, <1>2, <1>6, <3>1
    <3> QED
        BY <1>2, <1>3, <1>6, <3>2 DEF ShownInv
  <2> QED
      BY <2>1, <2>2, <2>4, <2>5 DEF SettingInv
<1>7. CASE dock' = y /\ UNCHANGED <<settingShown, settingFresh, revision, asked, raced>>
  <2>1. Sending' = Sending
      BY <1>1, <1>3, <1>5, <1>7, DockChanges
  <2>2. SettingTypes' /\ WritersInv'
      BY <1>1, <1>3, <1>4, <1>7, Empty' = Empty, Resting' = Resting DEF SettingInv, SettingTypes, WritersInv
  <2>3. AskedInv'
      BY <1>1, <1>3, <1>7, <2>1, Empty' = Empty DEF SettingInv, AskedInv, ComesTo
  <2>4. ShownInv'
      BY <1>1, <1>3, <1>5, <1>7, <2>1 DEF SettingInv, ShownInv
  <2> QED
      BY <2>2, <2>3, <2>4 DEF SettingInv
<1> QED
    BY <1>1, <1>6, <1>7

LEMMA DockReadsKeeps ==
    ASSUME SettingInv, Setting!DockReads
    PROVE  SettingInv'
<1> DEFINE y1 == [dock EXCEPT !.at = "read"]
           y == [y1 EXCEPT !.value = sim]
<1>1. /\ dock.at = "reading"
      /\ UNCHANGED <<sim, settingShown, settingFresh, revision, asked, clicks, mount, queue, presses, late, reads,
                     count, troubled, raced, crossed>>
    BY DEF Setting!DockReads, Setting!cache, Setting!panel, Setting!reading
<1>2. dock \in Toggle /\ sim \in Values /\ dock.known = "none" /\ ~dock.done
    BY <1>1 DEF SettingInv, SettingTypes, WritersInv
<1>3. dock' = y
    BY <1>2 DEF Setting!DockReads
<1>4. y \in Toggle /\ y.at = "read" /\ y.value = sim /\ y.known = "none" /\ ~y.done
  <2>1. y1 \in Toggle /\ y1.at = "read" /\ y1.known = "none" /\ ~y1.done
      BY <1>2 DEF Toggle
  <2> HIDE DEF y1
  <2> QED
      BY <1>2, <2>1 DEF Toggle, MaybeValue
<1> HIDE DEF y
<1>5. Sending' = Sending
    BY <1>1, <1>3, <1>4, BusyMembers
<1>6. SettingTypes' /\ WritersInv'
    BY <1>1, <1>2, <1>3, <1>4, Empty' = Empty, Resting' = Resting DEF SettingInv, SettingTypes, WritersInv
<1>7. AskedInv'
    BY <1>1, <1>3, <1>4, <1>5, Empty' = Empty DEF SettingInv, AskedInv, ComesTo
<1>8. ShownInv'
    BY <1>1, <1>3, <1>4, <1>5 DEF SettingInv, ShownInv
<1> QED
    BY <1>6, <1>7, <1>8 DEF SettingInv

LEMMA DockSendsKeeps ==
    ASSUME SettingInv, Setting!DockSends
    PROVE  SettingInv'
<1> DEFINE v == Opposite[dock.value]
           y1 == [dock EXCEPT !.at = "setting"]
           y == [y1 EXCEPT !.value = v]
<1>1. /\ dock.at = "read" /\ asked' = v /\ raced' = (raced \/ Sending \ {0} # {})
      /\ crossed' = (crossed \/ reads # {})
      /\ UNCHANGED <<sim, settingShown, settingFresh, revision, clicks, mount, queue, presses, late, reads,
                     count, troubled>>
    BY DEF Setting!DockSends, Setting!Asks, Setting!Dock, Setting!cache, Setting!panel, Setting!reading, Sending
<1>2. dock \in Toggle /\ v \in Values /\ dock.known = "none" /\ ~dock.done
    BY <1>1, SettingConstants DEF SettingInv, SettingTypes, WritersInv
<1>3. dock' = y
    BY <1>2 DEF Setting!DockSends
<1> HIDE DEF v
<1>4. y \in Toggle /\ y.at = "setting" /\ y.value = v /\ y.known = "none" /\ ~y.done
  <2>1. y1 \in Toggle /\ y1.at = "setting" /\ y1.known = "none" /\ ~y1.done
      BY <1>2 DEF Toggle
  <2> HIDE DEF y1
  <2> QED
      BY <1>2, <2>1 DEF Toggle, MaybeValue
<1> HIDE DEF y
<1>5. 0 \notin Sending
    BY <1>1, BusyMembers, SettingConstants
<1>6. SettingTypes'
  <2>1. raced' \in BOOLEAN /\ crossed' \in BOOLEAN
      BY <1>1 DEF SettingInv, SettingTypes
  <2> QED
      BY <1>1, <1>2, <1>3, <1>4, <2>1 DEF SettingInv, SettingTypes
<1>7. WritersInv'
    BY <1>1, <1>2, <1>3, <1>4, Empty' = Empty, Resting' = Resting DEF SettingInv, WritersInv
<1>8. ASSUME ~raced' PROVE ~raced /\ Sending' = {0} /\ \A n \in Mounts : queue[n] = Empty
  <2>1. ~raced /\ Sending = {}
      BY <1>1, <1>5, <1>8
  <2> QED
      BY <1>1, <1>3, <1>4, <2>1, DockChanges, BusyMembers
<1>9. AskedInv'
    BY <1>1, <1>3, <1>4, <1>8, Empty' = Empty DEF SettingInv, AskedInv
<1>10. ShownInv'
    BY <1>1, <1>3, <1>4 DEF SettingInv, ShownInv
<1> QED
    BY <1>6, <1>7, <1>9, <1>10 DEF SettingInv

LEMMA DockTakesEffectKeeps ==
    ASSUME SettingInv, Setting!DockTakesEffect
    PROVE  SettingInv'
<1> DEFINE y == [dock EXCEPT !.done = TRUE]
<1>1. /\ dock.at = "setting" /\ sim' = dock.value /\ dock' = y
      /\ UNCHANGED <<settingShown, settingFresh, revision, asked, clicks, mount, queue, presses, late, reads,
                     count, troubled, raced, crossed>>
    BY DEF Setting!DockTakesEffect, Setting!cache, Setting!panel, Setting!reading
<1>2. dock \in Toggle /\ dock.value \in Values
    BY <1>1 DEF SettingInv, SettingTypes, WritersInv
<1>3. y \in Toggle /\ y.at = "setting" /\ y.value = dock.value /\ y.known = dock.known
    BY <1>1, <1>2 DEF Toggle
<1> HIDE DEF y
<1>4. Sending' = Sending /\ 0 \in Sending
    BY <1>1, <1>3, BusyMembers
<1>5. SettingTypes' /\ WritersInv'
    BY <1>1, <1>2, <1>3, Empty' = Empty, Resting' = Resting DEF SettingInv, SettingTypes, WritersInv
<1>6. AskedInv'
  <2> SUFFICES ASSUME ~troubled, ~raced
               PROVE  /\ \A v, w \in Sending : v = w
                      /\ \A n \in Mounts : queue[n] = Empty
                      /\ asked = dock.value
      BY <1>1, <1>3, <1>4, Empty' = Empty DEF AskedInv
  <2>1. (\A v, w \in Sending : v = w) /\ asked = dock.value
      BY <1>1 DEF SettingInv, AskedInv
  <2> QED
      BY <1>4, <2>1, BusyMembers, SettingConstants
<1>7. ShownInv'
    BY <1>1, <1>3, <1>4 DEF SettingInv, ShownInv
<1> QED
    BY <1>5, <1>6, <1>7 DEF SettingInv

LEMMA DockReturnsKeeps ==
    ASSUME SettingInv, Setting!DockReturns
    PROVE  SettingInv'
<1>1. /\ dock.done /\ dock' = Resting /\ settingShown' = dock.value /\ settingFresh' = TRUE
      /\ revision' = (IF settingShown = dock.value THEN revision ELSE revision + 1)
      /\ UNCHANGED <<sim, asked, clicks, mount, queue, presses, late, reads, count, troubled, raced, crossed>>
    BY DEF Setting!DockReturns, Setting!panel, Setting!reading, Resting
<1>2. dock.at = "setting" /\ dock.value \in Values /\ dock.at \in {"resting", "reading", "read", "setting"}
  <2>1. dock.at \in {"resting", "reading", "read", "setting"}
      BY DEF SettingInv, SettingTypes, Toggle
  <2> QED
      BY <1>1, <2>1, SettingConstants DEF SettingInv, WritersInv
<1>3. 0 \in Sending /\ Sending' = Sending \ {0} /\ dock'.at = "resting"
    BY <1>1, <1>2, SettingConstants, BusyMembers, DockChanges
<1>4. revision \in Nat /\ revision' \in Nat /\ revision <= revision'
    BY <1>1 DEF SettingInv, SettingTypes
<1>5. SettingTypes' /\ WritersInv'
    BY <1>1, <1>2, <1>4, SettingConstants, Empty' = Empty, Resting' = Resting DEF SettingInv, SettingTypes, WritersInv
<1>6. ASSUME ~troubled, ~raced
      PROVE  Sending' = {} /\ asked = dock.value /\ sim = asked /\ \A n \in Mounts : queue[n] = Empty
  <2>1. (\A v, w \in Sending : v = w) /\ asked = dock.value /\ sim = dock.value
      BY <1>1, <1>2, <1>6 DEF SettingInv, AskedInv
  <2> QED
      BY <1>3, <2>1, BusyMembers, SettingConstants
<1>7. AskedInv'
    BY <1>1, <1>3, <1>6, Empty' = Empty DEF AskedInv
<1>8. ShownInv'
  <2>1. \A r \in reads' : r.startedAt <= revision'
    <3>1. \A r \in reads : r.startedAt \in Nat /\ r.startedAt <= revision
        BY DEF SettingInv, SettingTypes, ShownInv, Read
    <3> QED
        BY <1>1, <1>4, <3>1
  <2>2. ASSUME ~troubled, ~raced, ~crossed
        PROVE  settingShown' = asked /\ \A r \in reads : r.startedAt # revision'
    <3>1. CASE dock.known = "none"
        BY <1>1, <1>2, <1>6, <2>2, <3>1 DEF SettingInv, ShownInv
    <3>2. CASE dock.known # "none"
      <4>1. settingShown = asked /\ \A r \in reads : r.startedAt # revision
          BY <1>3, <2>2, <3>2 DEF SettingInv, ShownInv
      <4> QED
          BY <1>1, <1>6, <2>2, <4>1
    <3> QED
        BY <3>1, <3>2
  <2> QED
      BY <1>1, <1>3, <2>1, <2>2 DEF ShownInv
<1> QED
    BY <1>5, <1>7, <1>8 DEF SettingInv

LEMMA DockFailsKeeps ==
    ASSUME SettingInv, Setting!DockFails
    PROVE  SettingInv'
<1>1. /\ dock # Resting /\ dock' = Resting
      /\ UNCHANGED <<sim, asked, clicks, mount, queue, presses, reads, count, raced, crossed>>
      /\ IF dock.at = "setting" THEN troubled' = TRUE /\ late' \in {late, late \cup {dock.value}}
                                ELSE troubled' = troubled /\ late' = late
      /\ \/ dock.known # "none" /\ settingShown' = dock.known /\ settingFresh' = FALSE /\ revision' = revision + 1
         \/ UNCHANGED <<settingShown, settingFresh, revision>>
      /\ dock.known = "none" => UNCHANGED <<settingShown, settingFresh, revision>>
    BY DEF Setting!DockFails, Setting!GivesUp, Setting!Patch, Setting!None, Setting!cache, Setting!panel,
           Setting!reading, Resting
<1>2. dock \in Toggle /\ revision \in Nat /\ dock.known \in MaybeValue
    BY DEF SettingInv, SettingTypes, Toggle
<1>3. SettingTypes'
  <2>0. settingShown \in Values /\ settingFresh \in BOOLEAN
      BY DEF SettingInv, SettingTypes
  <2>1. settingShown' \in Values /\ settingFresh' \in BOOLEAN /\ revision' \in Nat
    <3>1. CASE /\ dock.known # "none" /\ settingShown' = dock.known /\ settingFresh' = FALSE
               /\ revision' = revision + 1
      <4>1. dock.known \in Values /\ revision' \in Nat
          BY <1>2, <3>1 DEF MaybeValue
      <4>2. settingFresh' \in BOOLEAN
          BY <3>1, Zenon
      <4> QED
          BY <3>1, <4>1, <4>2
    <3>2. CASE UNCHANGED <<settingShown, settingFresh, revision>>
        BY <1>2, <2>0, <3>2
    <3> QED
        BY <1>1, <3>1, <3>2
  <2>2. late' \subseteq Values /\ troubled' \in BOOLEAN
      BY <1>1 DEF SettingInv, SettingTypes, WritersInv
  <2> QED
      BY <1>1, <2>1, <2>2, SettingConstants DEF SettingInv, SettingTypes
<1>4. WritersInv'
    BY <1>1, SettingConstants, Empty' = Empty, Resting' = Resting DEF SettingInv, WritersInv
<1>5. Sending' = Sending \ {0} /\ dock'.at = "resting"
    BY <1>1, SettingConstants, DockChanges
<1>6. ASSUME ~troubled'
      PROVE  /\ dock.at # "setting" /\ ~troubled /\ Sending' = Sending
             /\ UNCHANGED <<settingShown, settingFresh, revision>>
  <2>1. dock.at # "setting" /\ ~troubled
      BY <1>1, <1>6
  <2>2. dock.known = "none"
      BY <1>1, <1>2, <2>1 DEF SettingInv, WritersInv, Toggle
  <2>3. 0 \notin Sending
      BY <2>1, BusyMembers, SettingConstants
  <2> QED
      BY <1>1, <1>5, <2>1, <2>2, <2>3
<1>7. AskedInv'
    BY <1>1, <1>5, <1>6, Empty' = Empty DEF SettingInv, AskedInv, ComesTo
<1>8. ShownInv'
  <2>1. \A r \in reads' : r.startedAt <= revision'
    <3>1. \A r \in reads : r.startedAt \in Nat /\ r.startedAt <= revision
        BY DEF SettingInv, SettingTypes, ShownInv, Read
    <3> QED
        BY <1>1, <1>2, <3>1
  <2> QED
      BY <1>1, <1>5, <1>6, <2>1 DEF SettingInv, ShownInv
<1> QED
    BY <1>3, <1>4, <1>7, <1>8 DEF SettingInv

\* The server reads.
LEMMA ReadsSimKeeps ==
    ASSUME SettingInv, NEW r \in reads, Setting!ReadsSim(r)
    PROVE  SettingInv'
<1> DEFINE y == [r EXCEPT !.value = sim]
<1>1. /\ reads' = (reads \ {r}) \cup {y}
      /\ UNCHANGED <<sim, settingShown, settingFresh, revision, asked, clicks, mount, queue, presses, dock, late,
                     count, troubled, raced, crossed>>
    BY DEF Setting!ReadsSim, Setting!cache, Setting!panel, Setting!toggle
<1>2. y \in Read /\ y.value = sim /\ y.startedAt = r.startedAt
    BY DEF SettingInv, SettingTypes, Read, MaybeValue
<1> HIDE DEF y
<1>3. Sending' = Sending
    BY <1>1, BusyMembers
<1>4. SettingTypes' /\ WritersInv'
    BY <1>1, <1>2, Empty' = Empty, Resting' = Resting DEF SettingInv, SettingTypes, WritersInv
<1>5. AskedInv'
    BY <1>1, <1>3, Empty' = Empty DEF SettingInv, AskedInv, ComesTo
<1>6. ShownInv'
  <2>1. ~troubled /\ ~raced /\ ~crossed /\ y.startedAt = revision => Sending = {} /\ sim = asked
      BY <1>2 DEF SettingInv, AskedInv, ShownInv
  <2> QED
      BY <1>1, <1>2, <1>3, <2>1 DEF SettingInv, ShownInv
<1> QED
    BY <1>4, <1>5, <1>6 DEF SettingInv

LEMMA ReadReturnsKeeps ==
    ASSUME SettingInv, NEW r \in reads, Setting!ReadReturns(r)
    PROVE  SettingInv'
<1>1. /\ reads' = reads \ {r}
      /\ \/ UNCHANGED <<settingShown, settingFresh>>
         \/ r.value # "none" /\ r.startedAt = revision /\ settingShown' = r.value /\ settingFresh' = TRUE
      /\ UNCHANGED <<sim, revision, asked, clicks, mount, queue, presses, dock, late, count, troubled, raced, crossed>>
    BY DEF Setting!ReadReturns, Setting!CurrentRead, Setting!None, Setting!panel, Setting!toggle
<1>2. Sending' = Sending
    BY <1>1, BusyMembers
<1>3. SettingTypes'
  <2>1. r.value \in MaybeValue
      BY DEF SettingInv, SettingTypes, Read
  <2> QED
      BY <1>1, <2>1 DEF SettingInv, SettingTypes, MaybeValue
<1>4. WritersInv'
    BY <1>1, Empty' = Empty, Resting' = Resting DEF SettingInv, WritersInv
<1>5. AskedInv'
    BY <1>1, <1>2, Empty' = Empty DEF SettingInv, AskedInv, ComesTo
<1>6. ShownInv'
    BY <1>1, <1>2 DEF SettingInv, ShownInv
<1> QED
    BY <1>3, <1>4, <1>5, <1>6 DEF SettingInv

LEMMA SettingNextKeeps == SettingInv /\ [Setting!SettingsNext]_setting => SettingInv'
<1> SUFFICES ASSUME SettingInv, [Setting!SettingsNext]_setting PROVE SettingInv'
    OBVIOUS
<1>1. ASSUME NEW v \in Values, Setting!Click(v) PROVE SettingInv'
    BY <1>1, ClickKeeps
<1>2. ASSUME NEW m \in Mounts, Setting!TakesEffect(m) \/ Setting!SetReturns(m) \/ Setting!SetFails(m)
      PROVE  SettingInv'
    BY <1>2, TakesEffectKeeps, SetReturnsKeeps, SetFailsKeeps
<1>3. CASE Setting!Refresh
  <2>1. mount \in Mounts
      BY DEF SettingInv, SettingTypes
  <2> QED
      BY <1>3, <2>1, RefreshKeeps DEF Setting!Refresh, Setting!cache, Setting!panel, Setting!toggle, Sending
<1>4. CASE Setting!Remount
  <2>1. mount' \in Mounts
      BY <1>4, SettingConstants DEF Setting!Remount, SettingInv, SettingTypes, Mounts, Setting!Mounts
  <2> QED
      BY <1>4, <2>1, RefreshKeeps DEF Setting!Remount, Setting!cache, Setting!toggle, Sending
<1>5. ASSUME NEW v \in late, Setting!LateSet(v) PROVE SettingInv'
  <2>1. troubled /\ v \in Values
      BY DEF SettingInv, SettingTypes, WritersInv
  <2>2. /\ sim' = v /\ late' = late \ {v}
        /\ UNCHANGED <<settingShown, settingFresh, revision, asked, clicks, mount, queue, presses, dock, reads, count,
                       troubled, raced, crossed>>
      BY <1>5 DEF Setting!LateSet, Setting!cache, Setting!panel, Setting!toggle, Setting!reading
  <2> QED
      BY <2>1, <2>2, Empty' = Empty, Resting' = Resting
      DEF SettingInv, SettingTypes, WritersInv, AskedInv, ShownInv
<1>6. ASSUME NEW r \in reads, Setting!ReadsSim(r) \/ Setting!ReadReturns(r) PROVE SettingInv'
    BY <1>6, ReadsSimKeeps, ReadReturnsKeeps
<1>7. CASE \/ Setting!Press \/ Setting!DockReads \/ Setting!DockSends \/ Setting!DockTakesEffect
           \/ Setting!DockReturns \/ Setting!DockFails
    BY <1>7, PressKeeps, DockReadsKeeps, DockSendsKeeps, DockTakesEffectKeeps, DockReturnsKeeps, DockFailsKeeps
<1>8. CASE UNCHANGED setting
  <2>1. Sending' = Sending
      BY <1>8, BusyMembers DEF setting
  <2> QED
      BY <1>8, <2>1, Empty' = Empty, Resting' = Resting
      DEF setting, SettingInv, SettingTypes, WritersInv, AskedInv, ComesTo, ShownInv
<1> QED
    BY <1>1, <1>2, <1>3, <1>4, <1>5, <1>6, <1>7, <1>8 DEF Setting!SettingsNext, Mounts

LEMMA SettingInitInv == Setting!SettingsInit => SettingInv
<1> SUFFICES ASSUME Setting!SettingsInit PROVE SettingInv
    OBVIOUS
<1>1. /\ sim = Default /\ settingShown = Default /\ asked = Default /\ settingFresh = TRUE /\ revision = 0
      /\ clicks = 0 /\ mount = 1 /\ queue = [m \in Mounts |-> Empty] /\ presses = 0 /\ dock = Resting
      /\ late = {} /\ reads = {} /\ count = 0 /\ troubled = FALSE /\ raced = FALSE /\ crossed = FALSE
    BY DEF Setting!SettingsInit, Mounts, Empty, Resting
<1>2. SettingTypes /\ WritersInv
  <2>1. queue \in [Mounts -> Queue]
      BY <1>1, SettingConstants
  <2>2. 0 \in 0 .. MaxClicks /\ 0 \in 0 .. MaxPresses /\ 0 \in 0 .. MaxReads
      BY SettingConstants
  <2>3. SettingTypes
      BY <1>1, <2>1, <2>2, SettingConstants DEF SettingTypes
  <2> QED
      BY <1>1, <2>3, SettingConstants DEF WritersInv
<1>3. Sending = {}
    BY <1>1, SettingConstants, BusyMembers
<1> QED
    BY <1>1, <1>2, <1>3, SettingConstants DEF SettingInv, AskedInv, ShownInv

\* Once everything is over, no set failed and no two writers' sets were in flight at once, the
\* simulator has the value asked for last, by the panel, however often it was mounted, or by
\* the toggle; and the page shows it unless a read crossed a set: for any number of clicks,
\* presses, mounts, reads and values.  (latest-wins.ts:8-29, simulator-settings-cache.ts,
\* simulator-appearance.ts:52-86)
THEOREM LastSetWins == PartsSpec => []LastSetLands
<1>1. PartsInit => SettingInv
    BY SettingInitInv DEF PartsInit
<1>2. SettingInv /\ [PartsNext]_<<part, touch, gateway, motion, preview, switch, socket, setting, recording>>
        => SettingInv'
    BY PartSteps, SettingNextKeeps
<1>3. SettingInv => LastSetLands
  <2> SUFFICES ASSUME SettingInv, Setting!AtRest, ~troubled, ~raced
               PROVE  sim = asked /\ (~crossed => settingShown = sim)
      BY DEF LastSetLands, Setting!LastSetLands
  <2>1. Sending = {} /\ dock.at = "resting"
      BY SettingConstants DEF Setting!AtRest, Sending, Resting
  <2> QED
      BY <2>1 DEF SettingInv, AskedInv, ShownInv
<1> QED
    BY <1>1, <1>2, <1>3, PTL DEF PartsSpec

-----------------------------------------------------------------------------
(* Switching simulators.  Numbers of switches differ, and the page and the   *)
(* URL differ only while the latest switch is under way, or after a refusal. *)

Asked == [device : Devices, push : BOOLEAN, phase : {"loading", "starting", "again", "over"},
          id : Nat, shell : Nat]

SwitchTypes ==
    /\ history \in Seq(Devices) /\ at \in DOMAIN history /\ shown \in Devices
    /\ shell \in Nat /\ latest \in Nat /\ busy \in BOOLEAN /\ refused \in BOOLEAN
    /\ asks \in Seq(Asked)

\* latestSwitch numbers its switches, and only a click waits for a start.
NumbersInv ==
    /\ \A k \in DOMAIN asks : asks[k].id <= latest
    /\ \A j, k \in DOMAIN asks : asks[j].id = asks[k].id => j = k
    /\ \A k \in DOMAIN asks : asks[k].phase \in {"starting", "again"} => asks[k].push

\* The latest switch of a Back or Forward loads what the URL names; once the latest switch
\* is over, it is what the page shows.
AgreeInv ==
    /\ \A k \in DOMAIN asks :
         asks[k].id = latest /\ asks[k].phase = "loading" /\ ~asks[k].push => asks[k].device = history[at]
    /\ ~refused /\ (\A k \in DOMAIN asks : asks[k].id = latest => asks[k].phase = "over")
         => shown = history[at]

SwitchInv == SwitchTypes /\ NumbersInv /\ AgreeInv

\* runSwitch appends an ask that is the latest.
LEMMA AskAppends ==
    ASSUME SwitchInv, NEW device \in Devices, NEW push \in BOOLEAN, Switch!Ask(device, push)
    PROVE  /\ latest' = latest + 1 /\ refused' = refused
           /\ asks' \in Seq(Asked) /\ NumbersInv'
           /\ \E k \in DOMAIN asks' :
                /\ asks'[k].id = latest' /\ asks'[k].phase = "loading"
                /\ asks'[k].device = device /\ asks'[k].push = push
                /\ \A j \in DOMAIN asks' : asks'[j].id = latest' => j = k
<1> DEFINE new == [device |-> device, push |-> push, phase |-> "loading",
                   id |-> latest + 1, shell |-> shell]
           last == Len(asks) + 1
<1>1. /\ latest' = latest + 1 /\ refused' = refused /\ asks' = Append(asks, new)
      /\ latest \in Nat /\ asks \in Seq(Asked)
    BY DEF Switch!Ask, SwitchInv, SwitchTypes
<1>2. /\ new \in Asked /\ new.id = latest + 1 /\ new.phase = "loading"
      /\ new.device = device /\ new.push = push
    BY <1>1 DEF SwitchInv, SwitchTypes, Asked
<1> HIDE DEF new
<1>3. /\ asks' \in Seq(Asked) /\ DOMAIN asks' = DOMAIN asks \cup {last} /\ last \notin DOMAIN asks
      /\ asks'[last] = new /\ \A k \in DOMAIN asks : asks'[k] = asks[k]
      /\ \A k \in DOMAIN asks : asks[k] \in Asked
    BY <1>1, <1>2
<1> HIDE DEF last
<1>4. \A k \in DOMAIN asks : asks[k].id \in Nat /\ asks[k].id <= latest
    BY <1>3 DEF SwitchInv, NumbersInv, Asked
<1>5. NumbersInv'
    BY <1>1, <1>2, <1>3, <1>4 DEF SwitchInv, NumbersInv
<1> QED
    BY <1>1, <1>2, <1>3, <1>4, <1>5

\* An ask enters a phase; it waits for a start only if it is a click.
LEMMA PhaseChanges ==
    ASSUME SwitchInv, NEW k \in DOMAIN asks, NEW phase \in {"loading", "starting", "again", "over"},
           Switch!Phase(k, phase), latest' = latest,
           phase \in {"starting", "again"} => asks[k].push
    PROVE  /\ asks' \in Seq(Asked) /\ DOMAIN asks' = DOMAIN asks /\ NumbersInv'
           /\ \A j \in DOMAIN asks :
                /\ asks'[j].id = asks[j].id /\ asks'[j].push = asks[j].push
                /\ asks'[j].device = asks[j].device
                /\ asks'[j].phase = IF j = k THEN phase ELSE asks[j].phase
<1>1. /\ asks \in Seq(Asked) /\ asks' = [asks EXCEPT ![k].phase = phase]
      /\ \A j \in DOMAIN asks : asks[j] \in Asked
    BY DEF Switch!Phase, SwitchInv, SwitchTypes
<1>2. /\ [asks[k] EXCEPT !.phase = phase] \in Asked
      /\ [asks[k] EXCEPT !.phase = phase].phase = phase
      /\ [asks[k] EXCEPT !.phase = phase].id = asks[k].id
      /\ [asks[k] EXCEPT !.phase = phase].push = asks[k].push
      /\ [asks[k] EXCEPT !.phase = phase].device = asks[k].device
    BY <1>1 DEF Asked
<1>3. /\ asks' \in Seq(Asked) /\ DOMAIN asks' = DOMAIN asks
      /\ asks'[k] = [asks[k] EXCEPT !.phase = phase]
      /\ \A j \in DOMAIN asks : j # k => asks'[j] = asks[j]
    BY <1>1, <1>2
<1>4. \A j \in DOMAIN asks :
        /\ asks'[j].id = asks[j].id /\ asks'[j].push = asks[j].push
        /\ asks'[j].device = asks[j].device
        /\ asks'[j].phase = IF j = k THEN phase ELSE asks[j].phase
    BY <1>2, <1>3
<1>5. NumbersInv'
    BY <1>3, <1>4 DEF SwitchInv, NumbersInv
<1> QED
    BY <1>3, <1>4, <1>5

LEMMA AskedAgain ==
    ASSUME NEW a \in Asked, NEW n \in Nat
    PROVE  LET again == [a EXCEPT !.phase = "again", !.id = n]
           IN  /\ again \in Asked /\ again.phase = "again" /\ again.id = n
               /\ again.push = a.push /\ again.device = a.device
<1> DEFINE a1 == [a EXCEPT !.phase = "again"]
           a2 == [a1 EXCEPT !.id = n]
<1>1. a1 \in Asked /\ a1.phase = "again" /\ a1.push = a.push /\ a1.device = a.device
    BY DEF Asked
<1>2. [a EXCEPT !.phase = "again", !.id = n] = a2
    OBVIOUS
<1> HIDE DEF a1
<1>3. a2 \in Asked /\ a2.phase = a1.phase /\ a2.id = n /\ a2.push = a1.push /\ a2.device = a1.device
    BY <1>1 DEF Asked
<1> QED
    BY <1>1, <1>2, <1>3

LEMMA SwitchNextKeeps == SwitchInv /\ [Switch!SwitchNext]_switch => SwitchInv'
<1> SUFFICES ASSUME SwitchInv, [Switch!SwitchNext]_switch PROVE SwitchInv'
    OBVIOUS
<1>0. /\ SwitchTypes /\ NumbersInv /\ AgreeInv
      /\ history[at] \in Devices /\ \A k \in DOMAIN asks : asks[k] \in Asked
    BY DEF SwitchInv, SwitchTypes
<1>1. ASSUME NEW d \in Devices, Switch!Click(d) PROVE SwitchInv'
  <2>1. /\ Switch!Ask(d, TRUE) /\ busy' = TRUE
        /\ UNCHANGED <<history, at, shown, shell>>
      BY <1>1 DEF Switch!Click
  <2>2. /\ latest' = latest + 1 /\ refused' = refused
        /\ asks' \in Seq(Asked) /\ NumbersInv'
        /\ \E k \in DOMAIN asks' :
             /\ asks'[k].id = latest' /\ asks'[k].phase = "loading" /\ asks'[k].push = TRUE
             /\ \A j \in DOMAIN asks' : asks'[j].id = latest' => j = k
      BY <2>1, AskAppends
  <2> QED
      BY <1>0, <2>1, <2>2 DEF SwitchInv, SwitchTypes, AgreeInv
<1>2. ASSUME NEW step \in {1, 0 - 1}, Switch!Pop(step) PROVE SwitchInv'
  <2>1. /\ at' = at + step /\ at' \in DOMAIN history /\ Switch!Ask(history[at'], FALSE)
        /\ UNCHANGED <<history, shown, shell, busy>>
      BY <1>2 DEF Switch!Pop
  <2>2. history[at'] \in Devices
      BY <1>0, <2>1 DEF SwitchTypes
  <2>3. /\ latest' = latest + 1 /\ refused' = refused
        /\ asks' \in Seq(Asked) /\ NumbersInv'
        /\ \E k \in DOMAIN asks' :
             /\ asks'[k].id = latest' /\ asks'[k].phase = "loading" /\ asks'[k].device = history[at']
             /\ \A j \in DOMAIN asks' : asks'[j].id = latest' => j = k
      BY <2>1, <2>2, AskAppends
  <2> QED
      BY <1>0, <2>1, <2>3 DEF SwitchInv, SwitchTypes, AgreeInv
<1>3. ASSUME NEW k \in DOMAIN asks, Switch!Lands(k) PROVE SwitchInv'
  <2>1. /\ asks[k].phase \in {"loading", "again"} /\ Switch!Phase(k, "over") /\ latest' = latest
      BY <1>3 DEF Switch!Lands
  <2>2. /\ asks' \in Seq(Asked) /\ DOMAIN asks' = DOMAIN asks /\ NumbersInv'
        /\ \A j \in DOMAIN asks :
             /\ asks'[j].id = asks[j].id /\ asks'[j].push = asks[j].push
             /\ asks'[j].device = asks[j].device
             /\ asks'[j].phase = IF j = k THEN "over" ELSE asks[j].phase
      BY <2>1, PhaseChanges
  <2>3. CASE asks[k].id # latest
    <3>1. UNCHANGED <<shown, shell, busy, history, at, refused>>
        BY <1>3, <2>3 DEF Switch!Lands, Switch!Current
    <3> QED
        BY <1>0, <2>1, <2>2, <2>3, <3>1 DEF SwitchInv, SwitchTypes, AgreeInv
  <2>4. CASE asks[k].id = latest
    <3>1. /\ shown' = asks[k].device /\ shell' = shell + 1 /\ busy' = FALSE /\ refused' = FALSE
          /\ history' = IF asks[k].push THEN SubSeq(history, 1, at) \o <<asks[k].device>> ELSE history
          /\ at' = IF asks[k].push THEN at + 1 ELSE at
        BY <1>3, <2>4 DEF Switch!Lands, Switch!Current
    <3>2. asks[k].device \in Devices /\ asks[k].push \in BOOLEAN
        BY <1>0 DEF Asked
    <3>3. /\ history' \in Seq(Devices) /\ at' \in DOMAIN history' /\ history'[at'] = asks[k].device
      <4>1. CASE asks[k].push
        <5> DEFINE kept == SubSeq(history, 1, at)
        <5>1. kept \in Seq(Devices) /\ Len(kept) = at /\ at \in Nat
            BY <1>0 DEF SwitchTypes
        <5> HIDE DEF kept
        <5>2. history' = kept \o <<asks[k].device>> /\ at' = Len(kept) + 1
            BY <3>1, <4>1, <5>1 DEF kept
        <5> QED
            BY <3>2, <5>1, <5>2
      <4>2. CASE ~asks[k].push
        <5>1. asks[k].device = history[at]
            BY <1>0, <2>1, <2>4, <4>2 DEF NumbersInv, AgreeInv
        <5> QED
            BY <1>0, <3>1, <4>2, <5>1 DEF SwitchTypes
      <4> QED
          BY <4>1, <4>2
    <3>4. \A j \in DOMAIN asks : asks[j].id = latest => j = k
        BY <1>0, <2>4 DEF NumbersInv
    <3>5. SwitchTypes'
      <4>1. busy' \in BOOLEAN /\ refused' \in BOOLEAN
          BY <3>1
      <4>2. latest' \in Nat /\ shown' \in Devices /\ shell' \in Nat
          BY <1>0, <2>1, <3>1, <3>2 DEF SwitchTypes
      <4> QED
          BY <2>2, <3>3, <4>1, <4>2 DEF SwitchTypes
    <3>6. AgreeInv'
        BY <2>1, <2>2, <3>1, <3>3, <3>4 DEF AgreeInv
    <3> QED
        BY <2>2, <3>5, <3>6 DEF SwitchInv
  <2> QED
      BY <2>3, <2>4
<1>4. ASSUME NEW k \in DOMAIN asks, Switch!LoadsNothing(k) PROVE SwitchInv'
  <2>1. /\ Switch!Phase(k, "over") /\ asks[k].id # latest
        /\ UNCHANGED <<history, at, shown, shell, busy, latest, refused>>
      BY <1>4 DEF Switch!LoadsNothing, Switch!Current
  <2>2. /\ asks' \in Seq(Asked) /\ DOMAIN asks' = DOMAIN asks /\ NumbersInv'
        /\ \A j \in DOMAIN asks :
             /\ asks'[j].id = asks[j].id /\ asks'[j].push = asks[j].push
             /\ asks'[j].device = asks[j].device
             /\ asks'[j].phase = IF j = k THEN "over" ELSE asks[j].phase
      BY <2>1, PhaseChanges
  <2> QED
      BY <1>0, <2>1, <2>2 DEF SwitchInv, SwitchTypes, AgreeInv
<1>5. ASSUME NEW k \in DOMAIN asks, Switch!NothingYet(k) PROVE SwitchInv'
  <2>1. /\ Switch!Phase(k, "starting") /\ asks[k].push
        /\ UNCHANGED <<history, at, shown, shell, busy, latest, refused>>
        /\ asks[k].id = latest
      BY <1>5 DEF Switch!NothingYet, Switch!Current
  <2>2. /\ asks' \in Seq(Asked) /\ DOMAIN asks' = DOMAIN asks /\ NumbersInv'
        /\ \A j \in DOMAIN asks :
             /\ asks'[j].id = asks[j].id /\ asks'[j].push = asks[j].push
             /\ asks'[j].device = asks[j].device
             /\ asks'[j].phase = IF j = k THEN "starting" ELSE asks[j].phase
      BY <2>1, PhaseChanges
  <2> QED
      BY <1>0, <2>1, <2>2 DEF SwitchInv, SwitchTypes, AgreeInv
<1>6. ASSUME NEW k \in DOMAIN asks, Switch!Started(k) PROVE SwitchInv'
  <2> DEFINE again == [asks[k] EXCEPT !.phase = "again", !.id = latest + 1]
  <2>1. /\ latest' = latest + 1 /\ asks[k].phase = "starting" /\ latest \in Nat
        /\ asks' = [asks EXCEPT ![k] = again]
        /\ UNCHANGED <<history, at, shown, shell, busy, refused>>
      BY <1>0, <1>6 DEF Switch!Started, SwitchTypes
  <2>2. again \in Asked /\ again.phase = "again" /\ again.id = latest + 1 /\ again.push = asks[k].push
    <3>1. asks[k] \in Asked /\ latest + 1 \in Nat
        BY <1>0, <2>1
    <3> QED
        BY <3>1, AskedAgain
  <2> HIDE DEF again
  <2>3. /\ asks' \in Seq(Asked) /\ DOMAIN asks' = DOMAIN asks
        /\ asks'[k] = again /\ \A j \in DOMAIN asks : j # k => asks'[j] = asks[j]
      BY <1>0, <2>1, <2>2 DEF SwitchTypes
  <2>4. \A j \in DOMAIN asks : asks[j].id \in Nat /\ asks[j].id <= latest
      BY <1>0 DEF NumbersInv, Asked
  <2>5. NumbersInv'
      BY <1>0, <2>1, <2>2, <2>3, <2>4 DEF NumbersInv
  <2> QED
      BY <1>0, <2>1, <2>2, <2>3, <2>4, <2>5 DEF SwitchInv, SwitchTypes, AgreeInv
<1>7. ASSUME NEW k \in DOMAIN asks, Switch!StartFails(k) PROVE SwitchInv'
  <2>1. /\ Switch!Phase(k, "over") /\ refused' = TRUE /\ busy' \in BOOLEAN
        /\ UNCHANGED <<history, at, shown, shell, latest>>
      BY <1>7 DEF Switch!StartFails, Switch!ClickFails
  <2>2. /\ asks' \in Seq(Asked) /\ DOMAIN asks' = DOMAIN asks /\ NumbersInv'
        /\ \A j \in DOMAIN asks :
             /\ asks'[j].id = asks[j].id /\ asks'[j].push = asks[j].push
             /\ asks'[j].device = asks[j].device
             /\ asks'[j].phase = IF j = k THEN "over" ELSE asks[j].phase
      BY <2>1, PhaseChanges
  <2> QED
      BY <1>0, <2>1, <2>2 DEF SwitchInv, SwitchTypes, AgreeInv
<1>8. ASSUME NEW k \in DOMAIN asks, Switch!Reloads(k) PROVE SwitchInv'
  <2>1. /\ shown' = history[at] /\ shell' = shell + 1 /\ busy' = FALSE /\ refused' = FALSE
        /\ asks' = [j \in DOMAIN asks |-> [asks[j] EXCEPT !.phase = "over"]]
        /\ UNCHANGED <<history, at, latest>>
      BY <1>8 DEF Switch!Reloads, Switch!Url
  <2>2. \A j \in DOMAIN asks :
          /\ [asks[j] EXCEPT !.phase = "over"] \in Asked
          /\ [asks[j] EXCEPT !.phase = "over"].phase = "over"
          /\ [asks[j] EXCEPT !.phase = "over"].id = asks[j].id
      BY <1>0 DEF Asked
  <2>3. asks' \in Seq(Asked) /\ DOMAIN asks' = DOMAIN asks
    <3>1. DOMAIN asks = 1..Len(asks) /\ Len(asks) \in Nat
        BY <1>0 DEF SwitchTypes
    <3> QED
        BY <2>1, <2>2, <3>1
  <2>4. \A j \in DOMAIN asks : asks'[j].phase = "over" /\ asks'[j].id = asks[j].id
      BY <2>1, <2>2
  <2>5. NumbersInv'
      BY <1>0, <2>1, <2>3, <2>4 DEF NumbersInv
  <2>6. SwitchTypes'
    <3>1. busy' \in BOOLEAN /\ refused' \in BOOLEAN
        BY <2>1
    <3>2. shell' \in Nat
        BY <1>0, <2>1 DEF SwitchTypes
    <3> QED
        BY <1>0, <2>1, <2>3, <3>1, <3>2 DEF SwitchTypes
  <2>7. AgreeInv'
      BY <2>1, <2>3, <2>4 DEF AgreeInv
  <2> QED
      BY <2>5, <2>6, <2>7 DEF SwitchInv
<1>9. CASE UNCHANGED switch
    BY <1>0, <1>9 DEF switch, SwitchInv, SwitchTypes, NumbersInv, AgreeInv
<1> QED
    BY <1>1, <1>2, <1>3, <1>4, <1>5, <1>6, <1>7, <1>8, <1>9 DEF Switch!SwitchNext

LEMMA SwitchInitInv == Switch!SwitchInit => SwitchInv
<1> SUFFICES ASSUME Switch!SwitchInit PROVE SwitchInv
    OBVIOUS
<1>1. /\ history = <<First>> /\ at = 1 /\ shown = First /\ shell = 0
      /\ busy = FALSE /\ latest = 0 /\ asks = <<>> /\ refused = FALSE /\ First \in Devices
    BY BrowserAssumption DEF Switch!SwitchInit
<1>2. /\ history \in Seq(Devices) /\ DOMAIN history = {1} /\ history[1] = First
      /\ asks \in Seq(Asked) /\ DOMAIN asks = {}
    BY <1>1
<1> QED
    BY <1>1, <1>2 DEF SwitchInv, SwitchTypes, NumbersInv, AgreeInv

\* At rest the page shows the device that the URL names unless a click failed, for any
\* number of overlapping clicks, Backs and Forwards.
\* (client.tsx:355-392, latest-switch.ts)
THEOREM UrlAgrees == PartsSpec => []UrlAgreesUnlessRefused
<1>1. PartsInit => SwitchInv
    BY SwitchInitInv DEF PartsInit
<1>2. SwitchInv /\ [PartsNext]_<<part, touch, gateway, motion, preview, switch, socket, setting, recording>>
        => SwitchInv'
    BY PartSteps, SwitchNextKeeps
<1>3. SwitchInv => UrlAgreesUnlessRefused
    BY DEF SwitchInv, AgreeInv, UrlAgreesUnlessRefused, Switch!UrlAgreesUnlessRefused,
           Switch!AtRest, Switch!Url
<1> QED
    BY <1>1, <1>2, <1>3, PTL DEF PartsSpec

-----------------------------------------------------------------------------
(* The recorders of the page, for any number of recorders, pictures and      *)
(* encoder sessions: the files they export play, and none of them runs       *)
(* without the hook that can stop it.                                        *)

Recorders == Recording!Recorders
Busy == {"recording", "stopping", "finalizing"}

Pic == Recording!Pictures
Recorder == [kind : {"native", "canvas"}, state : Busy \cup {"none", "finished", "error", "cancelled"},
             description : Descriptions \cup {0}, pending : Seq(Pic), written : Seq(Pic)]
Source == [session : 0 .. MaxSession, begun : BOOLEAN, sequence : 0 .. MaxSequence,
           description : Descriptions \cup {0}]
Hook == [phase : {"idle", "starting", "recording", "stopping"}, recorder : {0} \cup Recorders,
         starting : BOOLEAN, mounted : BOOLEAN, streaming : BOOLEAN]

RecordingTypes ==
    /\ source \in Source /\ hook \in Hook /\ load \in {"none", "awaited", "abandoned"}
    /\ rec \in [Recorders -> Recorder]

\* Pictures that play: the first is a keyframe, the others follow their predecessor in its
\* session or are keyframes, and all are encoded under description d.
Chained(s, d) ==
    /\ s # <<>> => s[1].key
    /\ \A i \in DOMAIN s : s[i].description = d
    /\ \A i \in 2 .. Len(s) :
         \/ s[i].key
         \/ s[i].sequence = s[i - 1].sequence + 1 /\ s[i].session = s[i - 1].session

\* A native recorder knows the description of source s, and the picture that waits is the
\* last of the file so far; its session is the source's while it is the last picture.
Encodes(x, s) ==
    /\ x.description = s.description
    /\ x.description = 0 => x.pending = <<>>
    /\ x.pending = <<>> => x.written = <<>>
    /\ Chained(x.written \o x.pending, x.description)
    /\ x.pending # <<>> =>
         /\ Len(x.pending) = 1
         /\ x.pending[1].sequence <= s.sequence
         /\ x.pending[1].sequence = s.sequence /\ s.begun => x.pending[1].session = s.session

\* One that no longer records holds no picture, and wrote what plays.
Writes(x, s) ==
    /\ x.state # "recording" => x.pending = <<>>
    /\ x.kind = "native" =>
         /\ x.state = "recording" => Encodes(x, s)
         /\ x.state \in {"stopping", "finalizing", "finished"} =>
              x.written # <<>> /\ Chained(x.written, x.description)

\* Whatever encodes is the recorder that the hook holds, and nothing encodes while a start
\* waits for its module.
HeldInv ==
    /\ \A r \in Recorders : rec[r].state \in Busy => hook.mounted /\ hook.recorder = r
    /\ load = "awaited" => hook.mounted /\ \A r \in Recorders : rec[r].state \notin Busy

\* The phase that the page shows is that of the recorder.
PhaseInv ==
    hook.mounted =>
      /\ hook.phase = "recording" <=> hook.recorder # 0 /\ rec[hook.recorder].state = "recording"
      /\ hook.phase = "stopping" <=>
           hook.recorder # 0 /\ rec[hook.recorder].state \in Busy \ {"recording"}
      /\ hook.starting <=> load = "awaited"
      /\ hook.phase = "starting" => hook.starting

RecordingInv ==
    /\ RecordingTypes /\ HeldInv /\ PhaseInv
    /\ \A r \in Recorders : Writes(rec[r], source)

-----------------------------------------------------------------------------
(* The numbers of recorders.                                                *)

LEMMA NoRecorderIsNone == 0 \notin Recorders /\ Recorders \subseteq Nat
BY BrowserAssumption DEF Recorders, Recording!Recorders

Below == {pair \in Nat \X Nat : pair[1] < pair[2]}

\* A set of naturals has a least element.
LEMMA LeastNatural ==
    ASSUME NEW S \in SUBSET Nat, S # {}
    PROVE  \E x \in S : \A y \in S : x <= y
<1>1. IsWellFoundedOn(Below, Nat)
    BY NatLessThanWellFounded DEF OpToRel, Below
<1>2. PICK x \in S : \A y \in S : ~(<<y, x>> \in Below)
    BY <1>1, WFMin
<1>3. \A y \in S : ~(y < x)
    BY <1>2 DEF Below
<1> QED
    BY <1>3

\* The recorder that a start takes has never been used.
LEMMA FreshIsFree ==
    ASSUME Recording!Free # {}
    PROVE  Recording!Fresh \in Recorders /\ rec[Recording!Fresh].state = "none"
<1>1. Recording!Free \in SUBSET Nat
    BY NoRecorderIsNone DEF Recording!Free, Recorders
<1>2. \E r \in Recording!Free : \A q \in Recording!Free : r <= q
    BY <1>1, LeastNatural
<1>3. Recording!Fresh \in Recording!Free
    BY <1>2 DEF Recording!Fresh
<1> QED
    BY <1>3 DEF Recording!Free, Recorders

-----------------------------------------------------------------------------
(* The pictures of a file.                                                  *)

LEMMA NothingIsChained == ASSUME NEW d PROVE Chained(<<>> \o <<>>, d)
BY DEF Chained

LEMMA PicNumbered == ASSUME NEW p \in Pic PROVE p.sequence \in Nat
<1>1. p.sequence \in 1 .. MaxSequence /\ MaxSequence \in Nat
    BY BrowserAssumption DEF Pic, Recording!Pictures
<1> QED
    BY <1>1

\* One more picture, a keyframe or the successor of the last one.
LEMMA ChainGrows ==
    ASSUME NEW s \in Seq(Pic), NEW p \in Pic, NEW d, Chained(s, d), p.description = d,
           s = <<>> => p.key,
           s # <<>> => \/ p.key
                       \/ p.sequence = s[Len(s)].sequence + 1 /\ p.session = s[Len(s)].session
    PROVE  Chained(s \o <<p>>, d)
<1> DEFINE t == s \o <<p>>
<1>1. /\ Len(s) \in Nat /\ Len(t) = Len(s) + 1 /\ DOMAIN t = 1 .. (Len(s) + 1) /\ DOMAIN s = 1 .. Len(s)
      /\ t[Len(s) + 1] = p /\ \A i \in 1 .. Len(s) : t[i] = s[i]
      /\ s = <<>> <=> Len(s) = 0
    OBVIOUS
<1> HIDE DEF t
<1>2. t # <<>> => t[1].key
  <2>1. CASE s = <<>>
      BY <1>1, <2>1
  <2>2. CASE s # <<>>
    <3>1. 1 \in 1 .. Len(s)
        BY <1>1, <2>2
    <3> QED
        BY <1>1, <2>2, <3>1 DEF Chained
  <2> QED
      BY <2>1, <2>2
<1>3. \A i \in DOMAIN t : t[i].description = d
  <2> TAKE i \in DOMAIN t
  <2>1. i = Len(s) + 1 \/ i \in 1 .. Len(s)
      BY <1>1
  <2> QED
      BY <1>1, <2>1 DEF Chained
<1>4. ASSUME NEW i \in 2 .. Len(t)
      PROVE  \/ t[i].key
             \/ t[i].sequence = t[i - 1].sequence + 1 /\ t[i].session = t[i - 1].session
  <2>1. CASE i = Len(s) + 1
    <3>1. s # <<>> /\ i - 1 = Len(s) /\ Len(s) \in 1 .. Len(s)
        BY <1>1, <1>4, <2>1
    <3> QED
        BY <1>1, <2>1, <3>1
  <2>2. CASE i # Len(s) + 1
    <3>1. i \in 2 .. Len(s) /\ i \in 1 .. Len(s) /\ i - 1 \in 1 .. Len(s)
        BY <1>1, <1>4, <2>2
    <3> QED
        BY <1>1, <3>1 DEF Chained
  <2> QED
      BY <2>1, <2>2
<1>5. Chained(t, d)
    BY <1>2, <1>3, <1>4 DEF Chained
<1> QED
    BY <1>5 DEF t

\* The source's last picture becomes the next one.
LEMMA SourceMoves ==
    ASSUME RecordingTypes, source.sequence < MaxSequence,
           NEW s, s = [source EXCEPT !.sequence = @ + 1, !.begun = TRUE]
    PROVE  /\ s \in Source /\ s.sequence = source.sequence + 1 /\ s.begun
           /\ s.session = source.session /\ s.description = source.description
           /\ s.sequence > source.sequence /\ source.sequence \in Nat
<1>1. source \in Source
    BY DEF RecordingTypes
<1> DEFINE s1 == [source EXCEPT !.sequence = @ + 1]
           s2 == [s1 EXCEPT !.begun = TRUE]
<1>2. /\ s1 \in Source /\ s1.sequence = source.sequence + 1 /\ source.sequence \in Nat
      /\ s1.session = source.session /\ s1.description = source.description
    BY <1>1, BrowserAssumption DEF Source
<1>3. s = s2
    OBVIOUS
<1> HIDE DEF s1
<1>4. /\ s2 \in Source /\ s2.sequence = s1.sequence /\ s2.begun
      /\ s2.session = s1.session /\ s2.description = s1.description
    BY <1>2 DEF Source
<1> HIDE DEF s2
<1>5. s \in Source /\ s.begun /\ s.sequence = s1.sequence /\ s.session = s1.session
      /\ s.description = s1.description
    BY <1>3, <1>4
<1> QED
    BY <1>2, <1>5

\* receive appends a picture that plays after the others, or waits for the first keyframe.
LEMMA ReceivedEncodes ==
    ASSUME RecordingTypes, NEW x \in Recorder, Encodes(x, source),
           NEW key \in BOOLEAN, source.begun \/ key, Recording!Accepted(x, key),
           source.session # 0, source.sequence < MaxSequence,
           NEW s, s = [source EXCEPT !.sequence = @ + 1, !.begun = TRUE],
           NEW y, y = Recording!Received(x, key)
    PROVE  y \in Recorder /\ y.kind = x.kind /\ y.state = x.state /\ Encodes(y, s)
<1> DEFINE p == [key |-> key, sequence |-> source.sequence + 1, session |-> source.session,
                 description |-> source.description]
           whole == x.written \o x.pending
<1>1. /\ s.sequence = source.sequence + 1 /\ s.begun /\ s.session = source.session
      /\ s.description = source.description /\ source.sequence \in Nat
    BY SourceMoves
<1>2. /\ p.key = key /\ p.sequence = source.sequence + 1
      /\ p.session = source.session /\ p.description = source.description
    OBVIOUS
<1>3. /\ x.written \in Seq(Pic) /\ x.pending \in Seq(Pic) /\ whole \in Seq(Pic)
      /\ x.description = source.description /\ Chained(whole, x.description)
      /\ x.description = 0 => x.pending = <<>>
      /\ x.pending = <<>> => x.written = <<>>
    BY DEF Recorder, Encodes
<1>4. CASE x.pending = <<>> /\ ~key
  <2>1. y = x
      BY <1>4 DEF Recording!Received
  <2> QED
      BY <1>1, <1>3, <1>4, <2>1 DEF Encodes
<1>5. CASE ~(x.pending = <<>> /\ ~key)
  <2>00. p \in Pic
    <3>1. source.description # 0
        BY <1>3, <1>5 DEF Recording!Accepted, Recording!None
    <3>2. /\ source.sequence + 1 \in 1 .. MaxSequence /\ source.session \in 1 .. MaxSession
          /\ source.description \in Descriptions
        BY <3>1, BrowserAssumption DEF RecordingTypes, Source
    <3> QED
        BY <3>2 DEF Pic, Recording!Pictures
  <2>1. y = [x EXCEPT !.written = x.written \o x.pending, !.pending = <<p>>]
      BY <1>5 DEF Recording!Received
  <2>2. /\ y \in Recorder /\ y.kind = x.kind /\ y.state = x.state /\ y.description = x.description
        /\ y.written = whole /\ y.pending = <<p>>
    <3> DEFINE x1 == [x EXCEPT !.written = whole]
               x2 == [x1 EXCEPT !.pending = <<p>>]
    <3>1. /\ x1 \in Recorder /\ x1.kind = x.kind /\ x1.state = x.state
          /\ x1.description = x.description /\ x1.written = whole
      <4> HIDE DEF whole
      <4> QED
          BY <1>3 DEF Recorder
    <3>2. y = x2
        BY <2>1
    <3>3. <<p>> \in Seq(Pic)
        BY <2>00
    <3> HIDE DEF x1, p, whole
    <3>4. /\ x2 \in Recorder /\ x2.kind = x1.kind /\ x2.state = x1.state
          /\ x2.description = x1.description /\ x2.written = x1.written /\ x2.pending = <<p>>
        BY <3>1, <3>3 DEF Recorder
    <3> QED
        BY <3>1, <3>2, <3>4
  <2> DEFINE only == <<p>>
  <2>0. y.pending = only /\ only # <<>> /\ Len(only) = 1 /\ only[1] = p
      BY <2>2
  <2>3. CASE x.pending = <<>>
    <3>1. key /\ x.description # 0 /\ whole = <<>>
        BY <1>3, <1>5, <2>3 DEF Recording!Accepted, Recording!None
    <3>2. Chained(whole \o <<p>>, x.description)
      <4> HIDE DEF whole, p
      <4> QED
          BY <1>2, <1>3, <2>00, <3>1, ChainGrows
    <3>3. Chained(whole \o only, x.description)
        BY <3>2
    <3> HIDE DEF p, whole, only
    <3>6. Chained(y.written \o y.pending, y.description)
        BY <2>2, <2>0, <3>3
    <3>7. /\ y.description = s.description /\ y.description # 0 /\ y.pending # <<>>
          /\ y.pending[1] = p /\ Len(y.pending) = 1
          /\ p.sequence <= s.sequence /\ p.session = s.session
        BY <1>1, <1>2, <1>3, <2>2, <2>0, <3>1
    <3> QED
        BY <2>2, <3>6, <3>7 DEF Encodes
  <2>4. CASE x.pending # <<>>
    <3> DEFINE last == x.pending[1]
    <3>1. /\ Len(x.pending) = 1 /\ x.pending = <<last>> /\ last \in Pic
          /\ last.sequence <= source.sequence
          /\ last.sequence = source.sequence /\ source.begun => last.session = source.session
          /\ x.description # 0
        BY <1>3, <2>4 DEF Encodes
    <3>2. whole # <<>> /\ whole[Len(whole)] = last
      <4>1. whole = x.written \o <<last>>
          BY <3>1
      <4> HIDE DEF whole, last
      <4> QED
          BY <1>3, <3>1, <4>1
    <3>3. key \/ (p.sequence = last.sequence + 1 /\ p.session = last.session)
      <4>1. CASE key
          BY <4>1
      <4>2. CASE ~key
        <5>1. source.sequence + 1 = last.sequence + 1 /\ source.begun
            BY <2>4, <4>2 DEF Recording!Accepted
        <5>2. last.sequence \in Nat
            BY <3>1, PicNumbered
        <5> QED
            BY <1>1, <1>2, <3>1, <5>1, <5>2
      <4> QED
          BY <4>1, <4>2
    <3>4. Chained(whole \o <<p>>, x.description)
      <4> HIDE DEF whole, p, last
      <4> QED
          BY <1>2, <1>3, <2>00, <3>2, <3>3, ChainGrows
    <3>5. Chained(whole \o only, x.description)
        BY <3>4
    <3> HIDE DEF p, whole, only
    <3>6. Chained(y.written \o y.pending, y.description)
        BY <2>2, <2>0, <3>5
    <3>7. /\ y.description = s.description /\ y.description # 0 /\ y.pending # <<>>
          /\ y.pending[1] = p /\ Len(y.pending) = 1
          /\ p.sequence <= s.sequence /\ p.session = s.session
        BY <1>1, <1>2, <1>3, <2>2, <2>0, <3>1
    <3> QED
        BY <2>2, <3>6, <3>7 DEF Encodes
  <2> QED
      BY <2>3, <2>4
<1> QED
    BY <1>4, <1>5

-----------------------------------------------------------------------------
(* Recorders that encode nothing.                                           *)

\* What a recorder that is not recording writes does not depend on the source.
LEMMA SettledWrites ==
    ASSUME NEW x, NEW s, NEW t, Writes(x, s), x.state # "recording"
    PROVE  Writes(x, t)
BY DEF Writes

LEMMA ReleasedFacts ==
    ASSUME NEW kind \in {"native", "canvas"}, NEW state \in {"error", "cancelled"},
           NEW y, y = [Recording!Unused EXCEPT !.kind = kind, !.state = state], NEW s
    PROVE  y \in Recorder /\ y.state = state /\ state \notin Busy /\ Writes(y, s)
<1>1. Recording!Unused \in Recorder /\ Recording!Unused.pending = <<>>
    BY DEF Recording!Unused, Recording!None, Recorder
<1>2. y \in Recorder /\ y.state = state /\ y.pending = <<>>
    BY <1>1 DEF Recorder
<1>3. state \notin Busy
    BY DEF Busy
<1> QED
    BY <1>2, <1>3 DEF Writes

\* At most the recorder of the hook encodes, so nothing does once it is cancelled.
LEMMA CancelledFacts ==
    ASSUME RecordingInv, NEW f, f = Recording!Cancelled(hook.recorder), NEW s
    PROVE  /\ f \in [Recorders -> Recorder]
           /\ \A r \in Recorders : f[r].state \notin Busy /\ Writes(f[r], s)
<1>1. /\ rec \in [Recorders -> Recorder] /\ hook.recorder \in {0} \cup Recorders /\ 0 \notin Recorders
      /\ \A r \in Recorders : Writes(rec[r], source)
      /\ \A r \in Recorders : r # hook.recorder => rec[r].state \notin Busy
    BY NoRecorderIsNone DEF RecordingInv, RecordingTypes, HeldInv, Hook
<1>2. \A r \in Recorders : r # hook.recorder => Writes(rec[r], s)
    BY <1>1, SettledWrites DEF Busy
<1>3. CASE hook.recorder = 0
    BY <1>1, <1>2, <1>3 DEF Recording!Cancelled, Recording!None
<1>4. CASE hook.recorder # 0
  <2> DEFINE r == hook.recorder
             y == [Recording!Unused EXCEPT !.kind = rec[r].kind, !.state = "cancelled"]
  <2>1. r \in Recorders /\ f = [rec EXCEPT ![r] = y]
      BY <1>1, <1>4 DEF Recording!Cancelled, Recording!None, Recording!Released
  <2>2. rec[r].kind \in {"native", "canvas"}
      BY <1>1, <2>1 DEF Recorder
  <2>3. y \in Recorder /\ y.state \notin Busy /\ Writes(y, s)
      BY <2>2, ReleasedFacts
  <2> HIDE DEF y
  <2> QED
      BY <1>1, <1>2, <2>1, <2>3
<1> QED
    BY <1>3, <1>4

\* A step after which nothing encodes and the page shows it.
LEMMA QuietKeeps ==
    ASSUME rec' \in [Recorders -> Recorder],
           \A r \in Recorders : rec'[r].state \notin Busy /\ Writes(rec'[r], source'),
           source' \in Source, hook' \in Hook, load' \in {"none", "awaited", "abandoned"},
           load' = "awaited" => hook'.mounted,
           hook'.mounted => /\ hook'.phase \in {"idle", "starting"}
                            /\ hook'.starting <=> load' = "awaited"
                            /\ hook'.phase = "starting" => hook'.starting
    PROVE  RecordingInv'
<1>1. RecordingTypes' /\ HeldInv'
    BY DEF RecordingTypes, HeldInv
<1>2. PhaseInv'
  <2>1. hook'.recorder \in {0} \cup Recorders
      BY DEF Hook
  <2> QED
      BY <2>1 DEF PhaseInv, Busy
<1> QED
    BY <1>1, <1>2 DEF RecordingInv

\* hook, brought back to idle.
LEMMA HookIdled ==
    ASSUME NEW h \in Hook
    PROVE  /\ [h EXCEPT !.starting = FALSE, !.recorder = 0, !.phase = "idle"] \in Hook
           /\ [h EXCEPT !.starting = FALSE, !.recorder = 0, !.phase = "idle"].phase = "idle"
           /\ ~[h EXCEPT !.starting = FALSE, !.recorder = 0, !.phase = "idle"].starting
           /\ [h EXCEPT !.starting = FALSE, !.recorder = 0, !.phase = "idle"].mounted = h.mounted
BY DEF Hook

\* The recorder that encodes fails: the hook held it, and is idle.
LEMMA FailKeeps ==
    ASSUME RecordingInv, NEW r \in Recorders, rec[r].state \in Busy, Recording!Fail(r),
           source' \in Source, load' = load
    PROVE  RecordingInv'
<1> DEFINE y == [Recording!Unused EXCEPT !.kind = rec[r].kind, !.state = "error"]
<1>1. /\ rec \in [Recorders -> Recorder] /\ r # 0 /\ hook \in Hook
      /\ hook.mounted /\ hook.recorder = r /\ load # "awaited" /\ ~hook.starting
      /\ load \in {"none", "awaited", "abandoned"}
      /\ \A q \in Recorders : q # r => rec[q].state \notin Busy /\ Writes(rec[q], source)
    BY NoRecorderIsNone DEF RecordingInv, RecordingTypes, HeldInv, PhaseInv
<1>2. rec' = [rec EXCEPT ![r] = y] /\ hook' = [hook EXCEPT !.recorder = 0, !.phase = "idle"]
    BY <1>1 DEF Recording!Fail, Recording!HookAfterError, Recording!Released, Recording!None
<1>3. rec[r].kind \in {"native", "canvas"}
    BY <1>1 DEF Recorder
<1>4. y \in Recorder /\ y.state \notin Busy /\ Writes(y, source')
    BY <1>3, ReleasedFacts
<1>5. \A q \in Recorders : q # r => Writes(rec[q], source')
    BY <1>1, SettledWrites DEF Busy
<1> HIDE DEF y
<1>6. /\ rec' \in [Recorders -> Recorder]
      /\ \A q \in Recorders : rec'[q].state \notin Busy /\ Writes(rec'[q], source')
    BY <1>1, <1>2, <1>4, <1>5
<1>7. hook' \in Hook /\ hook'.phase = "idle" /\ hook'.mounted /\ ~hook'.starting
    BY <1>1, <1>2 DEF Hook
<1> QED
    BY <1>1, <1>6, <1>7, QuietKeeps

-----------------------------------------------------------------------------
(* The steps.                                                               *)

LEMMA RecordingFacts ==
    ASSUME RecordingInv
    PROVE  /\ source \in Source /\ hook \in Hook /\ load \in {"none", "awaited", "abandoned"}
           /\ rec \in [Recorders -> Recorder] /\ 0 \notin Recorders
           /\ \A r \in Recorders : rec[r] \in Recorder /\ Writes(rec[r], source)
           /\ hook.recorder \in {0} \cup Recorders
           /\ HeldInv /\ PhaseInv
BY NoRecorderIsNone DEF RecordingInv, RecordingTypes, Hook

\* A native recorder that records is the only recorder that encodes.
LEMMA NativeFacts ==
    ASSUME RecordingInv, NEW r \in Recording!Natives
    PROVE  /\ r \in Recorders /\ rec[r].state \in Busy /\ rec[r].state = "recording"
           /\ Encodes(rec[r], source) /\ rec[r] \in Recorder
BY RecordingFacts DEF Recording!Natives, Recorders, Busy, Writes

\* The recorders other than the native one are where they were; the hook did not move.
LEMMA NativesMove ==
    ASSUME RecordingInv, source' \in Source, UNCHANGED <<hook, load>>,
           rec' \in [Recorders -> Recorder],
           \A r \in Recorders : r \notin Recording!Natives => rec'[r] = rec[r],
           \A r \in Recording!Natives :
              rec'[r].state = "recording" /\ rec'[r].kind = "native" /\ Encodes(rec'[r], source')
    PROVE  RecordingInv'
<1>1. ASSUME NEW r \in Recorders
      PROVE  rec'[r].state = rec[r].state /\ Writes(rec'[r], source')
  <2>1. CASE r \in Recording!Natives
      BY <2>1, NativeFacts DEF Writes
  <2>2. CASE r \notin Recording!Natives
    <3>1. rec'[r] = rec[r] /\ (rec[r].kind # "native" \/ rec[r].state # "recording")
        BY <2>2 DEF Recording!Natives, Recorders
    <3> QED
        BY <3>1, RecordingFacts DEF Writes
  <2> QED
      BY <2>1, <2>2
<1>2. RecordingTypes' /\ HeldInv'
    BY <1>1, RecordingFacts DEF RecordingTypes, HeldInv
<1>3. PhaseInv'
    BY <1>1, RecordingFacts DEF PhaseInv, Hook
<1> QED
    BY <1>1, <1>2, <1>3 DEF RecordingInv

LEMMA PictureLostKeeps ==
    ASSUME RecordingInv, Recording!PictureLost
    PROVE  RecordingInv'
<1>1. /\ UNCHANGED <<hook, load, rec>> /\ source.sequence < MaxSequence
      /\ source' = [source EXCEPT !.sequence = @ + 1, !.begun = TRUE]
    BY DEF Recording!PictureLost
<1>2. /\ source' \in Source /\ source.sequence \in Nat /\ source'.sequence = source.sequence + 1
      /\ source'.description = source.description
    BY <1>1, SourceMoves DEF RecordingInv
<1>3. ASSUME NEW r \in Recording!Natives
      PROVE  Encodes(rec[r], source') /\ rec[r].state = "recording" /\ rec[r].kind = "native"
  <2>1. rec[r] \in Recorder /\ Encodes(rec[r], source) /\ rec[r].state = "recording"
      BY NativeFacts
  <2>2. rec[r].pending # <<>> => rec[r].pending[1].sequence \in Nat
    <3>1. rec[r].pending \in Seq(Pic)
        BY <2>1 DEF Recorder
    <3>2. rec[r].pending # <<>> => rec[r].pending[1] \in Pic
        BY <3>1
    <3> QED
        BY <3>2, PicNumbered
  <2> QED
      BY <1>2, <2>1, <2>2 DEF Encodes, Recording!Natives
<1> QED
    BY <1>1, <1>2, <1>3, NativesMove, RecordingFacts

\* source as the encoder describes a new session.
LEMMA SourceDescribed ==
    ASSUME NEW s \in Source, s.session < MaxSession, NEW bytes \in Descriptions
    PROVE  LET t == [s EXCEPT !.session = @ + 1, !.begun = FALSE, !.description = bytes]
           IN  t \in Source /\ ~t.begun /\ t.description = bytes /\ t.sequence = s.sequence
<1> DEFINE s1 == [s EXCEPT !.session = @ + 1]
           s2 == [s1 EXCEPT !.begun = FALSE]
           s3 == [s2 EXCEPT !.description = bytes]
<1>1. [s EXCEPT !.session = @ + 1, !.begun = FALSE, !.description = bytes] = s3
    OBVIOUS
<1>2. s1 \in Source /\ s1.sequence = s.sequence
    BY BrowserAssumption DEF Source
<1> HIDE DEF s1
<1>3. s2 \in Source /\ s2.sequence = s1.sequence /\ ~s2.begun
    BY <1>2 DEF Source
<1> HIDE DEF s2
<1>4. s3 \in Source /\ s3.sequence = s2.sequence /\ s3.begun = s2.begun /\ s3.description = bytes
    BY <1>3 DEF Source
<1> QED
    BY <1>1, <1>2, <1>3, <1>4

LEMMA DescriptionKeeps ==
    ASSUME RecordingInv, NEW bytes \in Descriptions, Recording!Description(bytes)
    PROVE  RecordingInv'
<1>1. /\ source' \in Source /\ ~source'.begun /\ source'.description = bytes
      /\ source'.sequence = source.sequence /\ load' = load /\ bytes # 0
    BY SourceDescribed, RecordingFacts, BrowserAssumption DEF Recording!Description
<1>2. CASE \E r \in Recording!Natives : rec[r].description \notin {0, bytes}
  <2>1. PICK r \in Recording!Natives : Recording!Fail(r)
      BY <1>2 DEF Recording!Description, Recording!None
  <2> QED
      BY <1>1, <2>1, NativeFacts, FailKeeps
<1>3. CASE ~\E r \in Recording!Natives : rec[r].description \notin {0, bytes}
  <2>1. /\ hook' = hook
        /\ rec' = [r \in Recorders |->
                     IF r \in Recording!Natives THEN [rec[r] EXCEPT !.description = bytes] ELSE rec[r]]
      BY <1>3 DEF Recording!Description, Recording!None, Recorders
  <2>2. ASSUME NEW r \in Recording!Natives, NEW y, y = [rec[r] EXCEPT !.description = bytes]
        PROVE  y \in Recorder /\ y.state = "recording" /\ y.kind = "native" /\ Encodes(y, source')
    <3>1. /\ rec[r] \in Recorder /\ Encodes(rec[r], source)
          /\ rec[r].state = "recording" /\ rec[r].kind = "native"
        BY NativeFacts DEF Recording!Natives
    <3>2. /\ y \in Recorder /\ y.state = "recording" /\ y.kind = "native" /\ y.description = bytes
          /\ y.pending = rec[r].pending /\ y.written = rec[r].written
        BY <2>2, <3>1 DEF Recorder
    <3>3. CASE rec[r].description = bytes
        BY <1>1, <3>1, <3>2, <3>3 DEF Encodes
    <3>4. CASE rec[r].description = 0
      <4>1. y.pending = <<>> /\ y.written = <<>>
          BY <3>1, <3>2, <3>4 DEF Encodes
      <4>2. Chained(y.written \o y.pending, y.description)
          BY <4>1, NothingIsChained
      <4> QED
          BY <1>1, <3>2, <4>1, <4>2 DEF Encodes
    <3> QED
        BY <1>3, <3>2, <3>3, <3>4
  <2>3. rec' \in [Recorders -> Recorder]
      BY <2>1, <2>2, RecordingFacts
  <2>4. /\ \A r \in Recorders : r \notin Recording!Natives => rec'[r] = rec[r]
        /\ \A r \in Recording!Natives :
              rec'[r].state = "recording" /\ rec'[r].kind = "native" /\ Encodes(rec'[r], source')
      BY <2>1, <2>2, NativeFacts
  <2> QED
      BY <1>1, <2>1, <2>3, <2>4, NativesMove
<1> QED
    BY <1>2, <1>3

LEMMA PictureKeeps ==
    ASSUME RecordingInv, NEW key \in BOOLEAN, NEW inTime \in BOOLEAN, Recording!Picture(key, inTime)
    PROVE  RecordingInv'
<1>1. /\ load' = load /\ (source.begun \/ key)
      /\ source.session # 0 /\ source.sequence < MaxSequence
      /\ source' = [source EXCEPT !.sequence = @ + 1, !.begun = TRUE]
    BY DEF Recording!Picture, Recording!None
<1>2. source' \in Source
    BY <1>1, SourceMoves DEF RecordingInv
<1>3. CASE \E r \in Recording!Natives : ~inTime \/ ~Recording!Accepted(rec[r], key)
  <2>1. PICK r \in Recording!Natives : Recording!Fail(r)
      BY <1>3 DEF Recording!Picture
  <2> QED
      BY <1>1, <1>2, <2>1, NativeFacts, FailKeeps
<1>4. CASE ~\E r \in Recording!Natives : ~inTime \/ ~Recording!Accepted(rec[r], key)
  <2>1. /\ hook' = hook
        /\ rec' = [r \in Recorders |->
                     IF r \in Recording!Natives THEN Recording!Received(rec[r], key) ELSE rec[r]]
      BY <1>4 DEF Recording!Picture, Recorders
  <2>2. ASSUME NEW r \in Recording!Natives, NEW y, y = Recording!Received(rec[r], key)
        PROVE  y \in Recorder /\ y.state = "recording" /\ y.kind = "native" /\ Encodes(y, source')
    <3>1. /\ rec[r] \in Recorder /\ Encodes(rec[r], source) /\ Recording!Accepted(rec[r], key)
          /\ rec[r].state = "recording" /\ rec[r].kind = "native" /\ RecordingTypes
        BY <1>4, NativeFacts DEF Recording!Natives, RecordingInv
    <3> QED
        BY <1>1, <2>2, <3>1, ReceivedEncodes
  <2>3. rec' \in [Recorders -> Recorder]
      BY <2>1, <2>2, RecordingFacts
  <2>4. /\ \A r \in Recorders : r \notin Recording!Natives => rec'[r] = rec[r]
        /\ \A r \in Recording!Natives :
              rec'[r].state = "recording" /\ rec'[r].kind = "native" /\ Encodes(rec'[r], source')
      BY <2>1, <2>2, NativeFacts
  <2> QED
      BY <1>1, <1>2, <2>1, <2>3, <2>4, NativesMove
<1> QED
    BY <1>3, <1>4

\* CancelCurrent, wherever a start that waited for its module is given up.
LEMMA CancelCurrentKeeps ==
    ASSUME RecordingInv, Recording!CancelCurrent, source' \in Source, load' \in {"none", "abandoned"}
    PROVE  RecordingInv'
<1>1. hook' = [hook EXCEPT !.starting = FALSE, !.recorder = 0, !.phase = "idle"]
    BY DEF Recording!CancelCurrent, Recording!None
<1>2. hook' \in Hook /\ hook'.phase = "idle" /\ ~hook'.starting
    BY <1>1, HookIdled, RecordingFacts
<1>3. /\ rec' \in [Recorders -> Recorder]
      /\ \A r \in Recorders : rec'[r].state \notin Busy /\ Writes(rec'[r], source')
    BY CancelledFacts DEF Recording!CancelCurrent
<1> QED
    BY <1>2, <1>3, QuietKeeps

LEMMA OutdatedIsNotAwaited ==
    ASSUME RecordingInv PROVE Recording!Outdated \in {"none", "abandoned"}
BY RecordingFacts DEF Recording!Outdated

\* A recorder that has just been made.
LEMMA MadeFacts ==
    ASSUME RecordingInv, NEW kind \in {"native", "canvas"}, NEW y,
           y = [Recording!Unused EXCEPT !.kind = kind, !.state = "recording",
                   !.description = IF kind = "native" THEN source.description ELSE 0]
    PROVE  y \in Recorder /\ y.state = "recording" /\ Writes(y, source)
<1> DEFINE d == IF kind = "native" THEN source.description ELSE 0
           y1 == [Recording!Unused EXCEPT !.kind = kind]
           y2 == [y1 EXCEPT !.state = "recording"]
           y3 == [y2 EXCEPT !.description = d]
<1>1. d \in Descriptions \cup {0} /\ (kind = "native" => d = source.description)
    BY RecordingFacts DEF Source
<1>2. y = y3
    OBVIOUS
<1> HIDE DEF d
<1>3. y1 \in Recorder /\ y1.kind = kind /\ y1.pending = <<>> /\ y1.written = <<>>
  <2>1. Recording!Unused \in Recorder /\ Recording!Unused.pending = <<>> /\ Recording!Unused.written = <<>>
      BY DEF Recording!Unused, Recording!None, Recorder
  <2> QED
      BY <2>1 DEF Recorder
<1> HIDE DEF y1
<1>4. /\ y2 \in Recorder /\ y2.kind = kind /\ y2.pending = <<>> /\ y2.written = <<>>
      /\ y2.state = "recording"
    BY <1>3 DEF Recorder, Busy
<1> HIDE DEF y2
<1>5. /\ y3 \in Recorder /\ y3.kind = kind /\ y3.pending = <<>> /\ y3.written = <<>>
      /\ y3.state = "recording" /\ y3.description = d
    BY <1>1, <1>4 DEF Recorder
<1> HIDE DEF y3
<1>6. Chained(y3.written \o y3.pending, y3.description)
    BY <1>5, NothingIsChained
<1> QED
    BY <1>1, <1>2, <1>5, <1>6 DEF Writes, Encodes

LEMMA StartedKeeps ==
    ASSUME RecordingInv, NEW kind \in {"native", "canvas"}, Recording!Started(kind),
           Recording!Free # {}, hook.mounted, source' = source, load' \in {"none", "abandoned"}
    PROVE  RecordingInv'
<1> DEFINE f == Recording!Cancelled(hook.recorder)
           fresh == Recording!Fresh
<1>1. fresh \in Recorders /\ fresh # 0
    BY FreshIsFree, NoRecorderIsNone
<1>2. /\ f \in [Recorders -> Recorder]
      /\ \A r \in Recorders : f[r].state \notin Busy /\ Writes(f[r], source)
    BY CancelledFacts
<1>3. CASE /\ rec' = [f EXCEPT ![fresh] =
                        [Recording!Unused EXCEPT !.kind = kind, !.state = "recording",
                            !.description = IF kind = "native" THEN source.description ELSE 0]]
           /\ hook' = [hook EXCEPT !.starting = FALSE, !.recorder = fresh, !.phase = "recording"]
  <2> DEFINE y == [Recording!Unused EXCEPT !.kind = kind, !.state = "recording",
                      !.description = IF kind = "native" THEN source.description ELSE 0]
  <2>1. y \in Recorder /\ y.state = "recording" /\ Writes(y, source)
      BY MadeFacts
  <2> HIDE DEF y, f, fresh
  <2>2. rec' = [f EXCEPT ![fresh] = y]
      BY <1>3 DEF y
  <2>3. /\ rec' \in [Recorders -> Recorder] /\ rec'[fresh].state = "recording"
        /\ \A r \in Recorders : r # fresh => rec'[r].state \notin Busy
        /\ \A r \in Recorders : Writes(rec'[r], source')
      BY <1>1, <1>2, <2>1, <2>2
  <2>4. /\ hook' \in Hook /\ hook'.phase = "recording" /\ ~hook'.starting /\ hook'.mounted
        /\ hook'.recorder = fresh
    <3> DEFINE h1 == [hook EXCEPT !.starting = FALSE]
               h2 == [h1 EXCEPT !.recorder = fresh]
               h3 == [h2 EXCEPT !.phase = "recording"]
    <3>1. hook' = h3
        BY <1>3
    <3>2. h1 \in Hook /\ ~h1.starting /\ h1.mounted = hook.mounted
        BY RecordingFacts DEF Hook
    <3> HIDE DEF h1
    <3>3. h2 \in Hook /\ h2.starting = h1.starting /\ h2.mounted = h1.mounted /\ h2.recorder = fresh
        BY <1>1, <3>2 DEF Hook
    <3> HIDE DEF h2
    <3>4. /\ h3 \in Hook /\ h3.starting = h2.starting /\ h3.mounted = h2.mounted
          /\ h3.recorder = h2.recorder /\ h3.phase = "recording"
        BY <3>3 DEF Hook
    <3> HIDE DEF h3
    <3> QED
        BY <3>1, <3>2, <3>3, <3>4
  <2>5. RecordingTypes' /\ HeldInv'
      BY <2>3, <2>4, RecordingFacts DEF RecordingTypes, HeldInv
  <2>6. PhaseInv'
      BY <1>1, <2>3, <2>4 DEF PhaseInv, Busy
  <2> QED
      BY <2>3, <2>5, <2>6 DEF RecordingInv
<1>4. CASE /\ rec' = [f EXCEPT ![fresh] = Recording!Released(fresh, "cancelled")]
           /\ hook' = [hook EXCEPT !.starting = FALSE, !.recorder = 0, !.phase = "idle"]
  <2> DEFINE y == Recording!Released(fresh, "cancelled")
  <2>1. y \in Recorder /\ y.state \notin Busy /\ Writes(y, source)
    <3>1. y = [Recording!Unused EXCEPT !.kind = rec[fresh].kind, !.state = "cancelled"]
        BY DEF Recording!Released
    <3>2. rec[fresh].kind \in {"native", "canvas"}
        BY <1>1, RecordingFacts DEF Recorder
    <3> QED
        BY <3>1, <3>2, ReleasedFacts
  <2> HIDE DEF y, f, fresh
  <2>2. rec' = [f EXCEPT ![fresh] = y]
      BY <1>4 DEF y
  <2>3. /\ rec' \in [Recorders -> Recorder]
        /\ \A r \in Recorders : rec'[r].state \notin Busy /\ Writes(rec'[r], source')
      BY <1>1, <1>2, <2>1, <2>2
  <2>4. hook' \in Hook /\ hook'.phase = "idle" /\ ~hook'.starting
      BY <1>4, HookIdled, RecordingFacts
  <2> QED
      BY <2>3, <2>4, QuietKeeps, RecordingFacts
<1> QED
    BY <1>3, <1>4 DEF Recording!Started, Recording!None

LEMMA StartKeeps ==
    ASSUME RecordingInv, NEW kind \in {"native", "canvas"}, Recording!Start(kind)
    PROVE  RecordingInv'
<1>1. /\ hook.mounted /\ ~hook.starting /\ Recording!Free # {} /\ source' = source
      /\ load # "awaited" /\ load \in {"none", "abandoned"} /\ source \in Source /\ hook \in Hook
    BY RecordingFacts DEF Recording!Start, PhaseInv
<1>2. CASE Recording!Started(kind) /\ load' = load
    BY <1>1, <1>2, StartedKeeps
<1>3. CASE /\ rec' = Recording!Cancelled(hook.recorder) /\ load' = "awaited"
           /\ hook' = [hook EXCEPT !.starting = TRUE, !.phase = "starting"]
  <2>1. /\ rec' \in [Recorders -> Recorder]
        /\ \A r \in Recorders : rec'[r].state \notin Busy /\ Writes(rec'[r], source')
      BY <1>3, CancelledFacts
  <2>2. hook' \in Hook /\ hook'.starting /\ hook'.mounted = hook.mounted /\ hook'.phase = "starting"
    <3> DEFINE h1 == [hook EXCEPT !.starting = TRUE]
               h2 == [h1 EXCEPT !.phase = "starting"]
    <3>1. hook' = h2
        BY <1>3
    <3>2. h1 \in Hook /\ h1.starting /\ h1.mounted = hook.mounted
        BY <1>1 DEF Hook
    <3> HIDE DEF h1
    <3>3. h2 \in Hook /\ h2.starting = h1.starting /\ h2.mounted = h1.mounted /\ h2.phase = "starting"
        BY <3>2 DEF Hook
    <3> HIDE DEF h2
    <3> QED
        BY <3>1, <3>2, <3>3
  <2> QED
      BY <1>1, <1>3, <2>1, <2>2, QuietKeeps
<1> QED
    BY <1>2, <1>3 DEF Recording!Start

LEMMA LoadReturnsKeeps ==
    ASSUME RecordingInv, Recording!LoadReturns
    PROVE  RecordingInv'
<1>1. load' = "none" /\ source' = source /\ source \in Source
    BY RecordingFacts DEF Recording!LoadReturns
<1>2. CASE load = "awaited" /\ Recording!Free # {} /\ Recording!Started("native")
  <2>1. hook.mounted
      BY <1>2, RecordingFacts DEF HeldInv
  <2> QED
      BY <1>1, <1>2, <2>1, StartedKeeps
<1>3. CASE load = "awaited" /\ Recording!CancelCurrent
    BY <1>1, <1>3, CancelCurrentKeeps
<1>4. CASE load = "abandoned" /\ UNCHANGED <<hook, rec>>
  <2>1. RecordingTypes' /\ HeldInv' /\ PhaseInv'
      BY <1>1, <1>4, RecordingFacts DEF RecordingTypes, HeldInv, PhaseInv
  <2> QED
      BY <1>1, <1>4, <2>1, RecordingFacts DEF RecordingInv
<1> QED
    BY <1>2, <1>3, <1>4 DEF Recording!LoadReturns

LEMMA LoadFailsKeeps ==
    ASSUME RecordingInv, Recording!LoadFails
    PROVE  RecordingInv'
<1>1. load' = "none" /\ UNCHANGED <<source, rec>>
    BY DEF Recording!LoadFails
<1>2. CASE load = "awaited"
  <2>1. hook' = [hook EXCEPT !.recorder = 0, !.phase = "idle", !.starting = FALSE]
      BY <1>2 DEF Recording!LoadFails, Recording!None
  <2>2. hook' \in Hook /\ hook'.phase = "idle" /\ ~hook'.starting
      BY <2>1, RecordingFacts DEF Hook
  <2> QED
      BY <1>1, <1>2, <2>2, QuietKeeps, RecordingFacts DEF HeldInv
<1>3. CASE load # "awaited"
  <2>1. hook' = hook
      BY <1>3 DEF Recording!LoadFails
  <2>2. RecordingTypes' /\ HeldInv' /\ PhaseInv'
      BY <1>1, <1>3, <2>1, RecordingFacts DEF RecordingTypes, HeldInv, PhaseInv
  <2> QED
      BY <1>1, <2>2, RecordingFacts DEF RecordingInv
<1> QED
    BY <1>2, <1>3

\* stop writes the picture that waits, and no more come.
LEMMA StopsRecorder ==
    ASSUME RecordingInv, NEW r \in Recorders, rec[r].state = "recording",
           rec[r].kind = "native" => rec[r].pending # <<>>,
           rec' = [rec EXCEPT ![r].state = "stopping", ![r].written = @ \o rec[r].pending,
                              ![r].pending = <<>>],
           hook' = [hook EXCEPT !.phase = "stopping"], UNCHANGED <<source, load>>
    PROVE  RecordingInv'
<1> DEFINE x == rec[r]
           whole == x.written \o x.pending
           y1 == [x EXCEPT !.state = "stopping"]
           y2 == [y1 EXCEPT !.written = whole]
           y3 == [y2 EXCEPT !.pending = <<>>]
<1>1. /\ hook.mounted /\ hook.recorder = r /\ r # 0 /\ load # "awaited" /\ ~hook.starting
      /\ \A q \in Recorders : q # r => rec[q].state \notin Busy
      /\ x \in Recorder
    BY RecordingFacts DEF HeldInv, PhaseInv, Busy
<1>2. rec' = [rec EXCEPT ![r] = y3]
    BY <1>1, RecordingFacts DEF Recorder
<1>3. x.written \in Seq(Pic) /\ x.pending \in Seq(Pic) /\ whole \in Seq(Pic)
    BY <1>1 DEF Recorder
<1>4. x.kind = "native" => whole # <<>> /\ Chained(whole, x.description)
  <2>1. x.kind = "native" => x.pending # <<>> /\ Chained(whole, x.description)
      BY RecordingFacts DEF Writes, Encodes
  <2> QED
      BY <1>3, <2>1
<1> HIDE DEF whole
<1>5. /\ y1 \in Recorder /\ y1.kind = x.kind /\ y1.description = x.description
      /\ y1.state = "stopping"
    BY <1>1 DEF Recorder, Busy
<1> HIDE DEF y1
<1>6. /\ y2 \in Recorder /\ y2.kind = x.kind /\ y2.description = x.description
      /\ y2.state = "stopping" /\ y2.written = whole
    BY <1>3, <1>5 DEF Recorder
<1> HIDE DEF y2
<1>7. /\ y3 \in Recorder /\ y3.kind = x.kind /\ y3.description = x.description
      /\ y3.state = "stopping" /\ y3.written = whole /\ y3.pending = <<>>
  <2>1. <<>> \in Seq(Pic)
      OBVIOUS
  <2> QED
      BY <1>6, <2>1 DEF Recorder
<1> HIDE DEF y3
<1>8. Writes(y3, source)
    BY <1>4, <1>7 DEF Writes
<1>9. /\ rec' \in [Recorders -> Recorder] /\ rec'[r].state = "stopping"
      /\ \A q \in Recorders : q # r => rec'[q].state \notin Busy
      /\ \A q \in Recorders : Writes(rec'[q], source')
  <2>1. /\ rec \in [Recorders -> Recorder] /\ source' = source
        /\ \A q \in Recorders : Writes(rec[q], source)
      BY RecordingFacts
  <2> QED
      BY ONLY <1>1, <1>2, <1>7, <1>8, <2>1, r \in Recorders
<1>10. /\ hook' \in Hook /\ hook'.phase = "stopping" /\ hook'.recorder = r
       /\ hook'.mounted /\ ~hook'.starting
    BY <1>1, RecordingFacts DEF Hook
<1>11. RecordingTypes' /\ HeldInv'
    BY <1>1, <1>9, <1>10, RecordingFacts DEF RecordingTypes, HeldInv
<1>12. PhaseInv'
    BY <1>1, <1>9, <1>10 DEF PhaseInv, Busy
<1> QED
    BY <1>9, <1>11, <1>12 DEF RecordingInv

LEMMA StopKeeps ==
    ASSUME RecordingInv, Recording!Stop
    PROVE  RecordingInv'
<1> DEFINE r == hook.recorder
<1>1. /\ hook.mounted /\ source' = source
      /\ r # 0 => r \in Recorders
    BY RecordingFacts DEF Recording!Stop
<1>2. CASE Recording!CancelCurrent /\ load' = Recording!Outdated
    BY <1>1, <1>2, CancelCurrentKeeps, OutdatedIsNotAwaited, RecordingFacts
<1>3. CASE r # 0 /\ rec[r].state = "recording" /\ Recording!Fail(r) /\ UNCHANGED load
    BY <1>1, <1>3, FailKeeps, RecordingFacts DEF Busy
<1>4. CASE /\ r # 0 /\ rec[r].state = "recording" /\ (rec[r].kind = "native" => rec[r].pending # <<>>)
           /\ rec' = [rec EXCEPT ![r].state = "stopping", ![r].written = @ \o rec[r].pending,
                                 ![r].pending = <<>>]
           /\ hook' = [hook EXCEPT !.phase = "stopping"]
           /\ UNCHANGED load
    BY <1>1, <1>4, StopsRecorder
<1>5. CASE /\ r # 0 /\ rec[r].state = "cancelled"
           /\ \E kept \in {0, r} : hook' = [hook EXCEPT !.recorder = kept, !.phase = "idle"]
           /\ UNCHANGED <<load, rec>>
  <2>1. \A q \in Recorders : rec[q].state \notin Busy
      BY <1>5, RecordingFacts DEF HeldInv, Busy
  <2>2. PICK kept \in {0, r} : hook' = [hook EXCEPT !.recorder = kept, !.phase = "idle"]
      BY <1>5
  <2>3. /\ hook' \in Hook /\ hook'.phase = "idle" /\ hook'.starting = hook.starting
        /\ hook'.mounted = hook.mounted
    <3>1. kept \in {0} \cup Recorders
        BY <1>1
    <3> HIDE DEF r
    <3> QED
        BY <2>2, <3>1, RecordingFacts DEF Hook
  <2>4. hook.starting <=> load = "awaited"
      BY <1>1, RecordingFacts DEF PhaseInv
  <2> QED
      BY <1>1, <1>5, <2>1, <2>3, <2>4, QuietKeeps, RecordingFacts
<1> QED
    BY <1>2, <1>3, <1>4, <1>5 DEF Recording!Stop, Recording!None

LEMMA FinalizeKeeps ==
    ASSUME RecordingInv, NEW r \in Recorders, Recording!Finalize(r)
    PROVE  RecordingInv'
<1>1. /\ rec[r].state = "stopping" /\ rec[r].kind = "native"
      /\ rec' = [rec EXCEPT ![r].state = "finalizing"]
      /\ UNCHANGED <<source, hook, load>>
    BY DEF Recording!Finalize
<1> DEFINE y == [rec[r] EXCEPT !.state = "finalizing"]
<1>2. /\ y \in Recorder /\ y.state = "finalizing" /\ y.kind = "native"
      /\ y.written = rec[r].written /\ y.description = rec[r].description
      /\ y.pending = rec[r].pending
    BY <1>1, RecordingFacts DEF Recorder, Busy
<1>3. Writes(y, source)
    BY <1>1, <1>2, RecordingFacts DEF Writes
<1>4. rec' = [rec EXCEPT ![r] = y]
    BY <1>1
<1> HIDE DEF y
<1>5. /\ rec' \in [Recorders -> Recorder] /\ rec'[r].state = "finalizing"
      /\ \A q \in Recorders : q # r => rec'[q].state = rec[q].state
      /\ \A q \in Recorders : Writes(rec'[q], source')
    BY <1>1, <1>2, <1>3, <1>4, RecordingFacts
<1>6. hook.mounted /\ hook.recorder = r /\ load # "awaited"
    BY <1>1, RecordingFacts DEF HeldInv, Busy
<1>7. RecordingTypes' /\ HeldInv'
    BY <1>1, <1>5, <1>6, RecordingFacts DEF RecordingTypes, HeldInv
<1>8. PhaseInv'
    BY <1>1, <1>5, <1>6, RecordingFacts DEF PhaseInv, Busy
<1> QED
    BY <1>5, <1>7, <1>8 DEF RecordingInv

LEMMA FinishKeeps ==
    ASSUME RecordingInv, NEW r \in Recorders, Recording!Finish(r)
    PROVE  RecordingInv'
<1>1. /\ rec[r].state = IF rec[r].kind = "native" THEN "finalizing" ELSE "stopping"
      /\ rec' = [rec EXCEPT ![r].state = "finished"]
      /\ UNCHANGED <<source, load>>
    BY DEF Recording!Finish
<1>2. /\ hook.mounted /\ hook.recorder = r /\ load # "awaited" /\ ~hook.starting
      /\ \A q \in Recorders : q # r => rec[q].state \notin Busy
    BY <1>1, RecordingFacts DEF HeldInv, PhaseInv, Busy
<1> DEFINE y == [rec[r] EXCEPT !.state = "finished"]
<1>3. /\ y \in Recorder /\ y.state = "finished" /\ y.kind = rec[r].kind
      /\ y.written = rec[r].written /\ y.description = rec[r].description
      /\ y.pending = rec[r].pending
    BY <1>1, RecordingFacts DEF Recorder, Busy
<1>4. Writes(y, source)
    BY <1>1, <1>3, RecordingFacts DEF Writes
<1>5. rec' = [rec EXCEPT ![r] = y]
    BY <1>1
<1> HIDE DEF y
<1>6. /\ rec' \in [Recorders -> Recorder]
      /\ \A q \in Recorders : rec'[q].state \notin Busy /\ Writes(rec'[q], source')
    BY <1>1, <1>2, <1>3, <1>4, <1>5, RecordingFacts DEF Busy
<1>7. hook' = [hook EXCEPT !.phase = "idle"]
    BY <1>2 DEF Recording!Finish
<1>8. hook' \in Hook /\ hook'.phase = "idle" /\ ~hook'.starting
    BY <1>2, <1>7, RecordingFacts DEF Hook
<1> QED
    BY <1>1, <1>2, <1>6, <1>8, QuietKeeps, RecordingFacts

\* The stream ends or starts again; nothing else of the hook moves.
LEMMA StreamingChanges ==
    ASSUME RecordingInv, NEW streaming \in BOOLEAN, hook' = [hook EXCEPT !.streaming = streaming],
           UNCHANGED <<source, load, rec>>
    PROVE  RecordingInv'
<1>1. /\ hook' \in Hook /\ hook'.phase = hook.phase /\ hook'.recorder = hook.recorder
      /\ hook'.starting = hook.starting /\ hook'.mounted = hook.mounted
    BY RecordingFacts DEF Hook
<1>2. RecordingTypes' /\ HeldInv'
    BY <1>1, RecordingFacts DEF RecordingTypes, HeldInv
<1>3. PhaseInv'
    BY <1>1, RecordingFacts DEF PhaseInv
<1> QED
    BY <1>2, <1>3, RecordingFacts DEF RecordingInv

LEMMA StreamEndsKeeps ==
    ASSUME RecordingInv, Recording!StreamEnds
    PROVE  RecordingInv'
<1>1. CASE hook.phase = "idle"
    BY <1>1, StreamingChanges DEF Recording!StreamEnds
<1>2. CASE hook.phase # "idle"
  <2>1. /\ hook' = [hook EXCEPT !.streaming = FALSE, !.starting = FALSE, !.recorder = 0, !.phase = "idle"]
        /\ rec' = Recording!Cancelled(hook.recorder) /\ load' = Recording!Outdated /\ source' = source
      BY <1>2 DEF Recording!StreamEnds, Recording!None
  <2>2. hook' \in Hook /\ hook'.phase = "idle" /\ ~hook'.starting
    <3> DEFINE h1 == [hook EXCEPT !.streaming = FALSE]
    <3>1. hook' = [h1 EXCEPT !.starting = FALSE, !.recorder = 0, !.phase = "idle"]
        BY <2>1
    <3>2. h1 \in Hook
        BY RecordingFacts DEF Hook
    <3> HIDE DEF h1
    <3> QED
        BY <3>1, <3>2, HookIdled
  <2>3. /\ rec' \in [Recorders -> Recorder]
        /\ \A r \in Recorders : rec'[r].state \notin Busy /\ Writes(rec'[r], source')
      BY <2>1, CancelledFacts
  <2> QED
      BY <2>1, <2>2, <2>3, QuietKeeps, OutdatedIsNotAwaited, RecordingFacts
<1> QED
    BY <1>1, <1>2

LEMMA DeviceChangesKeeps ==
    ASSUME RecordingInv, Recording!DeviceChanges
    PROVE  RecordingInv'
<1>1. source' \in Source
  <2>1. source \in Source
      BY RecordingFacts
  <2> QED
      BY <2>1 DEF Recording!DeviceChanges, Recording!None, Source
<1> QED
    BY <1>1, CancelCurrentKeeps, OutdatedIsNotAwaited DEF Recording!DeviceChanges

LEMMA UnmountKeeps ==
    ASSUME RecordingInv, Recording!Unmount
    PROVE  RecordingInv'
<1>1. /\ hook' = [hook EXCEPT !.mounted = FALSE, !.starting = FALSE, !.recorder = 0]
      /\ rec' = Recording!Cancelled(hook.recorder) /\ load' = Recording!Outdated /\ source' = source
    BY DEF Recording!Unmount, Recording!None
<1>2. hook' \in Hook /\ ~hook'.mounted
    BY <1>1, RecordingFacts DEF Hook
<1>3. /\ rec' \in [Recorders -> Recorder]
      /\ \A r \in Recorders : rec'[r].state \notin Busy /\ Writes(rec'[r], source')
    BY <1>1, CancelledFacts
<1> QED
    BY <1>1, <1>2, <1>3, QuietKeeps, OutdatedIsNotAwaited, RecordingFacts

LEMMA RecordingNextKeeps == RecordingInv /\ [Recording!Next]_recording => RecordingInv'
<1> SUFFICES ASSUME RecordingInv, [Recording!Next]_recording PROVE RecordingInv'
    OBVIOUS
<1>1. ASSUME NEW r \in Recorders, Recording!RecorderFails(r) PROVE RecordingInv'
    BY <1>1, FailKeeps, RecordingFacts DEF Recording!RecorderFails, Recording!Busy, Busy
<1>2. CASE Recording!Settles
    BY <1>2, FinalizeKeeps, FinishKeeps DEF Recording!Settles, Recorders
<1>3. CASE Recording!StreamStarts
    BY <1>3, StreamingChanges DEF Recording!StreamStarts
<1>4. CASE UNCHANGED recording
    BY <1>4 DEF recording, RecordingInv, RecordingTypes, HeldInv, PhaseInv
<1> QED
    BY <1>1, <1>2, <1>3, <1>4, PictureLostKeeps, DescriptionKeeps, PictureKeeps, StartKeeps,
       LoadReturnsKeeps, LoadFailsKeeps, StopKeeps, StreamEndsKeeps, DeviceChangesKeeps, UnmountKeeps
       DEF Recording!Next, Recorders

LEMMA RecordingInitInv == Recording!Init => RecordingInv
<1> SUFFICES ASSUME Recording!Init PROVE RecordingInv
    OBVIOUS
<1>1. /\ source = [session |-> 0, begun |-> FALSE, sequence |-> 0, description |-> 0]
      /\ hook = [phase |-> "idle", recorder |-> 0, starting |-> FALSE, mounted |-> TRUE, streaming |-> TRUE]
      /\ load = "none"
      /\ rec = [r \in Recorders |-> Recording!Unused]
    BY DEF Recording!Init, Recording!None, Recorders
<1>2. /\ Recording!Unused \in Recorder /\ Recording!Unused.state = "none"
      /\ \A r \in Recorders : rec[r].state \notin Busy /\ rec[r].pending = <<>>
    BY <1>1 DEF Recording!Unused, Recording!None, Recorder, Busy
<1>3. source \in Source /\ hook \in Hook
    BY <1>1, BrowserAssumption DEF Source, Hook
<1>4. RecordingTypes /\ HeldInv /\ PhaseInv
    BY <1>1, <1>2, <1>3 DEF RecordingTypes, HeldInv, PhaseInv
<1>5. \A r \in Recorders : Writes(rec[r], source)
    BY <1>1, <1>2 DEF Writes
<1> QED
    BY <1>4, <1>5 DEF RecordingInv

LEMMA RecordingInvariant == PartsSpec => []RecordingInv
<1>1. PartsInit => RecordingInv
    BY RecordingInitInv DEF PartsInit
<1>2. RecordingInv /\ [PartsNext]_<<part, touch, gateway, motion, preview, switch, socket, setting, recording>>
        => RecordingInv'
    BY PartSteps, RecordingNextKeeps
<1> QED
    BY <1>1, <1>2, PTL DEF PartsSpec

-----------------------------------------------------------------------------
\* Every file that a native recorder exports plays, whatever the source loses and whenever
\* the encoder restarts: it starts with a keyframe, no reference is missing, and its header
\* has the one description of its pictures.  (NativeStreamRecorder.receive,
\* native-stream-recorder.ts:80-207)
THEOREM ExportsPlay == PartsSpec => []ExportsDecodable
<1>1. RecordingInv => ExportsDecodable
  <2> SUFFICES ASSUME RecordingInv, NEW r \in Recorders,
                      rec[r].kind = "native", rec[r].state = "finished"
               PROVE  Recording!Plays(rec[r])
      BY DEF ExportsDecodable, Recording!ExportsDecodable, Recorders
  <2>1. rec[r].written # <<>> /\ Chained(rec[r].written, rec[r].description)
      BY RecordingFacts DEF Writes
  <2> QED
      BY <2>1 DEF Chained, Recording!Plays
<1> QED
    BY <1>1, RecordingInvariant, PTL

\* No recorder runs behind the page's back: whatever encodes is the recorder that stop
\* reaches, the phase on the page is its phase, and an unmounted page leaves none behind.
\* (start, stop and cancelCurrent, use-screen-recording.ts:210-420)
THEOREM HeldRecorderOnly == PartsSpec => []Recording!OnlyCurrentRecords
<1>1. RecordingInv => Recording!OnlyCurrentRecords
    BY DEF RecordingInv, HeldInv, PhaseInv, Recording!OnlyCurrentRecords, Recording!Busy, Busy,
           Recording!None, Recorders
<1> QED
    BY <1>1, RecordingInvariant, PTL

-----------------------------------------------------------------------------
(* The types of the parts.                                                  *)

LEMMA LoadedKeeps ==
    ASSUME loaded \in BOOLEAN, [Recording!Next]_recording
    PROVE  loaded' \in BOOLEAN
<1>1. loaded' = loaded \/ loaded' = TRUE
    BY DEF Recording!Next, recording, Recording!Description, Recording!Picture, Recording!PictureLost,
           Recording!RecorderFails, Recording!Start, Recording!LoadReturns, Recording!LoadFails,
           Recording!Stop, Recording!Settles, Recording!Finalize, Recording!Finish,
           Recording!StreamEnds, Recording!StreamStarts, Recording!DeviceChanges, Recording!Unmount
<1> QED
    BY <1>1

LEMMA RecordingTyped ==
    ASSUME RecordingInv, loaded \in BOOLEAN PROVE Recording!TypeOK
<1>1. /\ source \in Source /\ hook \in Hook /\ load \in {"none", "awaited", "abandoned"}
      /\ load = "awaited" => hook.starting
    BY RecordingFacts DEF HeldInv, PhaseInv
<1>2. ASSUME NEW r \in Recorders
      PROVE  /\ rec[r].kind \in {"native", "canvas"}
             /\ rec[r].state \in Busy \cup {"none", "finished", "error", "cancelled"}
             /\ rec[r].pending \in Seq(Pic) /\ rec[r].written \in Seq(Pic)
             /\ rec[r].state \notin Busy => rec[r].pending = <<>>
    BY RecordingFacts DEF Recorder, Writes, Busy
<1> QED
    BY <1>1, <1>2 DEF Recording!TypeOK, Recording!None, Recording!Busy, Source, Hook, Pic, Busy, Recorders

LEMMA SettingTyped == SettingInv => Setting!SettingsTypeOK
BY DEF SettingInv, SettingTypes, Queue, Toggle, Read, MaybeValue, Mounts, Setting!SettingsTypeOK, Setting!None

\* The gateway.
LEMMA GatewayNextKeeps ==
    ASSUME Gateway!GatewayTypeOK, [Gateway!GatewayNext]_gateway
    PROVE  Gateway!GatewayTypeOK'
<1> USE DEF Gateway!GatewayTypeOK
<1>1. ASSUME NEW calls, Gateway!Settle(calls)
      PROVE  gatewayCall' \in [Gateway!Calls -> {"idle", "pending", "settled"}]
    BY <1>1 DEF Gateway!Settle
<1>2. ASSUME NEW c \in Gateway!Calls, Gateway!Call(c) PROVE Gateway!GatewayTypeOK'
    BY <1>2 DEF Gateway!Call
<1>3. ASSUME NEW c \in Gateway!Calls, Gateway!Answer(c) PROVE Gateway!GatewayTypeOK'
    BY <1>1, <1>3 DEF Gateway!Answer
<1>4. ASSUME NEW c \in Gateway!Calls, Gateway!FileTimeout(c) PROVE Gateway!GatewayTypeOK'
    BY <1>1, <1>4 DEF Gateway!FileTimeout
<1>5. CASE Gateway!Ping
  <2>1. ponged' \in BOOLEAN
      BY <1>5, Zenon DEF Gateway!Ping
  <2> QED
      BY <1>5, <2>1 DEF Gateway!Ping
<1>6. CASE Gateway!RelayError \/ Gateway!Closed
    BY <1>1, <1>6 DEF Gateway!RelayError, Gateway!Closed
<1>7. CASE \/ Gateway!Open \/ Gateway!Pong \/ Gateway!HeartbeatTimeout \/ Gateway!Close
           \/ Gateway!LinkDies \/ UNCHANGED gateway
    BY <1>7 DEF Gateway!Open, Gateway!Pong, Gateway!HeartbeatTimeout, Gateway!Close, Gateway!LinkDies,
                gateway
<1> QED
    BY <1>2, <1>3, <1>4, <1>5, <1>6, <1>7 DEF Gateway!GatewayNext

LEMMA GatewayInitTypes == Gateway!GatewayInit => Gateway!GatewayTypeOK
BY DEF Gateway!GatewayInit, Gateway!GatewayTypeOK

\* The preview page's connection.
Configs == Helpers \cup {0}
Computing == [step : {"idle", "list", "read", "answer"}, value : Configs]

LEMMA PreviewNextKeeps ==
    ASSUME Preview!PreviewTypeOK, [Preview!PreviewNext]_preview
    PROVE  Preview!PreviewTypeOK'
<1>0. /\ booted \in BOOLEAN /\ boots \in 0 .. MaxBoots /\ snapshot \in BOOLEAN
      /\ helper \in Configs /\ file \in Configs /\ deaths \in 0 .. MaxDeaths
      /\ watcher \in BOOLEAN /\ changed \in BOOLEAN /\ recompute \in BOOLEAN /\ compute \in Computing
      /\ lastSent \in Configs \cup {Preview!NotSent} /\ pushed \in Seq(Configs)
      /\ drops \in 0 .. MaxDrops /\ config \in Helpers /\ available \in BOOLEAN /\ attaching \in BOOLEAN
      /\ strays \in 0 .. MaxStrays /\ (attaching => strays < MaxStrays)
      /\ MaxBoots \in Nat /\ MaxDeaths \in Nat /\ MaxDrops \in Nat /\ MaxStrays \in Nat
    BY BrowserAssumption DEF Preview!PreviewTypeOK, Configs, Computing
<1>00. Preview!Idle \in Computing /\ Preview!Listing \in Computing
    BY DEF Preview!Idle, Preview!Listing, Computing, Configs
<1>1. ASSUME /\ booted' \in BOOLEAN /\ boots' \in 0 .. MaxBoots /\ snapshot' \in BOOLEAN
             /\ helper' \in Configs /\ file' \in Configs /\ deaths' \in 0 .. MaxDeaths
             /\ watcher' \in BOOLEAN /\ changed' \in BOOLEAN /\ recompute' \in BOOLEAN
             /\ compute' \in Computing
             /\ lastSent' \in Configs \cup {Preview!NotSent} /\ pushed' \in Seq(Configs)
             /\ drops' \in 0 .. MaxDrops /\ config' \in Helpers
             /\ available' \in BOOLEAN /\ attaching' \in BOOLEAN
             /\ strays' \in 0 .. MaxStrays /\ (attaching' => strays' < MaxStrays)
      PROVE  Preview!PreviewTypeOK'
    BY <1>1 DEF Preview!PreviewTypeOK, Configs, Computing, Preview!NotSent
<1>2. ASSUME Preview!SendIfChanged PROVE compute' \in Computing /\ recompute' \in BOOLEAN
    BY <1>0, <1>00, <1>2 DEF Preview!SendIfChanged
<1>3. ASSUME NEW f \in Configs, Preview!FileBecomes(f) PROVE file' \in Configs /\ changed' \in BOOLEAN
  <2>1. changed' \in BOOLEAN
      BY <1>3, Zenon DEF Preview!FileBecomes
  <2> QED
      BY <1>3, <2>1 DEF Preview!FileBecomes
<1> USE DEF Preview!world, Preview!stream, Preview!page
<1>4. CASE Preview!HelperDies \/ Preview!SimulatorTurns \/ Preview!SnapshotRefreshes
  <2>1. helper' \in Configs /\ deaths' \in 0 .. MaxDeaths /\ boots' \in 0 .. MaxBoots
      BY <1>0, <1>4 DEF Preview!HelperDies, Preview!SimulatorTurns, Preview!SnapshotRefreshes, Configs
  <2>2. booted' \in BOOLEAN /\ snapshot' \in BOOLEAN
      BY <1>0, <1>4 DEF Preview!HelperDies, Preview!SimulatorTurns, Preview!SnapshotRefreshes
  <2>3. UNCHANGED <<file, watcher, changed, compute, recompute, lastSent, pushed, drops, config,
                    available, attaching, strays>>
      BY <1>4 DEF Preview!HelperDies, Preview!SimulatorTurns, Preview!SnapshotRefreshes
  <2> QED
      BY <1>0, <1>1, <2>1, <2>2, <2>3
<1>5. CASE \/ Preview!StreamConnects \/ Preview!Watches \/ Preview!Debounced \/ Preview!Heartbeat
  <2>1. /\ watcher' \in BOOLEAN /\ changed' \in BOOLEAN
        /\ UNCHANGED <<booted, boots, snapshot, helper, file, deaths, lastSent, pushed, drops, config,
                       available, attaching, strays>>
      BY <1>0, <1>5 DEF Preview!StreamConnects, Preview!Watches, Preview!Debounced, Preview!Heartbeat
  <2>2. Preview!SendIfChanged
      BY <1>5 DEF Preview!StreamConnects, Preview!Watches, Preview!Debounced, Preview!Heartbeat
  <2> QED
      BY <1>0, <1>1, <1>2, <2>1, <2>2
<1>6. CASE Preview!WatcherFails
  <2>1. /\ drops < MaxDrops /\ drops' = drops + 1 /\ watcher' = FALSE
        /\ UNCHANGED <<booted, boots, snapshot, helper, file, deaths, changed, compute, recompute,
                       lastSent, pushed, config, available, attaching, strays>>
      BY <1>6 DEF Preview!WatcherFails
  <2>2. drops' \in 0 .. MaxDrops
      BY <1>0, <2>1
  <2> QED
      BY <1>0, <1>1, <2>1, <2>2
<1>14. CASE Preview!StreamDrops
  <2>1. /\ drops < MaxDrops /\ drops' = drops + 1
        /\ watcher' = FALSE /\ changed' = FALSE /\ compute' = Preview!Idle /\ recompute' = FALSE
        /\ lastSent' = Preview!NotSent /\ pushed' = << >>
        /\ UNCHANGED <<booted, boots, snapshot, helper, file, deaths, config, available, attaching, strays>>
      BY <1>14 DEF Preview!StreamDrops
  <2>2. drops' \in 0 .. MaxDrops /\ pushed' \in Seq(Configs)
      BY <1>0, <2>1
  <2> QED
      BY <1>0, <1>00, <1>1, <2>1, <2>2
<1>7. CASE Preview!Lists
  <2> DEFINE c1 == [compute EXCEPT !.step = "read"]
             c2 == [c1 EXCEPT !.value = file]
  <2>0. file \in Configs
      BY <1>0
  <2>1. c1 \in Computing
      BY <1>0 DEF Computing
  <2>2. compute' = c2
      BY <1>7 DEF Preview!Lists
  <2> HIDE DEF c1
  <2>3. c2 \in Computing
      BY <2>0, <2>1 DEF Computing
  <2>4. UNCHANGED <<booted, boots, snapshot, helper, file, deaths, watcher, changed, recompute,
                    lastSent, pushed, drops, config, available, attaching, strays>>
      BY <1>7 DEF Preview!Lists
  <2> HIDE DEF c2
  <2> QED
      BY <1>0, <1>1, <2>2, <2>3, <2>4
<1>8. CASE Preview!Reads
  <2> DEFINE listed == compute.value # 0 /\ file # 0
             usable == listed /\ helper = file /\ snapshot
             answer == IF usable THEN file ELSE 0
             c1 == [compute EXCEPT !.step = "answer"]
             c2 == [c1 EXCEPT !.value = answer]
             kept == IF listed /\ ~usable THEN 0 ELSE file
  <2>1. /\ compute' = c2 /\ Preview!FileBecomes(kept)
        /\ helper' = IF listed /\ helper = file /\ ~snapshot THEN 0 ELSE helper
        /\ UNCHANGED <<booted, boots, snapshot, deaths, watcher, recompute, lastSent, pushed, drops,
                       config, available, attaching, strays>>
      BY <1>8 DEF Preview!Reads
  <2>2. answer \in Configs /\ kept \in Configs /\ helper' \in Configs
      BY <1>0, <2>1 DEF Configs
  <2> HIDE DEF answer, kept
  <2>3. c1 \in Computing
      BY <1>0 DEF Computing
  <2> HIDE DEF c1
  <2>4. c2 \in Computing
      BY <2>2, <2>3 DEF Computing
  <2> HIDE DEF c2
  <2>5. file' \in Configs /\ changed' \in BOOLEAN
      BY <1>3, <2>1, <2>2
  <2> QED
      BY <1>0, <1>1, <2>1, <2>2, <2>4, <2>5
<1>9. CASE Preview!Answers
  <2>1. compute.value \in Configs
      BY <1>0 DEF Computing
  <2>2. lastSent' \in Configs \cup {Preview!NotSent} /\ compute' \in Computing
      BY <1>0, <1>00, <1>9, <2>1 DEF Preview!Answers, Preview!SentAfter
  <2>3. pushed' \in Seq(Configs)
      BY <1>0, <1>9, <2>1 DEF Preview!Answers
  <2>4. /\ recompute' = FALSE
        /\ UNCHANGED <<booted, boots, snapshot, helper, file, deaths, watcher, changed, drops, config,
                       available, attaching, strays>>
      BY <1>9 DEF Preview!Answers
  <2> QED
      BY <1>0, <1>1, <2>2, <2>3, <2>4
<1>15. ASSUME Preview!CliAttaches
       PROVE  helper' \in Configs /\ file' \in Configs /\ changed' \in BOOLEAN
  <2> DEFINE new == CHOOSE h \in Preview!NewHelpers : TRUE
  <2>1. \/ Preview!NewHelpers # {} /\ helper' = new /\ Preview!FileBecomes(new)
        \/ UNCHANGED <<helper, file, changed>>
      BY <1>15 DEF Preview!CliAttaches
  <2>2. Preview!NewHelpers # {} => new \in Configs
      BY DEF Preview!NewHelpers, Configs
  <2> HIDE DEF new
  <2> QED
      BY <1>0, <1>3, <2>1, <2>2
<1>10. CASE Preview!PageReceives
  <2>1. Head(pushed) \in Configs /\ pushed' \in Seq(Configs)
      BY <1>0, <1>10 DEF Preview!PageReceives
  <2>2. config' \in Helpers
      BY <1>0, <1>10, <2>1 DEF Preview!PageReceives, Configs
  <2>3. available' \in BOOLEAN
      BY <1>10 DEF Preview!PageReceives
  <2>4. UNCHANGED <<booted, boots, snapshot, helper, file, deaths, watcher, changed, compute, recompute,
                    lastSent, drops>>
      BY <1>10 DEF Preview!PageReceives
  <2>5. attaching' = (attaching /\ Head(pushed) = 0)
      BY <1>10 DEF Preview!PageReceives
  <2>6. attaching' \in BOOLEAN
      BY <2>5, Zenon
  <2>7. strays' = IF attaching /\ Head(pushed) # 0 THEN strays + 1 ELSE strays
      BY <1>10 DEF Preview!PageReceives
  <2>8. strays' \in 0 .. MaxStrays /\ (attaching' => strays' < MaxStrays)
    <3>1. CASE attaching /\ Head(pushed) # 0
      <4>1. strays' = strays + 1 /\ ~attaching'
          BY <2>5, <2>7, <3>1
      <4> QED
          BY <1>0, <3>1, <4>1
    <3>2. CASE ~(attaching /\ Head(pushed) # 0)
      <4>1. strays' = strays /\ (attaching' => attaching)
          BY <2>5, <2>7, <3>2
      <4> QED
          BY <1>0, <4>1
    <3> QED
        BY <3>1, <3>2
  <2> QED
      BY <1>0, <1>1, <2>1, <2>2, <2>3, <2>4, <2>6, <2>8
<1>11. CASE Preview!PageAttaches
  <2>1. /\ attaching' = TRUE /\ strays < MaxStrays
        /\ UNCHANGED <<booted, boots, snapshot, helper, file, deaths, watcher, changed, compute,
                       recompute, lastSent, pushed, drops, config, available, strays>>
      BY <1>11 DEF Preview!PageAttaches
  <2> QED
      BY <1>0, <1>1, <2>1
<1>12. CASE Preview!AttachEnds
  <2>1. /\ attaching' = FALSE /\ Preview!CliAttaches
        /\ UNCHANGED <<booted, boots, snapshot, deaths, watcher, compute, recompute, lastSent, pushed,
                       drops, config, available, strays>>
      BY <1>12 DEF Preview!AttachEnds
  <2> QED
      BY <1>0, <1>1, <1>15, <2>1
<1>16. CASE Preview!StrayEnds
  <2>1. /\ strays > 0 /\ strays' = strays - 1 /\ Preview!CliAttaches
        /\ UNCHANGED <<booted, boots, snapshot, deaths, watcher, compute, recompute, lastSent, pushed,
                       drops, config, available, attaching>>
      BY <1>16 DEF Preview!StrayEnds
  <2>2. strays' \in 0 .. MaxStrays /\ (attaching' => strays' < MaxStrays)
      BY <1>0, <2>1
  <2> QED
      BY <1>0, <1>1, <1>15, <2>1, <2>2
<1>13. CASE UNCHANGED preview
    BY <1>0, <1>1, <1>13 DEF preview
<1> QED
    BY <1>4, <1>5, <1>6, <1>7, <1>8, <1>9, <1>10, <1>11, <1>12, <1>13, <1>14, <1>16 DEF Preview!PreviewNext

LEMMA PreviewInitTypes == Preview!PreviewInit => Preview!PreviewTypeOK
<1> SUFFICES ASSUME Preview!PreviewInit PROVE Preview!PreviewTypeOK
    OBVIOUS
<1>1. 1 \in Helpers /\ MaxBoots \in Nat /\ MaxDeaths \in Nat /\ MaxDrops \in Nat /\ MaxStrays \in Nat
    BY BrowserAssumption
<1>2. Preview!Idle \in Computing
    BY DEF Preview!Idle, Computing, Configs
<1>3. /\ booted = TRUE /\ boots = 0 /\ snapshot = TRUE /\ helper = 1 /\ file = 1 /\ deaths = 0
      /\ watcher = FALSE /\ changed = FALSE /\ compute = Preview!Idle /\ recompute = FALSE
      /\ lastSent = Preview!NotSent /\ pushed = << >> /\ drops = 0
      /\ config = 1 /\ available = TRUE /\ attaching = FALSE /\ strays = 0
    BY DEF Preview!PreviewInit
<1>4. pushed \in Seq(Configs)
    BY <1>3
<1>5. lastSent \in Helpers \cup {0, Preview!NotSent}
    BY <1>3
<1>6. /\ booted \in BOOLEAN /\ snapshot \in BOOLEAN /\ watcher \in BOOLEAN /\ changed \in BOOLEAN
      /\ recompute \in BOOLEAN /\ available \in BOOLEAN /\ attaching \in BOOLEAN
      /\ (attaching => strays < MaxStrays)
    BY <1>3
<1>7. /\ boots \in 0 .. MaxBoots /\ deaths \in 0 .. MaxDeaths /\ drops \in 0 .. MaxDrops
      /\ strays \in 0 .. MaxStrays /\ helper \in Configs /\ file \in Configs /\ config \in Helpers /\ compute \in Computing
    BY <1>1, <1>2, <1>3 DEF Configs
<1> QED
    BY <1>4, <1>5, <1>6, <1>7 DEF Preview!PreviewTypeOK, Computing, Configs

\* The control socket.
Attempt == [phase : Socket!Phases, token : 0 .. MaxRestarts]
Standing(n) == [state : Socket!States, at : 0 .. n]

LEMMA SocketNextKeeps ==
    ASSUME Socket!ExecTypeOK, [Socket!ExecNext]_socket
    PROVE  Socket!ExecTypeOK'
<1> DEFINE n == Len(attempts)
<1>0. /\ cache \in 0 .. n /\ page \in 0 .. MaxRestarts /\ minted \in 0 .. MaxRestarts
      /\ attempts \in Seq(Attempt) /\ n \in Nat /\ DOMAIN attempts = 1 .. n
      /\ request \in [Requests -> Standing(n)] /\ MaxRestarts \in Nat
      /\ \A k \in DOMAIN attempts : attempts[k] \in Attempt /\ attempts[k].token \in 0 .. MaxRestarts
  <2>1. attempts \in Seq(Attempt) /\ request \in [Requests -> Standing(n)]
      BY DEF Socket!ExecTypeOK, Attempt, Standing
  <2>2. /\ cache \in 0 .. n /\ page \in 0 .. MaxRestarts /\ minted \in 0 .. MaxRestarts
        /\ MaxRestarts \in Nat
      BY BrowserAssumption DEF Socket!ExecTypeOK
  <2>3. n \in Nat /\ DOMAIN attempts = 1 .. n /\ \A k \in DOMAIN attempts : attempts[k] \in Attempt
      BY <2>1
  <2> QED
      BY <2>1, <2>2, <2>3 DEF Attempt
<1>1. ASSUME attempts' \in Seq(Attempt), Len(attempts') = n, cache' \in 0 .. n,
             page' \in 0 .. MaxRestarts, minted' \in 0 .. MaxRestarts,
             request' \in [Requests -> Standing(n)]
      PROVE  Socket!ExecTypeOK'
  <2>1. /\ attempts' \in Seq([phase : Socket!Phases, token : 0 .. MaxRestarts])
        /\ request' \in [Requests -> [state : Socket!States, at : 0 .. Len(attempts')]]
        /\ cache' \in 0 .. Len(attempts')
      BY <1>1 DEF Attempt, Standing
  <2> HIDE DEF n
  <2> QED
      BY <1>1, <2>1 DEF Socket!ExecTypeOK
<1>2. ASSUME NEW k \in DOMAIN attempts, NEW phase \in Socket!Phases, NEW token \in 0 .. MaxRestarts,
             Socket!Enters(k, phase, token)
      PROVE  attempts' \in Seq(Attempt) /\ Len(attempts') = n
  <2> DEFINE a == [phase |-> phase, token |-> token]
  <2>1. a \in Attempt /\ attempts' = [attempts EXCEPT ![k] = a]
      BY <1>2 DEF Socket!Enters, Attempt
  <2> HIDE DEF a
  <2> QED
      BY <1>0, <2>1
<1>3. ASSUME NEW r \in Requests, NEW state \in Socket!States, NEW k \in 0 .. n, Socket!Becomes(r, state, k)
      PROVE  request' \in [Requests -> Standing(n)]
    BY <1>0, <1>3 DEF Socket!Becomes, Standing
<1>4. ASSUME NEW r \in Requests PROVE request[r] \in Standing(n) /\ request[r].at \in 0 .. n
    BY <1>0 DEF Standing
<1>5. ASSUME NEW r \in Requests, Socket!Call(r) PROVE Socket!ExecTypeOK'
  <2>1. CASE cache = 0
    <3> DEFINE a == [phase |-> "first", token |-> page]
    <3>1. /\ cache' = n + 1 /\ attempts' = Append(attempts, a)
          /\ Socket!Becomes(r, "waiting", n + 1) /\ UNCHANGED <<page, minted>>
        BY <1>5, <2>1 DEF Socket!Call, Socket!Becomes
    <3>2. a \in Attempt
        BY <1>0 DEF Attempt, Socket!Phases
    <3> HIDE DEF a
    <3>3. attempts' \in Seq(Attempt) /\ Len(attempts') = n + 1
        BY <1>0, <3>1, <3>2
    <3>4. \A q \in Requests : request[q] \in Standing(n + 1)
        BY <1>0 DEF Standing
    <3>5. [state |-> "waiting", at |-> n + 1] \in Standing(n + 1)
        BY <1>0 DEF Standing, Socket!States
    <3>6. request' \in [Requests -> Standing(n + 1)]
        BY <1>0, <3>1, <3>4, <3>5 DEF Socket!Becomes
    <3>7. cache' \in 0 .. n + 1
        BY <1>0, <3>1
    <3> HIDE DEF n
    <3> QED
        BY <1>0, <3>1, <3>3, <3>6, <3>7 DEF Socket!ExecTypeOK, Attempt, Standing
  <2>2. CASE cache # 0
    <3>1. /\ UNCHANGED <<cache, attempts, page, minted>> /\ Socket!Becomes(r, "waiting", cache)
        BY <1>5, <2>2 DEF Socket!Call, Socket!Becomes
    <3>2. request' \in [Requests -> Standing(n)]
        BY <1>0, <1>3, <3>1 DEF Socket!States
    <3> QED
        BY <1>0, <1>1, <3>1, <3>2
  <2> QED
      BY <2>1, <2>2
<1>6. ASSUME NEW r \in Requests, Socket!Sends(r) \/ Socket!Reply(r) PROVE Socket!ExecTypeOK'
  <2>1. /\ UNCHANGED <<cache, attempts, page, minted>>
        /\ \E state \in {"sent", "settled"} : Socket!Becomes(r, state, request[r].at)
      BY <1>6 DEF Socket!Sends, Socket!Reply
  <2>2. request' \in [Requests -> Standing(n)]
      BY <1>3, <1>4, <2>1 DEF Socket!States
  <2> QED
      BY <1>0, <1>1, <2>1, <2>2
<1>7. ASSUME NEW k \in DOMAIN attempts, Socket!Failed(k)
      PROVE  /\ attempts' \in Seq(Attempt) /\ Len(attempts') = n /\ cache' \in 0 .. n
             /\ request' \in [Requests -> Standing(n)]
  <2>1. attempts' \in Seq(Attempt) /\ Len(attempts') = n
      BY <1>0, <1>2, <1>7 DEF Socket!Failed, Socket!Phases
  <2>2. [state |-> "settled", at |-> k] \in Standing(n)
      BY <1>0 DEF Standing, Socket!States
  <2>3. request' \in [Requests -> Standing(n)]
      BY <1>0, <1>7, <2>2 DEF Socket!Failed
  <2> QED
      BY <1>0, <1>7, <2>1, <2>3 DEF Socket!Failed
<1>8. ASSUME NEW k \in DOMAIN attempts, Socket!Accepted(k) PROVE Socket!ExecTypeOK'
  <2>1. attempts' \in Seq(Attempt) /\ Len(attempts') = n
      BY <1>0, <1>2, <1>8 DEF Socket!Accepted, Socket!Phases
  <2> QED
      BY <1>0, <1>1, <1>8, <2>1 DEF Socket!Accepted
<1>9. ASSUME NEW k \in DOMAIN attempts, Socket!ConnectFails(k) PROVE Socket!ExecTypeOK'
  <2>1. CASE Socket!Enters(k, "refresh", attempts[k].token) /\ UNCHANGED <<cache, request>>
    <3>1. attempts' \in Seq(Attempt) /\ Len(attempts') = n
        BY <1>0, <1>2, <2>1 DEF Socket!Phases
    <3> QED
        BY <1>0, <1>1, <1>9, <2>1, <3>1 DEF Socket!ConnectFails
  <2>2. CASE Socket!Failed(k)
      BY <1>0, <1>1, <1>7, <1>9, <2>2 DEF Socket!ConnectFails
  <2> QED
      BY <1>9, <2>1, <2>2 DEF Socket!ConnectFails
<1>10. ASSUME NEW k \in DOMAIN attempts, Socket!Refreshed(k) PROVE Socket!ExecTypeOK'
  <2>1. minted' = minted /\ page' \in {page, minted}
      BY <1>10 DEF Socket!Refreshed
  <2>2. CASE Socket!Enters(k, "second", minted) /\ UNCHANGED <<cache, request>>
    <3>1. attempts' \in Seq(Attempt) /\ Len(attempts') = n
        BY <1>0, <1>2, <2>2 DEF Socket!Phases
    <3> QED
        BY <1>0, <1>1, <2>1, <2>2, <3>1
  <2>3. CASE Socket!Failed(k)
      BY <1>0, <1>1, <1>7, <2>1, <2>3
  <2> QED
      BY <1>10, <2>2, <2>3 DEF Socket!Refreshed
<1>11. ASSUME NEW k \in DOMAIN attempts, Socket!Down(k) PROVE Socket!ExecTypeOK'
  <2>1. /\ cache' = 0 /\ request' = Socket!Rejected /\ UNCHANGED <<page, minted>>
        /\ \E phase \in {"closing", "down"} : Socket!Enters(k, phase, attempts[k].token)
      BY <1>11 DEF Socket!Down
  <2>2. attempts' \in Seq(Attempt) /\ Len(attempts') = n
      BY <1>0, <1>2, <2>1 DEF Socket!Phases
  <2>3. \A r \in Requests : [request[r] EXCEPT !.state = "settled"] \in Standing(n)
      BY <1>0 DEF Standing, Socket!States
  <2>4. request' \in [Requests -> Standing(n)]
      BY <1>0, <2>1, <2>3 DEF Socket!Rejected
  <2> QED
      BY <1>0, <1>1, <2>1, <2>2, <2>4
<1>12. CASE Socket!Restart
    BY <1>0, <1>1, <1>12 DEF Socket!Restart
<1>13. CASE UNCHANGED socket
    BY <1>0, <1>1, <1>13 DEF socket
<1> QED
    BY <1>5, <1>6, <1>8, <1>9, <1>10, <1>11, <1>12, <1>13 DEF Socket!ExecNext

LEMMA SocketInitTypes == Socket!ExecInit => Socket!ExecTypeOK
<1> SUFFICES ASSUME Socket!ExecInit PROVE Socket!ExecTypeOK
    OBVIOUS
<1>1. /\ cache = 0 /\ attempts = << >> /\ page = 0 /\ minted = 0 /\ MaxRestarts \in Nat
      /\ request = [r \in Requests |-> [state |-> "idle", at |-> 0]]
    BY BrowserAssumption DEF Socket!ExecInit
<1>2. Len(attempts) = 0 /\ attempts \in Seq(Attempt)
    BY <1>1
<1>3. [state |-> "idle", at |-> 0] \in Standing(0)
    BY DEF Standing, Socket!States
<1>4. request \in [Requests -> Standing(0)]
    BY <1>1, <1>3
<1> QED
    BY <1>1, <1>2, <1>4 DEF Socket!ExecTypeOK, Attempt, Standing

\* Switching simulators.  A click asks at most twice, before and after its start, and an ask
\* mounts at most one shell.
Unstarted == {k \in DOMAIN asks : asks[k].phase \in {"loading", "starting"}}
Underway == {k \in DOMAIN asks : asks[k].phase # "over"}

SwitchCounted ==
    /\ Len(asks) <= MaxAsks
    /\ latest + Cardinality(Unstarted) <= 2 * Len(asks)
    /\ shell + Cardinality(Underway) <= Len(asks)
    /\ \A k \in DOMAIN asks : 1 <= asks[k].id /\ asks[k].shell <= shell

LEMMA SwitchNumbers ==
    ASSUME SwitchInv
    PROVE  /\ asks \in Seq(Asked) /\ Len(asks) \in Nat /\ DOMAIN asks = 1 .. Len(asks)
           /\ latest \in Nat /\ shell \in Nat
           /\ IsFiniteSet(Unstarted) /\ IsFiniteSet(Underway)
           /\ Cardinality(Unstarted) \in Nat /\ Cardinality(Underway) \in Nat
           /\ \A k \in DOMAIN asks : asks[k] \in Asked /\ asks[k].id \in Nat /\ asks[k].shell \in Nat
<1>1. /\ asks \in Seq(Asked) /\ Len(asks) \in Nat /\ DOMAIN asks = 1 .. Len(asks)
      /\ latest \in Nat /\ shell \in Nat /\ \A k \in DOMAIN asks : asks[k] \in Asked
    BY DEF SwitchInv, SwitchTypes
<1>2. \A k \in DOMAIN asks : asks[k].id \in Nat /\ asks[k].shell \in Nat
    BY <1>1 DEF Asked
<1>3. IsFiniteSet(DOMAIN asks)
    BY <1>1, FS_Interval
<1>4. Unstarted \subseteq DOMAIN asks /\ Underway \subseteq DOMAIN asks
    BY DEF Unstarted, Underway
<1>5. IsFiniteSet(Unstarted) /\ IsFiniteSet(Underway)
    BY <1>3, <1>4, FS_Subset
<1> QED
    BY <1>1, <1>2, <1>5, FS_CardinalityType

\* A number that rises by one only when a set loses an element.
LEMMA CountKept ==
    ASSUME NEW S, IsFiniteSet(S), NEW T \in SUBSET S, NEW n \in Nat, NEW m,
           m = n \/ (m = n + 1 /\ \E k \in S : k \notin T)
    PROVE  m + Cardinality(T) <= n + Cardinality(S)
<1>1. IsFiniteSet(T) /\ Cardinality(T) \in Nat /\ Cardinality(S) \in Nat /\ Cardinality(T) <= Cardinality(S)
    BY FS_Subset, FS_CardinalityType
<1>2. CASE m = n
    BY <1>1, <1>2
<1>3. CASE m = n + 1 /\ \E k \in S : k \notin T
  <2>1. PICK k \in S : k \notin T
      BY <1>3
  <2>2. IsFiniteSet(S \ {k}) /\ Cardinality(S \ {k}) = Cardinality(S) - 1
      BY <2>1, FS_RemoveElement
  <2>3. T \in SUBSET (S \ {k})
      BY <2>1
  <2>4. Cardinality(T) <= Cardinality(S \ {k})
      BY <2>2, <2>3, FS_Subset
  <2> QED
      BY <1>1, <1>3, <2>2, <2>4
<1> QED
    BY <1>2, <1>3

\* A step that asks nothing new.
LEMMA CountsKept ==
    ASSUME SwitchInv, SwitchCounted, DOMAIN asks' = DOMAIN asks, Len(asks') = Len(asks),
           Unstarted' \subseteq Unstarted, Underway' \subseteq Underway,
           latest' = latest \/ (latest' = latest + 1 /\ \E k \in Unstarted : k \notin Unstarted'),
           shell' = shell \/ (shell' = shell + 1 /\ \E k \in Underway : k \notin Underway'),
           \A k \in DOMAIN asks : /\ asks'[k].id \in {asks[k].id, latest'}
                                  /\ asks'[k].shell = asks[k].shell,
           latest' = latest => \A k \in DOMAIN asks : asks'[k].id = asks[k].id
    PROVE  SwitchCounted'
<1>1. latest' + Cardinality(Unstarted') <= latest + Cardinality(Unstarted)
    BY SwitchNumbers, CountKept
<1>2. shell' + Cardinality(Underway') <= shell + Cardinality(Underway)
    BY SwitchNumbers, CountKept
<1>3. /\ IsFiniteSet(Unstarted') /\ IsFiniteSet(Underway')
      /\ Cardinality(Unstarted') \in Nat /\ Cardinality(Underway') \in Nat
    BY SwitchNumbers, FS_Subset, FS_CardinalityType
<1>4. Len(asks') <= MaxAsks
    BY DEF SwitchCounted
<1>5. latest' + Cardinality(Unstarted') <= 2 * Len(asks')
    BY <1>1, <1>3, SwitchNumbers DEF SwitchCounted
<1>6. shell' + Cardinality(Underway') <= Len(asks')
    BY <1>2, <1>3, SwitchNumbers DEF SwitchCounted
<1>7. ASSUME NEW k \in DOMAIN asks PROVE 1 <= asks'[k].id /\ asks'[k].shell <= shell'
  <2>1. /\ asks[k].id \in Nat /\ asks[k].shell \in Nat /\ latest \in Nat /\ shell \in Nat
        /\ 1 <= asks[k].id /\ asks[k].shell <= shell
      BY SwitchNumbers DEF SwitchCounted
  <2>2. asks'[k].shell = asks[k].shell /\ shell' \in {shell, shell + 1}
      OBVIOUS
  <2>3. asks'[k].id \in {asks[k].id, latest + 1}
      OBVIOUS
  <2> QED
      BY <2>1, <2>2, <2>3
<1> QED
    BY <1>4, <1>5, <1>6, <1>7 DEF SwitchCounted

\* runSwitch asks.
LEMMA AskCounts ==
    ASSUME SwitchInv, SwitchCounted, NEW device \in Devices, NEW push \in BOOLEAN,
           Switch!Ask(device, push), shell' = shell
    PROVE  SwitchCounted'
<1> DEFINE new == [device |-> device, push |-> push, phase |-> "loading",
                   id |-> latest + 1, shell |-> shell]
           last == Len(asks) + 1
<1>1. Len(asks) < MaxAsks /\ latest' = latest + 1 /\ asks' = Append(asks, new)
    BY DEF Switch!Ask
<1>2. new.phase = "loading" /\ new.id = latest + 1 /\ new.shell = shell /\ new \in Asked
    BY SwitchNumbers DEF Asked
<1> HIDE DEF new
<1>3. /\ Len(asks') = Len(asks) + 1 /\ DOMAIN asks' = DOMAIN asks \cup {last} /\ last \notin DOMAIN asks
      /\ asks'[last] = new /\ \A k \in DOMAIN asks : asks'[k] = asks[k]
    BY <1>1, <1>2, SwitchNumbers
<1> HIDE DEF last
<1>4. /\ Unstarted' = Unstarted \cup {last} /\ last \notin Unstarted
      /\ Underway' = Underway \cup {last} /\ last \notin Underway
    BY <1>2, <1>3 DEF Unstarted, Underway
<1>5. /\ Cardinality(Unstarted') = Cardinality(Unstarted) + 1
      /\ Cardinality(Underway') = Cardinality(Underway) + 1
    BY <1>4, SwitchNumbers, FS_AddElement
<1>6. Len(asks') <= MaxAsks
  <2>1. MaxAsks \in Nat
      BY BrowserAssumption
  <2> QED
      BY <1>1, <1>3, <2>1, SwitchNumbers
<1>7. latest' + Cardinality(Unstarted') <= 2 * Len(asks')
    BY <1>1, <1>3, <1>5, SwitchNumbers DEF SwitchCounted
<1>8. shell' + Cardinality(Underway') <= Len(asks')
    BY <1>3, <1>5, SwitchNumbers DEF SwitchCounted
<1>9. ASSUME NEW k \in DOMAIN asks' PROVE 1 <= asks'[k].id /\ asks'[k].shell <= shell'
    BY <1>2, <1>3, SwitchNumbers DEF SwitchCounted
<1> QED
    BY <1>6, <1>7, <1>8, <1>9 DEF SwitchCounted

\* An ask waits for its start, or is over, and may have mounted a shell.
LEMMA PhaseCounts ==
    ASSUME SwitchInv, SwitchCounted, NEW k \in DOMAIN asks, NEW phase \in {"starting", "over"},
           Switch!Phase(k, phase), latest' = latest,
           phase = "starting" => asks[k].phase = "loading",
           shell' = shell \/ (shell' = shell + 1 /\ phase = "over" /\ asks[k].phase # "over")
    PROVE  SwitchCounted'
<1> DEFINE a == [asks[k] EXCEPT !.phase = phase]
<1>1. asks' = [asks EXCEPT ![k] = a]
    BY DEF Switch!Phase
<1>2. a.phase = phase /\ a.id = asks[k].id /\ a.shell = asks[k].shell
    BY SwitchNumbers DEF Asked
<1> HIDE DEF a
<1>3. /\ DOMAIN asks' = DOMAIN asks /\ Len(asks') = Len(asks)
      /\ asks'[k] = a /\ \A j \in DOMAIN asks : j # k => asks'[j] = asks[j]
    BY <1>1, SwitchNumbers
<1>4. Unstarted' \subseteq Unstarted /\ Underway' \subseteq Underway
    BY <1>2, <1>3 DEF Unstarted, Underway
<1>5. shell' = shell \/ (shell' = shell + 1 /\ \E j \in Underway : j \notin Underway')
    BY <1>2, <1>3 DEF Underway
<1>6. \A j \in DOMAIN asks : asks'[j].id = asks[j].id /\ asks'[j].shell = asks[j].shell
    BY <1>2, <1>3
<1> QED
    BY <1>3, <1>4, <1>5, <1>6, CountsKept

LEMMA SwitchNextCounted ==
    ASSUME SwitchInv, SwitchCounted, [Switch!SwitchNext]_switch
    PROVE  SwitchCounted'
<1>1. ASSUME NEW d \in Devices, Switch!Click(d) PROVE SwitchCounted'
    BY <1>1, AskCounts DEF Switch!Click
<1>2. ASSUME NEW step \in {1, 0 - 1}, Switch!Pop(step) PROVE SwitchCounted'
  <2>1. history[at'] \in Devices
      BY <1>2 DEF Switch!Pop, SwitchInv, SwitchTypes
  <2> QED
      BY <1>2, <2>1, AskCounts DEF Switch!Pop
<1>3. ASSUME NEW k \in DOMAIN asks, Switch!Lands(k) PROVE SwitchCounted'
  <2>1. /\ Switch!Phase(k, "over") /\ latest' = latest /\ asks[k].phase # "over"
        /\ shell' = shell \/ shell' = shell + 1
      BY <1>3 DEF Switch!Lands
  <2> QED
      BY <2>1, PhaseCounts
<1>4. ASSUME NEW k \in DOMAIN asks, Switch!LoadsNothing(k) \/ Switch!StartFails(k) PROVE SwitchCounted'
  <2>1. Switch!Phase(k, "over") /\ latest' = latest /\ shell' = shell
      BY <1>4 DEF Switch!LoadsNothing, Switch!StartFails, Switch!ClickFails
  <2> QED
      BY <2>1, PhaseCounts
<1>5. ASSUME NEW k \in DOMAIN asks, Switch!NothingYet(k) PROVE SwitchCounted'
  <2>1. Switch!Phase(k, "starting") /\ latest' = latest /\ shell' = shell /\ asks[k].phase = "loading"
      BY <1>5 DEF Switch!NothingYet
  <2> QED
      BY <2>1, PhaseCounts
<1>6. ASSUME NEW k \in DOMAIN asks, Switch!Started(k) PROVE SwitchCounted'
  <2> DEFINE a1 == [asks[k] EXCEPT !.phase = "again"]
             a2 == [a1 EXCEPT !.id = latest']
  <2>1. asks' = [asks EXCEPT ![k] = a2] /\ latest' = latest + 1 /\ shell' = shell
      BY <1>6 DEF Switch!Started
  <2>2. asks[k].phase = "starting"
      BY <1>6 DEF Switch!Started
  <2>3. a1 \in Asked /\ a1.phase = "again" /\ a1.shell = asks[k].shell
      BY SwitchNumbers DEF Asked
  <2> HIDE DEF a1
  <2>4. a2.phase = "again" /\ a2.id = latest' /\ a2.shell = asks[k].shell
      BY <2>3 DEF Asked
  <2> HIDE DEF a2
  <2>5. /\ DOMAIN asks' = DOMAIN asks /\ Len(asks') = Len(asks)
        /\ asks'[k] = a2 /\ \A j \in DOMAIN asks : j # k => asks'[j] = asks[j]
      BY <2>1, SwitchNumbers
  <2>6. /\ Unstarted' \subseteq Unstarted /\ Underway' \subseteq Underway
        /\ k \in Unstarted /\ k \notin Unstarted'
      BY <2>2, <2>4, <2>5 DEF Unstarted, Underway
  <2>7. \A j \in DOMAIN asks : asks'[j].id \in {asks[j].id, latest'} /\ asks'[j].shell = asks[j].shell
      BY <2>4, <2>5
  <2>8. latest' # latest
      BY <2>1, SwitchNumbers
  <2> QED
      BY <2>1, <2>5, <2>6, <2>7, <2>8, CountsKept
<1>7. ASSUME NEW k \in DOMAIN asks, Switch!Reloads(k) PROVE SwitchCounted'
  <2>1. /\ asks' = [j \in DOMAIN asks |-> [asks[j] EXCEPT !.phase = "over"]]
        /\ latest' = latest /\ shell' = shell + 1 /\ asks[k].phase = "loading"
      BY <1>7 DEF Switch!Reloads
  <2>2. \A j \in DOMAIN asks :
          /\ [asks[j] EXCEPT !.phase = "over"].phase = "over"
          /\ [asks[j] EXCEPT !.phase = "over"].id = asks[j].id
          /\ [asks[j] EXCEPT !.phase = "over"].shell = asks[j].shell
      BY SwitchNumbers DEF Asked
  <2>3. /\ DOMAIN asks' = DOMAIN asks
        /\ \A j \in DOMAIN asks : /\ asks'[j].phase = "over" /\ asks'[j].id = asks[j].id
                                  /\ asks'[j].shell = asks[j].shell
      BY <2>1, <2>2
  <2>4. Len(asks') = Len(asks)
      BY <2>1, SwitchNumbers
  <2>5. Unstarted' = {} /\ Underway' = {} /\ k \in Underway
      BY <2>1, <2>3 DEF Unstarted, Underway
  <2> QED
      BY <2>1, <2>3, <2>4, <2>5, CountsKept
<1>8. CASE UNCHANGED switch
    BY <1>8 DEF switch, SwitchCounted, Unstarted, Underway
<1> QED
    BY <1>1, <1>2, <1>3, <1>4, <1>5, <1>6, <1>7, <1>8 DEF Switch!SwitchNext

LEMMA SwitchInitCounted == Switch!SwitchInit => SwitchCounted
<1> SUFFICES ASSUME Switch!SwitchInit PROVE SwitchCounted
    OBVIOUS
<1>1. asks = << >> /\ latest = 0 /\ shell = 0 /\ MaxAsks \in Nat
    BY BrowserAssumption DEF Switch!SwitchInit
<1>2. Len(asks) = 0 /\ DOMAIN asks = {}
    BY <1>1
<1>3. Unstarted = {} /\ Underway = {}
    BY <1>2 DEF Unstarted, Underway
<1>4. Cardinality(Unstarted) = 0 /\ Cardinality(Underway) = 0
    BY <1>3, FS_EmptySet
<1> QED
    BY <1>1, <1>2, <1>4 DEF SwitchCounted

LEMMA SwitchTyped ==
    ASSUME SwitchInv, SwitchCounted PROVE Switch!SwitchTypeOK
<1> DEFINE most == 2 * MaxAsks
           Bounded == [device : Devices, push : BOOLEAN, id : 1 .. most, shell : 0 .. most,
                       phase : {"loading", "starting", "again", "over"}]
<1>1. most \in Nat /\ latest <= most /\ shell <= most /\ latest \in Nat /\ shell \in Nat
  <2>1. /\ latest \in Nat /\ shell \in Nat /\ Len(asks) \in Nat
        /\ Cardinality(Unstarted) \in Nat /\ Cardinality(Underway) \in Nat
      BY SwitchNumbers
  <2>2. Len(asks) <= MaxAsks /\ MaxAsks \in Nat
      BY BrowserAssumption DEF SwitchCounted
  <2>3. /\ latest + Cardinality(Unstarted) <= 2 * Len(asks)
        /\ shell + Cardinality(Underway) <= Len(asks)
      BY DEF SwitchCounted
  <2> QED
      BY <2>1, <2>2, <2>3
<1> HIDE DEF most
<1>2. ASSUME NEW k \in DOMAIN asks PROVE asks[k] \in Bounded
  <2>1. asks[k] \in Asked /\ asks[k].id \in 1 .. most /\ asks[k].shell \in 0 .. most
      BY <1>1, SwitchNumbers DEF SwitchCounted, SwitchInv, NumbersInv
  <2> QED
      BY <2>1 DEF Asked
<1>3. asks \in Seq(Bounded)
  <2> HIDE DEF Bounded
  <2> QED
      BY <1>2, SwitchNumbers
<1>4. latest \in 0 .. most /\ shell \in 0 .. most
    BY <1>1
<1> QED
    BY <1>3, <1>4 DEF most, SwitchInv, SwitchTypes, Switch!SwitchTypeOK

\* The inductive invariant of the page: each part's own.
PageInv ==
    /\ TouchInv /\ Gateway!GatewayTypeOK /\ MotionInv /\ Preview!PreviewTypeOK
    /\ SwitchInv /\ SwitchCounted /\ Socket!ExecTypeOK /\ SettingInv
    /\ RecordingInv /\ loaded \in BOOLEAN

\* Every variable of the page's eight parts has its type at any number of devices, helpers,
\* requests and recorders, and every counter stays in its range: a click asks for a simulator
\* at most twice and mounts at most one shell, a connection follows a helper that exists, and
\* a recorder that is over holds no picture.  (transport.ts, device-motion.ts, middleware.ts,
\* client.tsx, exec.ts, latest-wins.ts, use-screen-recording.ts)
THEOREM PageTypes == PartsSpec => []PartsTypeOK
<1>1. PartsInit => PageInv
  <2> SUFFICES ASSUME PartsInit PROVE PageInv
      OBVIOUS
  <2>1. TouchInv /\ MotionInv /\ SettingInv /\ SwitchInv /\ RecordingInv
      BY TouchInitInv, MotionInitInv, SettingInitInv, SwitchInitInv, RecordingInitInv DEF PartsInit
  <2>2. /\ Gateway!GatewayTypeOK /\ Preview!PreviewTypeOK /\ Socket!ExecTypeOK /\ SwitchCounted
      BY GatewayInitTypes, PreviewInitTypes, SocketInitTypes, SwitchInitCounted DEF PartsInit
  <2>3. loaded \in BOOLEAN
      BY DEF PartsInit, Recording!Init
  <2> QED
      BY <2>1, <2>2, <2>3 DEF PageInv
<1>2. PageInv /\ [PartsNext]_<<part, touch, gateway, motion, preview, switch, socket, setting, recording>>
        => PageInv'
  <2> SUFFICES ASSUME PageInv, [PartsNext]_<<part, touch, gateway, motion, preview, switch, socket, setting, recording>>
               PROVE  PageInv'
      OBVIOUS
  <2>1. TouchInv' /\ MotionInv' /\ SettingInv' /\ SwitchInv' /\ RecordingInv'
      BY PartSteps, TouchNextKeeps, MotionNextKeeps, SettingNextKeeps, SwitchNextKeeps,
         RecordingNextKeeps DEF PageInv
  <2>2. Gateway!GatewayTypeOK' /\ Preview!PreviewTypeOK' /\ Socket!ExecTypeOK'
      BY PartSteps, GatewayNextKeeps, PreviewNextKeeps, SocketNextKeeps DEF PageInv
  <2>3. SwitchCounted' /\ loaded' \in BOOLEAN
      BY PartSteps, SwitchNextCounted, LoadedKeeps DEF PageInv
  <2> QED
      BY <2>1, <2>2, <2>3 DEF PageInv
<1>3. PageInv => PartsTypeOK
  <2> SUFFICES ASSUME PageInv PROVE PartsTypeOK
      OBVIOUS
  <2>1. Touch!TouchTypeOK /\ Motion!MotionTypeOK
      BY DEF PageInv, TouchInv, MotionInv
  <2>2. Switch!SwitchTypeOK /\ Setting!SettingsTypeOK /\ Recording!TypeOK
      BY SwitchTyped, SettingTyped, RecordingTyped DEF PageInv
  <2> QED
      BY <2>1, <2>2 DEF PageInv, PartsTypeOK
<1> QED
    BY <1>1, <1>2, <1>3, PTL DEF PartsSpec
============================================================================
