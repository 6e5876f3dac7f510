--------------------------- MODULE TouchThrottle ---------------------------
(***************************************************************************)
(* streamTouch and streamMultiTouch of GatewayTransport (transport.ts):    *)
(* moves are throttled to one per 30 ms, the newest one waiting on a       *)
(* timer; a begin forgets the waiting move, an end flushes it.  The two    *)
(* kinds of touch run the same code on state of their own, so a channel    *)
(* is one of them.  An event is named by its place in its channel.         *)
(***************************************************************************)
EXTENDS Naturals, Sequences

CONSTANTS Channels,   \* single touch and multi touch
          MaxEvents   \* bound: events of one channel

VARIABLES
  touchSeq,   \* the number given to the channel's newest event
  down,       \* the finger is on the screen, as the caller says it
  waiting,    \* pendingTouch: the event whose move waits on the timer, or 0
  elapsed,    \* 30 ms have passed since the channel last sent
  congested,  \* bufferedAmount > BACKPRESSURE_BYTES
  closed,     \* close() was called
  wire        \* what the channel sent: [type, seq, event]

tvars == <<touchSeq, down, waiting, elapsed, congested, closed, wire>>

Message(type, seq, event) == [type |-> type, seq |-> seq, event |-> event]

TouchInit ==
  /\ touchSeq = [c \in Channels |-> 0]
  /\ down = [c \in Channels |-> FALSE]
  /\ waiting = [c \in Channels |-> 0]
  /\ elapsed = [c \in Channels |-> TRUE]
  /\ congested = FALSE /\ closed = FALSE
  /\ wire = [c \in Channels |-> <<>>]

\* The caller hands over an event of channel c.
Arrives(c) == /\ ~closed /\ touchSeq[c] < MaxEvents
              /\ touchSeq' = [touchSeq EXCEPT ![c] = @ + 1]
              /\ UNCHANGED <<congested, closed>>

\* A message of channel c goes out and restarts its 30 ms.
SendNow(c, message) == /\ wire' = [wire EXCEPT ![c] = Append(@, message)]
                       /\ elapsed' = [elapsed EXCEPT ![c] = FALSE]

\* A press: the move still waiting belongs to a gesture that is over.
Begin(c) ==
  /\ Arrives(c)
  /\ down' = [down EXCEPT ![c] = TRUE]
  /\ waiting' = [waiting EXCEPT ![c] = 0]
  /\ SendNow(c, Message("begin", touchSeq'[c], touchSeq'[c]))

\* A move under backpressure takes the waiting one's place or is dropped.
MoveCongested(c) ==
  /\ Arrives(c) /\ down[c] /\ congested
  /\ waiting' = [waiting EXCEPT ![c] = IF @ = 0 THEN 0 ELSE touchSeq'[c]]
  /\ UNCHANGED <<down, elapsed, wire>>

\* A move later than 30 ms after the last message replaces the waiting one.
MoveNow(c) ==
  /\ Arrives(c) /\ down[c] /\ ~congested /\ elapsed[c]
  /\ waiting' = [waiting EXCEPT ![c] = 0]
  /\ SendNow(c, Message("move", touchSeq'[c], touchSeq'[c]))
  /\ UNCHANGED down

\* A move within the 30 ms waits, in place of any earlier one.
MoveWaits(c) ==
  /\ Arrives(c) /\ down[c] /\ ~congested /\ ~elapsed[c]
  /\ waiting' = [waiting EXCEPT ![c] = touchSeq'[c]]
  /\ UNCHANGED <<down, elapsed, wire>>

\* Mutant: the number of the end is taken before the flush.
FlushedLate(c) == IF waiting[c] = 0 THEN <<>>
                  ELSE <<Message("move", touchSeq'[c], waiting[c])>>

\* The waiting move, with the number it is sent under: that of the newest event.
Flushed(c) == IF waiting[c] = 0 THEN <<>>
              ELSE <<Message("move", touchSeq[c], waiting[c])>>

\* A release flushes the waiting move, then takes the next number.
End(c) ==
  /\ Arrives(c) /\ down[c]
  /\ down' = [down EXCEPT ![c] = FALSE]
  /\ waiting' = [waiting EXCEPT ![c] = 0]
  /\ elapsed' = [elapsed EXCEPT ![c] = @ /\ waiting[c] = 0]
  /\ wire' = [wire EXCEPT ![c] = @ \o Flushed(c) \o <<Message("end", touchSeq'[c], touchSeq'[c])>>]

\* The timer of the waiting move runs.
Timer(c) ==
  /\ waiting[c] # 0 /\ elapsed[c] /\ ~closed
  /\ wire' = [wire EXCEPT ![c] = @ \o Flushed(c)]
  /\ waiting' = [waiting EXCEPT ![c] = 0]
  /\ elapsed' = [elapsed EXCEPT ![c] = FALSE]
  /\ UNCHANGED <<touchSeq, down, congested, closed>>

\* 30 ms pass on channel c without a message.
Elapse(c) == /\ ~elapsed[c] /\ elapsed' = [elapsed EXCEPT ![c] = TRUE]
             /\ UNCHANGED <<touchSeq, down, waiting, congested, closed, wire>>

\* The socket's send buffer fills or drains.
Congestion == /\ congested' = ~congested
              /\ UNCHANGED <<touchSeq, down, waiting, elapsed, closed, wire>>

\* close(): both waiting moves are forgotten.
CloseTouch == /\ ~closed /\ closed' = TRUE
              /\ waiting' = [c \in Channels |-> 0]
              /\ UNCHANGED <<touchSeq, down, elapsed, congested, wire>>

TouchNext ==
  \/ \E c \in Channels : \/ Begin(c) \/ MoveCongested(c) \/ MoveNow(c) \/ MoveWaits(c)
                         \/ End(c) \/ Timer(c) \/ Elapse(c)
  \/ Congestion \/ CloseTouch

TouchSpec == TouchInit /\ [][TouchNext]_tvars

-----------------------------------------------------------------------------
Messages == [type : {"begin", "move", "end"}, seq : 1..MaxEvents, event : 1..MaxEvents]

\* Types of the variables.
TouchTypeOK ==
  /\ touchSeq \in [Channels -> 0..MaxEvents]
  /\ waiting \in [Channels -> 0..MaxEvents]
  /\ down \in [Channels -> BOOLEAN] /\ elapsed \in [Channels -> BOOLEAN]
  /\ congested \in BOOLEAN /\ closed \in BOOLEAN
  /\ wire \in [Channels -> Seq(Messages)]

(***************************************************************************)
(* What a channel puts on the wire reads as gestures: numbers strictly     *)
(* rise, each message carries the number of its own event, and after a     *)
(* release comes nothing but a press, whatever the timer, the backpressure *)
(* and the flush of the release do meanwhile (transport.ts:541-543).       *)
(***************************************************************************)
WireInOrder ==
  \A c \in Channels : \A i \in 1..Len(wire[c]) :
    /\ wire[c][i].seq = wire[c][i].event
    /\ i > 1 => /\ wire[c][i].seq > wire[c][i - 1].seq
                /\ wire[c][i - 1].type = "end" => wire[c][i].type = "begin"
=============================================================================
