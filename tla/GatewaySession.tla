--------------------------- MODULE GatewaySession ---------------------------
(***************************************************************************)
(* The requests of GatewayTransport (transport.ts) and the heartbeat that  *)
(* ends a connection gone silent: exec and the file operations put an      *)
(* entry in a map and send; an answer, a relay error, the inactivity timer *)
(* of a file operation or the socket's close event takes it out.  The      *)
(* gateway and the network are the environment: the link may die without   *)
(* a close event, the relay may report its upstream gone.                  *)
(***************************************************************************)
EXTENDS FiniteSets

CONSTANTS Execs,  \* the calls of exec
          Files   \* the calls of readFile and writeFile

VARIABLES
  conn,      \* the socket: "connecting", "open", "closing" or "closed"
  link,      \* what is sent arrives: "up" or "dead"
  request,   \* call -> "idle", "pending" (its entry is in the map), "settled"
  arrived,   \* the calls whose message reached the gateway
  timeout,   \* _heartbeatTimeout is set
  ponged,    \* a pong is on its way to the page
  heartbeat  \* _heartbeatEnabled: an option of the constructor, on by default

gvars == <<conn, link, request, arrived, timeout, ponged, heartbeat>>

Calls == Execs \cup Files

GatewayInit ==
  /\ conn = "connecting" /\ link = "up"
  /\ request = [c \in Calls |-> "idle"]
  /\ arrived = {} /\ timeout = FALSE /\ ponged = FALSE /\ heartbeat \in BOOLEAN

Settle(calls) == request' = [c \in Calls |-> IF c \in calls THEN "settled" ELSE request[c]]
Pending == {c \in Calls : request[c] = "pending"}

Open == /\ conn = "connecting" /\ conn' = "open"
        /\ UNCHANGED <<link, request, arrived, timeout, ponged, heartbeat>>

\* exec, readFile, writeFile: callers hold the transport once it opened.  On
\* a socket that is not open the message is discarded by the browser.
Call(c) ==
  /\ conn # "connecting" /\ request[c] = "idle"
  /\ request' = [request EXCEPT ![c] = "pending"]
  /\ arrived' = IF conn = "open" /\ link = "up" THEN arrived \cup {c} ELSE arrived
  /\ UNCHANGED <<conn, link, timeout, ponged, heartbeat>>

\* exec:done, exec:error, file:done, file:error; one for a call no longer in
\* the map is ignored.
Answer(c) ==
  /\ c \in arrived /\ conn = "open" /\ link = "up"
  /\ arrived' = arrived \ {c}
  /\ Settle({c} \cap Pending)
  /\ UNCHANGED <<conn, link, timeout, ponged, heartbeat>>

\* relay:error, relay:upstream_disconnected: every call fails.
RelayError ==
  /\ conn = "open" /\ link = "up" /\ Pending # {}
  /\ Settle(Pending)
  /\ UNCHANGED <<conn, link, arrived, timeout, ponged, heartbeat>>

\* No data for a file operation within the inactivity timeout.
FileTimeout(c) ==
  /\ c \in Files \cap Pending
  /\ Settle({c})
  /\ UNCHANGED <<conn, link, arrived, timeout, ponged, heartbeat>>

\* Mutant: a ping that does not time its pong.
PingUntimed ==
  /\ heartbeat /\ conn = "open"
  /\ ponged' = (ponged \/ link = "up")
  /\ UNCHANGED <<conn, link, request, arrived, timeout, heartbeat>>

\* The interval of an enabled heartbeat: a ping, and a timeout unless one is set.
Ping ==
  /\ heartbeat /\ conn = "open"
  /\ timeout' = TRUE /\ ponged' = (ponged \/ link = "up")
  /\ UNCHANGED <<conn, link, request, arrived, heartbeat>>

\* Only a pong clears the timeout, whatever else arrives meanwhile.
Pong ==
  /\ ponged /\ conn = "open" /\ link = "up"
  /\ ponged' = FALSE /\ timeout' = FALSE
  /\ UNCHANGED <<conn, link, request, arrived, heartbeat>>

HeartbeatTimeout ==
  /\ timeout
  /\ timeout' = FALSE /\ conn' = IF conn = "open" THEN "closing" ELSE conn
  /\ UNCHANGED <<link, request, arrived, ponged, heartbeat>>

\* close(): stops the heartbeat, leaves the calls to the close event.
Close ==
  /\ conn = "open" /\ conn' = "closing" /\ timeout' = FALSE
  /\ UNCHANGED <<link, request, arrived, ponged, heartbeat>>

\* The close event: after a close of ours, a failed handshake or a drop.
Closed ==
  /\ conn # "closed" /\ conn' = "closed"
  /\ Settle(Pending) /\ timeout' = FALSE
  /\ UNCHANGED <<link, arrived, ponged, heartbeat>>

LinkDies == /\ link = "up" /\ link' = "dead"
            /\ UNCHANGED <<conn, request, arrived, timeout, ponged, heartbeat>>

GatewayNext ==
  \/ Open \/ RelayError \/ Ping \/ Pong \/ HeartbeatTimeout \/ Close \/ Closed \/ LinkDies
  \/ \E c \in Calls : Call(c) \/ Answer(c) \/ FileTimeout(c)

\* Timers fire and a socket being closed closes; nobody has to answer.
GatewayFairness ==
  /\ WF_gvars(Ping) /\ WF_gvars(HeartbeatTimeout)
  /\ WF_gvars(conn = "closing" /\ Closed)
  /\ \A c \in Files : WF_gvars(FileTimeout(c))

GatewaySpec == GatewayInit /\ [][GatewayNext]_gvars /\ GatewayFairness

-----------------------------------------------------------------------------
\* Types of the variables.
GatewayTypeOK ==
  /\ conn \in {"connecting", "open", "closing", "closed"} /\ link \in {"up", "dead"}
  /\ request \in [Calls -> {"idle", "pending", "settled"}]
  /\ arrived \subseteq Calls /\ timeout \in BOOLEAN /\ ponged \in BOOLEAN /\ heartbeat \in BOOLEAN

\* An exec only its gateway can settle: it has the call, or no heartbeat looks
\* whether it can still be reached (execs have no timer of their own).
LeftToGateway(c) ==
  c \in Execs /\ (~heartbeat \/ (c \in arrived /\ link = "up"))

(***************************************************************************)
(* A call made before the socket closed settles, even when the link dies   *)
(* without a close event: the heartbeat then closes the socket and the     *)
(* close event rejects what the maps still hold (transport.ts:231-255,     *)
(* 831-848).  What may stay pending is an exec a live gateway never        *)
(* answers, or any exec without the heartbeat.  Not so an exec made after  *)
(* the close: nothing settles it.                                          *)
(***************************************************************************)
CallsSettle ==
  \A c \in Calls :
    (request[c] = "pending" /\ conn \in {"open", "closing"})
      ~> (request[c] = "settled" \/ []LeftToGateway(c))
=============================================================================
