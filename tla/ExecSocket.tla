----------------------------- MODULE ExecSocket -----------------------------
(***************************************************************************)
(* The page's control socket (client/utils/exec.ts) and its server side    *)
(* (exec-ws.ts).  Requests share one cached connection; an attempt that    *)
(* fails fetches the server's current token and connects once more.  The   *)
(* server restarts with a fresh token, a handshake may hang, and a socket  *)
(* may go down with an error and a close, or with a close alone.           *)
(***************************************************************************)
EXTENDS Naturals, Sequences, FiniteSets

CONSTANTS Requests,     \* the requests, each made once
          MaxRestarts   \* bound: restarts of the preview server

VARIABLES
  cache,     \* socketPromise: the number of an attempt, 0 when there is none
  attempts,  \* openExecSocket's attempts: [phase, token]
  request,   \* [state, at]: where each request is, and on which attempt
  page,      \* __SIM_PREVIEW__.execToken
  minted     \* the token of the server that runs now

evars == <<cache, attempts, request, page, minted>>

Phases == {"first", "refresh", "second", "open", "closing", "failed", "down"}
States == {"idle", "waiting", "sent", "settled"}

ExecInit ==
  /\ cache = 0 /\ attempts = <<>> /\ page = 0 /\ minted = 0
  /\ request = [r \in Requests |-> [state |-> "idle", at |-> 0]]

Becomes(r, state, k) == request' = [request EXCEPT ![r] = [state |-> state, at |-> k]]
Enters(k, phase, token) ==
  attempts' = [attempts EXCEPT ![k] = [phase |-> phase, token |-> token]]

\* socketRequest: waits for the cached attempt, or begins one.
Call(r) ==
  /\ request[r].state = "idle"
  /\ IF cache = 0
     THEN /\ cache' = Len(attempts) + 1
          /\ attempts' = Append(attempts, [phase |-> "first", token |-> page])
     ELSE UNCHANGED <<cache, attempts>>
  /\ Becomes(r, "waiting", cache')
  /\ UNCHANGED <<page, minted>>

\* The server knows the token and answers ready; it may also never do so.
Accepted(k) ==
  /\ attempts[k].phase \in {"first", "second"} /\ attempts[k].token = minted
  /\ Enters(k, "open", minted)
  /\ UNCHANGED <<cache, request, page, minted>>

\* The catch of openExecSocket: the cache is dropped, the waiting rejected.
Failed(k) ==
  /\ Enters(k, "failed", attempts[k].token) /\ cache' = 0
  /\ request' = [r \in Requests |->
       IF request[r].state = "waiting" /\ request[r].at = k
       THEN [state |-> "settled", at |-> k] ELSE request[r]]

\* Mutant: no connect timer; only a refusal ends an attempt.
GivesUpRefused(k) == attempts[k].token # minted

\* A refusal, an error, or the connect timer, whatever the server does.
GivesUp(k) == TRUE

\* The attempt fails: the first one refreshes the token, the second is over.
ConnectFails(k) ==
  /\ GivesUp(k)
  /\ \/ /\ attempts[k].phase = "first" /\ Enters(k, "refresh", attempts[k].token)
        /\ UNCHANGED <<cache, request>>
     \/ attempts[k].phase = "second" /\ Failed(k)
  /\ UNCHANGED <<page, minted>>

\* fetchLiveExecToken returns the live token, or nothing in mid-restart.
Refreshed(k) ==
  /\ attempts[k].phase = "refresh"
  /\ \/ /\ page' = minted
        /\ IF minted # attempts[k].token
           THEN Enters(k, "second", minted) /\ UNCHANGED <<cache, request>>
           ELSE Failed(k)
     \/ Failed(k) /\ UNCHANGED page
  /\ UNCHANGED minted

\* The request goes on in a later microtask: sent if the socket is still open.
Sends(r) ==
  /\ request[r].state = "waiting"
  /\ LET k == request[r].at IN
     /\ attempts[k].phase \in {"open", "closing", "down"}
     /\ Becomes(r, IF attempts[k].phase = "open" THEN "sent" ELSE "settled", k)
  /\ UNCHANGED <<cache, attempts, page, minted>>

\* The reply of the server, or the caller's abort.
Reply(r) ==
  /\ request[r].state = "sent" /\ Becomes(r, "settled", request[r].at)
  /\ UNCHANGED <<cache, attempts, page, minted>>
Answered(r) ==
  /\ Reply(r)
  /\ LET k == request[r].at IN attempts[k].phase = "open" /\ attempts[k].token = minted

\* rejectAllPending: every request sent, on whichever socket.
Rejected == [r \in Requests |->
  IF request[r].state = "sent" THEN [request[r] EXCEPT !.state = "settled"] ELSE request[r]]

\* onDown of an authenticated socket: twice when an error comes first.
Down(k) ==
  /\ \/ attempts[k].phase = "open" /\ \E p \in {"closing", "down"} : Enters(k, p, attempts[k].token)
     \/ attempts[k].phase = "closing" /\ Enters(k, "down", attempts[k].token)
  /\ cache' = 0 /\ request' = Rejected
  /\ UNCHANGED <<page, minted>>

\* The server restarts and mints another token; its sockets will go down.
Restart ==
  /\ minted < MaxRestarts /\ minted' = minted + 1
  /\ UNCHANGED <<cache, attempts, request, page>>

ExecNext ==
  \/ \E r \in Requests : Call(r) \/ Sends(r) \/ Reply(r)
  \/ \E k \in DOMAIN attempts :
       Accepted(k) \/ ConnectFails(k) \/ Refreshed(k) \/ Down(k)
  \/ Restart

Some(k, A(_)) == k \in DOMAIN attempts /\ A(k)
Gone(k) == attempts[k].token # minted \/ attempts[k].phase = "closing"

(***************************************************************************)
(* The connect timer ends an attempt; a live server answers what it was    *)
(* sent; the sockets of a dead one go down.  Nothing else is promised: a   *)
(* handshake with a live server may hang, and so may the fetch of the      *)
(* token, which has no timer (exec.ts:73-92) and needs one of the          *)
(* connections that other tabs may hold (exec.ts:28-31).                   *)
(***************************************************************************)
ExecFairness ==
  /\ \A r \in Requests : WF_evars(Sends(r)) /\ WF_evars(Answered(r))
  /\ \A k \in 1..Cardinality(Requests) :
       /\ WF_evars(Some(k, ConnectFails))
       /\ WF_evars(k \in DOMAIN attempts /\ Gone(k) /\ Down(k))

ExecSpec == ExecInit /\ [][ExecNext]_evars /\ ExecFairness

-----------------------------------------------------------------------------
\* Types of the variables.
ExecTypeOK ==
  /\ cache \in 0..Len(attempts) /\ page \in 0..MaxRestarts /\ minted \in 0..MaxRestarts
  /\ attempts \in Seq([phase : Phases, token : 0..MaxRestarts])
  /\ request \in [Requests -> [state : States, at : 0..Len(attempts)]]

(***************************************************************************)
(* "a hung connection must not stall every request behind it"              *)
(* (exec.ts:113-114), and one sent to a server that restarts is rejected,  *)
(* by whichever of two sockets goes down: a request settles, or it waits   *)
(* for ever behind a fetch of the token that does not end.                 *)
(***************************************************************************)
Settled(r) == request[r].state \in {"idle", "settled"}
Refreshing(r) == request[r].state = "waiting" /\ attempts[request[r].at].phase = "refresh"
OnlyRefreshStalls == \A r \in Requests : []<>Settled(r) \/ <>[]Refreshing(r)

(***************************************************************************)
(* Without the exception it does not hold: nothing bounds the fetch, and   *)
(* the caller's abort counts only once the socket is open (exec.ts:180).   *)
(***************************************************************************)
RequestsSettle == \A r \in Requests : []<>Settled(r)
=============================================================================
