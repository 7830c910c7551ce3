----------------------------- MODULE GatewayCalls -----------------------------
(***************************************************************************)
(* What the HTTP routes of server.ts share: each handler awaits one request  *)
(* at a time (OpenClawConnection.request, or a POST to Convex), and answers   *)
(* its caller once.  The gateway serves a request at some moment or never;    *)
(* the answer, the request's timer and the loss of the connection race, and   *)
(* a request nobody waits for any more may still be served.                   *)
(* A connection bears the name of the handler that opened it.                 *)
(***************************************************************************)
EXTENDS Naturals

CONSTANTS
  Handlers,      \* the HTTP requests, each once
  None

ASSUME GatewayCallsAssumption ==
  /\ None \notin Handlers
  /\ None \notin {"GATEWAY_DISCONNECTED", "GATEWAY_TIMEOUT", "UPSTREAM_ERROR", "base hash"}
  /\ None # [error |-> None, value |-> None]

VARIABLES
  up,      \* whether the gateway takes connections
  link,    \* the connection each handler opened; "killed" by a restart
  call,    \* the request each handler awaits, and its answer once served
  late,    \* the requests given up before they were served
  step,    \* what each handler awaits
  reply    \* the HTTP status each handler answered

callVars == <<up, link, call, late, step, reply>>

NoCall == [on |-> None, request |-> None, answer |-> None]

CallsTypeOK ==
  /\ up \in BOOLEAN
  /\ link \in [Handlers -> {"none", "open", "lost", "killed", "closed"}]
  /\ DOMAIN call = Handlers
  /\ \A h \in Handlers : call[h].on \in Handlers \cup {None}
  /\ \A l \in late : l.by \in Handlers
  /\ DOMAIN step = Handlers
  /\ reply \in [Handlers -> {"none", "pending", "200", "409", "502"}]
  /\ \A h \in Handlers : reply[h] # "pending" => call[h] = NoCall

CallsInit ==
  /\ up = TRUE
  /\ link = [h \in Handlers |-> "none"]
  /\ call = [h \in Handlers |-> NoCall]
  /\ late = {}
  /\ step = [h \in Handlers |-> "new"]
  /\ reply = [h \in Handlers |-> "none"]

-----------------------------------------------------------------------------
(* The handlers *)

Arrives(h, s) ==
  /\ reply[h] = "none"
  /\ reply' = [reply EXCEPT ![h] = "pending"]
  /\ step' = [step EXCEPT ![h] = s]

(* The handler goes on to await r, on connection l (None: a POST to Convex).  *)
Asks(h, s, l, r) ==
  /\ call' = [call EXCEPT ![h] = [on |-> l, request |-> r, answer |-> None]]
  /\ step' = [step EXCEPT ![h] = s]
  /\ UNCHANGED reply

Replies(h, status) ==
  /\ call' = [call EXCEPT ![h] = NoCall]
  /\ step' = [step EXCEPT ![h] = "done"]
  /\ reply' = [reply EXCEPT ![h] = status]

Ok(value) == [error |-> None, value |-> value]
Failed(code) == [error |-> code, value |-> None]

(* The code classifyGatewayError gives what ends an attempt to connect: a     *)
(* refused socket reads as a disconnect, a handshake nobody finishes as a     *)
(* timeout, all else (a refused token, an unsigned challenge) is one code here. *)
ConnectOutcomes ==
  (IF up THEN {Ok(None)} ELSE {}) \cup
  {Failed("GATEWAY_DISCONNECTED"), Failed("GATEWAY_TIMEOUT"), Failed("UPSTREAM_ERROR")}

(* How the await of h may end.  A lost socket that reports ECONNRESET instead  *)
(* of a close has words classifyGatewayError does not know.                    *)
Outcomes(h) ==
  LET c == call[h]
      answered == IF c.answer = None THEN {Failed("UPSTREAM_ERROR")} ELSE {c.answer}
  IN IF c.on = None THEN answered \cup {Failed("UPSTREAM_ERROR")}
     ELSE IF link[c.on] = "open" THEN answered \cup {Failed("GATEWAY_TIMEOUT")}
     ELSE {Failed("GATEWAY_DISCONNECTED"), Failed("UPSTREAM_ERROR")}

ReadMethods == {"agents.files.get", "config.get", "sessions.describe", "getRehydrationContext"}

(* What the gateway may still do for h once h has gone on with outcome o.     *)
LeftBehind(h, o) ==
  LET c == call[h]
      lost == o.error = "GATEWAY_TIMEOUT" \/ link[c.on] = "lost"
  IN IF c.on # None /\ c.answer = None /\ lost /\ c.request.method \notin ReadMethods
       THEN late \cup {[by |-> h, request |-> c.request]}
       ELSE late

-----------------------------------------------------------------------------
(* The gateway *)

(* The request h awaits has reached its server, which has not served it.      *)
Servable(h) ==
  LET c == call[h]
  IN /\ c.request # None /\ c.answer = None
     /\ c.on # None => up /\ link[c.on] = "open"

Served(h, value) == [call EXCEPT ![h].answer = value]

LinkLost(l) ==
  /\ link[l] = "open"
  /\ link' = [link EXCEPT ![l] = "lost"]
  /\ UNCHANGED <<up, call, late, step, reply>>

(* A restart drops every connection and what was waiting to be served.        *)
Restarting ==
  /\ up' = FALSE
  /\ link' = [l \in Handlers |-> IF link[l] = "open" THEN "killed" ELSE link[l]]
  /\ late' = {}

ComesBack ==
  /\ ~up
  /\ up' = TRUE
  /\ UNCHANGED <<link, call, late, step, reply>>
=============================================================================
