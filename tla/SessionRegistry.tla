--------------------------- MODULE SessionRegistry ---------------------------
(***************************************************************************)
(* SessionRegistry (session.ts): one session per chat, found, created or     *)
(* re-keyed by the requests that acquire it, several at a time.  A request   *)
(* starts at most one creation, so a creation, its connection and its session *)
(* bear the name of the request that started it.                             *)
(***************************************************************************)
EXTENDS Naturals

CONSTANTS
  Requests,      \* the HTTP requests that acquire a session, each once
  Chats,
  Keys,          \* the session keys their routings ask for
  None

ASSUME SessionRegistryAssumption == None \notin Requests

VARIABLES
  sessions,    \* the registered session of each chat
  inflight,    \* the pending creation of each chat
  connection,  \* the connection each request made
  request      \* each acquire: its routing, and the promise it waits on or was given

vars == <<sessions, inflight, connection, request>>

Acquire == [state : {"new", "waiting", "given", "failed"},
            chat : Chats, key : Keys, on : Requests \cup {None}]

TypeOK ==
  /\ sessions \in [Chats -> Requests \cup {None}]
  /\ inflight \in [Chats -> Requests \cup {None}]
  /\ connection \in [Requests -> {"none", "connecting", "open", "failed", "closed"}]
  /\ request \in [Requests -> Acquire]
  /\ \A r \in Requests : request[r].state \in {"waiting", "given"} => request[r].on # None

(* A request comes with the routing it will ask for.                         *)
Init ==
  /\ sessions = [c \in Chats |-> None]
  /\ inflight = [c \in Chats |-> None]
  /\ connection = [r \in Requests |-> "none"]
  /\ request \in [Requests -> {a \in Acquire : a.state = "new" /\ a.on = None}]

-----------------------------------------------------------------------------
(* acquire *)

ChatOf(r) == request[r].chat
KeyOf(r) == request[r].key

IsOpen(s) == s # None /\ connection[s] = "open"

(* The session for request r is there, live, with its key.                   *)
Matches(r) ==
  LET existing == sessions[ChatOf(r)] IN IsOpen(existing) /\ KeyOf(existing) = KeyOf(r)

WaitsOn(r, s) == request' = [request EXCEPT ![r].state = "waiting", ![r].on = s]
Gets(r, s) == request' = [request EXCEPT ![r].state = "given", ![r].on = s]

(* Mutant: the session of the old key is dropped without being closed. *)
DroppedOpen(r) == connection

(* What the drop of a session with another key, or a dead one, leaves.       *)
Dropped(r) ==
  IF IsOpen(sessions[ChatOf(r)])
    THEN [connection EXCEPT ![sessions[ChatOf(r)]] = "closed"]
    ELSE connection

(* The rest of acquire for a request that found no session it can take: it   *)
(* joins the pending creation, whatever the key of that one, or starts one.   *)
Joins(r) ==
  LET c == ChatOf(r)
  IN /\ sessions' = [sessions EXCEPT ![c] = None]
     /\ \/ /\ inflight[c] # None
           /\ connection' = Dropped(r)
           /\ WaitsOn(r, inflight[c])
           /\ UNCHANGED inflight
        \/ /\ inflight[c] = None
           /\ connection' = [Dropped(r) EXCEPT ![r] = "connecting"]
           /\ WaitsOn(r, r)
           /\ inflight' = [inflight EXCEPT ![c] = r]

Acquires(r) ==
  \/ /\ Matches(r)
     /\ Gets(r, sessions[ChatOf(r)])
     /\ UNCHANGED <<sessions, inflight, connection>>
  \/ ~Matches(r) /\ Joins(r)

-----------------------------------------------------------------------------
(* A settled promise runs all its continuations before the event loop turns  *)
(* to the next request, frame or signal.                                     *)
Settled(s) == connection[s] # "connecting"
Resuming == {r \in Requests : request[r].state = "waiting" /\ Settled(request[r].on)}
Idle == Resuming = {}

Arrives(r) ==
  /\ Idle
  /\ request[r].state = "new"
  /\ Acquires(r)

(* Mutant: the pending creation is forgotten only when it fails. *)
ConnectsKeepingPending(s) ==
  /\ Idle
  /\ connection[s] = "connecting"
  /\ connection' = [connection EXCEPT ![s] = "open"]
  /\ sessions' = [sessions EXCEPT ![ChatOf(s)] = s]
  /\ UNCHANGED <<inflight, request>>

(* create: the session is registered, and the pending creation forgotten.    *)
Connects(s) ==
  /\ Idle
  /\ connection[s] = "connecting"
  /\ connection' = [connection EXCEPT ![s] = "open"]
  /\ sessions' = [sessions EXCEPT ![ChatOf(s)] = s]
  /\ inflight' = [inflight EXCEPT ![ChatOf(s)] = None]
  /\ UNCHANGED request

(* Mutant: the pending creation is forgotten only when it succeeds. *)
ConnectFailsKeepingPending(s) ==
  /\ Idle
  /\ connection[s] = "connecting"
  /\ connection' = [connection EXCEPT ![s] = "failed"]
  /\ UNCHANGED <<sessions, inflight, request>>

ConnectFails(s) ==
  /\ Idle
  /\ connection[s] = "connecting"
  /\ connection' = [connection EXCEPT ![s] = "failed"]
  /\ inflight' = [inflight EXCEPT ![ChatOf(s)] = None]
  /\ UNCHANGED <<sessions, request>>

(* Mutant: a waiter takes the session whatever its key. *)
ResumesAnyKey(r) ==
  LET s == request[r].on
  IN /\ r \in Resuming
     /\ IF connection[s] = "failed"
          THEN request' = [request EXCEPT ![r].state = "failed"]
          ELSE Gets(r, s)
     /\ UNCHANGED <<sessions, inflight, connection>>

(* Mutant: a waiter swallows the failure of the creation. *)
ResumesSwallowing(r) ==
  LET s == request[r].on
  IN /\ r \in Resuming
     /\ \/ /\ connection[s] = "failed"
           /\ Gets(r, None)
           /\ UNCHANGED <<sessions, inflight, connection>>
        \/ /\ connection[s] # "failed" /\ KeyOf(s) = KeyOf(r)
           /\ Gets(r, s)
           /\ UNCHANGED <<sessions, inflight, connection>>
        \/ connection[s] # "failed" /\ KeyOf(s) # KeyOf(r) /\ Acquires(r)

(* The continuation of an acquire: the failure of the creation is its own     *)
(* failure, a session of its key is its own even if another waiter has closed *)
(* it meanwhile, and for one of another key it acquires again.                *)
Resumes(r) ==
  LET s == request[r].on
  IN /\ r \in Resuming
     /\ \/ /\ connection[s] = "failed"
           /\ request' = [request EXCEPT ![r].state = "failed"]
           /\ UNCHANGED <<sessions, inflight, connection>>
        \/ /\ connection[s] # "failed" /\ KeyOf(s) = KeyOf(r)
           /\ Gets(r, s)
           /\ UNCHANGED <<sessions, inflight, connection>>
        \/ connection[s] # "failed" /\ KeyOf(s) # KeyOf(r) /\ Acquires(r)

(* The gateway goes away: the session stays registered until the next acquire. *)
PeerCloses(s) ==
  /\ Idle
  /\ connection[s] = "open"
  /\ connection' = [connection EXCEPT ![s] = "closed"]
  /\ UNCHANGED <<sessions, inflight, request>>

(* closeAll, at shutdown: a creation in flight is not among the sessions.     *)
CloseAll ==
  /\ Idle
  /\ connection' = [s \in Requests |->
                      IF connection[s] = "open" /\ sessions[ChatOf(s)] = s
                        THEN "closed" ELSE connection[s]]
  /\ sessions' = [c \in Chats |-> None]
  /\ UNCHANGED <<inflight, request>>

Next ==
  \/ \E r \in Requests :
       \/ Arrives(r) \/ Resumes(r)
       \/ Connects(r) \/ ConnectFails(r) \/ PeerCloses(r)
  \/ CloseAll

(* A handshake settles (ConnectSettles in GatewayConnection), and a settled   *)
(* promise runs its continuations.                                           *)
Fairness ==
  \A r \in Requests : WF_vars(Connects(r) \/ ConnectFails(r)) /\ WF_vars(Resumes(r))

Spec == Init /\ [][Next]_vars /\ Fairness

-----------------------------------------------------------------------------
(* Properties *)

(* At most one live connection per chat, and it is the registered one, so a   *)
(* re-keyed chat is not written to by the loop of its old key as well.         *)
OneLivePerChat ==
  \A s \in Requests : connection[s] = "open" => sessions[ChatOf(s)] = s

(* The creations under way are exactly the pending ones, so one per chat, and *)
(* a failed one does not stay behind to fail every later acquire.             *)
PendingIsConnecting ==
  \A s \in Requests : connection[s] = "connecting" <=> inflight[ChatOf(s)] = s

(* However acquires wait, join and re-key, nobody is given the session of     *)
(* another chat or key.                                                       *)
OwnKey ==
  \A r \in Requests : request[r].state = "given" =>
    KeyOf(request[r].on) = KeyOf(r) /\ ChatOf(request[r].on) = ChatOf(r)

(* Every acquire comes to an end, one that waits for creations of other keys   *)
(* included.                                                                  *)
AcquireSettles ==
  \A r \in Requests : request[r].state = "waiting" ~> request[r].state \in {"given", "failed"}
=============================================================================
