-------------------------- MODULE GatewayConnection --------------------------
(***************************************************************************)
(* OpenClawConnection (providers/openclaw/openclaw-client.ts): the          *)
(* challenge handshake against its timeout, requests correlated with their  *)
(* responses, and the queue of inbound frames with the one reader that      *)
(* session.ts keeps on it.  The gateway sends what it likes, when it likes; *)
(* frames are numbered as they arrive.                                      *)
(***************************************************************************)
EXTENDS Naturals, Sequences

CONSTANTS
  Requests,      \* the requests of one connection
  MaxFrames      \* bound: inbound frames

ASSUME GatewayConnectionAssumption == MaxFrames \in Nat

VARIABLES
  phase,       \* awaiting the challenge or the connect answer, open, failed or closed
  socket,      \* whether the peer is still there
  pending,     \* the requests with a correlation entry and a running timer
  request,     \* the promise of each request
  queue,       \* inbound frames nobody has read
  reader,      \* the consumer: between reads, at the waiter, or at the end
  received,    \* the frames the consumer got (no state of the code)
  arrived      \* inbound frames so far (no state of the code)

vars == <<phase, socket, pending, request, queue, reader, received, arrived>>

Handshake == {"challenge", "connect"}

TypeOK ==
  /\ phase \in Handshake \cup {"open", "failed", "closed"}
  /\ socket \in {"up", "down"}
  /\ pending \in SUBSET Requests
  /\ request \in [Requests -> {"none", "waiting", "resolved", "rejected"}]
  /\ queue \in Seq(1 .. MaxFrames)
  /\ reader \in {"idle", "waiting", "done"}
  /\ received \in Seq(1 .. MaxFrames)
  /\ arrived \in 0 .. MaxFrames

Init ==
  /\ phase = "challenge"
  /\ socket = "up"
  /\ pending = {}
  /\ request = [r \in Requests |-> "none"]
  /\ queue = <<>>
  /\ reader = "idle"
  /\ received = <<>>
  /\ arrived = 0

-----------------------------------------------------------------------------
(* connect *)

steady == <<pending, request, queue, reader, received, arrived>>

(* The first frame is the challenge, and it can be signed.                   *)
Challenged ==
  /\ phase = "challenge" /\ socket = "up"
  /\ phase' = "connect"
  /\ UNCHANGED <<socket, steady>>

(* hello-ok; other frames are ignored until it lands.                        *)
Connected ==
  /\ phase = "connect" /\ socket = "up"
  /\ phase' = "open"
  /\ UNCHANGED <<socket, steady>>

(* fail: another first frame, a challenge that cannot be signed, a refusal,  *)
(* or an error of the socket.                                                *)
ConnectFails ==
  /\ phase \in Handshake
  /\ phase' = "failed"
  /\ socket' = "down"
  /\ UNCHANGED steady

(* Mutant: the handshake timer is cleared once the challenge is answered. *)
ChallengeTimesOut ==
  /\ phase = "challenge"
  /\ phase' = "failed"
  /\ socket' = "down"
  /\ UNCHANGED steady

ConnectTimesOut ==
  /\ phase \in Handshake
  /\ phase' = "failed"
  /\ socket' = "down"
  /\ UNCHANGED steady

(* The peer goes away.  During the handshake nothing listens for that.       *)
PeerLeaves ==
  /\ phase \in Handshake \cup {"open"}
  /\ socket = "up"
  /\ socket' = "down"
  /\ UNCHANGED <<phase, steady>>

-----------------------------------------------------------------------------
(* Requests *)

(* On a closed connection a request is rejected at once; on one whose socket *)
(* is gone without a word yet, it is sent all the same.                      *)
Sends(r) ==
  /\ phase \in {"open", "closed"}
  /\ request[r] = "none"
  /\ IF phase = "closed"
       THEN request' = [request EXCEPT ![r] = "rejected"] /\ UNCHANGED pending
       ELSE request' = [request EXCEPT ![r] = "waiting"] /\ pending' = pending \cup {r}
  /\ UNCHANGED <<phase, socket, queue, reader, received, arrived>>

(* A response of any request sent, late or repeated: without an entry it is  *)
(* dropped.                                                                  *)
Responds(r, ok) ==
  /\ phase = "open" /\ socket = "up"
  /\ request[r] # "none"
  /\ IF r \in pending
       THEN /\ pending' = pending \ {r}
            /\ request' = [request EXCEPT ![r] = IF ok THEN "resolved" ELSE "rejected"]
       ELSE UNCHANGED <<pending, request>>
  /\ UNCHANGED <<phase, socket, queue, reader, received, arrived>>

TimesOut(r) ==
  /\ r \in pending
  /\ pending' = pending \ {r}
  /\ request' = [request EXCEPT ![r] = "rejected"]
  /\ UNCHANGED <<phase, socket, queue, reader, received, arrived>>

-----------------------------------------------------------------------------
(* Frames *)

(* Mutant: every frame is queued, the waiter left asleep. *)
PushBehindWaiter(frame) ==
  queue' = Append(queue, frame) /\ UNCHANGED <<reader, received>>

(* push: to the waiter when there is one, else to the queue.                 *)
Push(frame) ==
  IF reader = "waiting"
    THEN reader' = "idle" /\ received' = Append(received, frame) /\ UNCHANGED queue
    ELSE queue' = Append(queue, frame) /\ UNCHANGED <<reader, received>>

(* The reader of the socket is not detached at the end: what the socket has   *)
(* buffered is still pushed after a close.                                    *)
Arrives ==
  /\ (phase = "open" /\ socket = "up") \/ phase = "closed"
  /\ arrived < MaxFrames
  /\ arrived' = arrived + 1
  /\ Push(arrived + 1)
  /\ UNCHANGED <<phase, socket, pending, request>>

(* Mutant: the read ends as soon as the connection is closed. *)
ReadsUnlessClosed ==
  /\ phase \in {"open", "closed"}
  /\ reader = "idle"
  /\ IF phase = "closed"
       THEN reader' = "done" /\ UNCHANGED <<received, queue>>
     ELSE IF queue # <<>>
       THEN /\ received' = Append(received, Head(queue))
            /\ queue' = Tail(queue)
            /\ UNCHANGED reader
     ELSE reader' = "waiting" /\ UNCHANGED <<received, queue>>
  /\ UNCHANGED <<phase, socket, pending, request, arrived>>

(* The next read of frames(): what is queued first, then the end, then the   *)
(* waiter.                                                                   *)
Reads ==
  /\ phase \in {"open", "closed"}
  /\ reader = "idle"
  /\ IF queue # <<>>
       THEN /\ received' = Append(received, Head(queue))
            /\ queue' = Tail(queue)
            /\ UNCHANGED reader
       ELSE /\ reader' = IF phase = "closed" THEN "done" ELSE "waiting"
            /\ UNCHANGED <<received, queue>>
  /\ UNCHANGED <<phase, socket, pending, request, arrived>>

-----------------------------------------------------------------------------
(* The end *)

(* Mutant: closing drops the entries without rejecting the requests. *)
OnCloseForgetsRequests ==
  /\ phase' = "closed"
  /\ socket' = "down"
  /\ pending' = {}
  /\ reader' = IF reader = "waiting" THEN "done" ELSE reader
  /\ UNCHANGED <<request, queue, received, arrived>>

(* Mutant: the null that wakes the waiter is yielded like a frame. *)
OnCloseYieldsNull ==
  /\ phase' = "closed"
  /\ socket' = "down"
  /\ request' = [r \in Requests |-> IF r \in pending THEN "rejected" ELSE request[r]]
  /\ pending' = {}
  /\ received' = IF reader = "waiting" THEN Append(received, 0) ELSE received
  /\ reader' = IF reader = "waiting" THEN "idle" ELSE reader
  /\ UNCHANGED <<queue, arrived>>

(* onClose: every pending request is rejected and the waiter woken.          *)
OnClose ==
  /\ phase' = "closed"
  /\ socket' = "down"
  /\ request' = [r \in Requests |-> IF r \in pending THEN "rejected" ELSE request[r]]
  /\ pending' = {}
  /\ reader' = IF reader = "waiting" THEN "done" ELSE reader
  /\ UNCHANGED <<queue, received, arrived>>

(* The socket reports an error or its close.                                 *)
SocketCloses == phase = "open" /\ socket = "down" /\ OnClose

(* close: a re-keyed session, or the bridge shuts down.                      *)
Closes == phase = "open" /\ OnClose

Next ==
  \/ Challenged \/ Connected \/ ConnectFails \/ ConnectTimesOut \/ PeerLeaves
  \/ \E r \in Requests : Sends(r) \/ TimesOut(r)
  \/ \E r \in Requests, ok \in BOOLEAN : Responds(r, ok)
  \/ Arrives \/ Reads
  \/ SocketCloses \/ Closes

(* Timers fire, a lost socket is reported, and the consume loop reads on.    *)
Fairness ==
  /\ WF_vars(ConnectTimesOut)
  /\ \A r \in Requests : WF_vars(TimesOut(r))
  /\ WF_vars(SocketCloses)
  /\ WF_vars(Reads)

Spec == Init /\ [][Next]_vars /\ Fairness

-----------------------------------------------------------------------------
(* Properties *)

(* A request waits exactly while it has an entry, so a response, a timeout   *)
(* and a close settle it once between them, and nothing waits on a closed    *)
(* connection: neither a request nor the reader.                             *)
WaitersAreKnown ==
  /\ \A r \in Requests : request[r] = "waiting" <=> r \in pending
  /\ phase = "closed" => pending = {} /\ reader # "waiting"

(* The reader gets the frames in the order they arrived, each once, and never *)
(* sleeps beside a queued one.                                               *)
FramesInOrder ==
  /\ received \o queue = [i \in 1 .. arrived |-> i]
  /\ reader = "waiting" => queue = <<>>

(* A handshake comes to an end, whatever the gateway does or leaves undone.  *)
ConnectSettles == phase \in Handshake ~> phase \notin Handshake

(* A request comes to an end, answered or not.                               *)
RequestsSettle ==
  \A r \in Requests : request[r] = "waiting" ~> request[r] \in {"resolved", "rejected"}

(* Every frame that arrives on an open connection is read, even when the      *)
(* connection closes with frames queued; and once it is gone the reader       *)
(* reaches the end, so the session's loop can close its turn.                 *)
ReadToTheEnd ==
  /\ \A n \in 1 .. MaxFrames :
       phase = "open" /\ arrived = n ~> n \in {received[i] : i \in DOMAIN received}
  /\ phase = "open" /\ socket = "down" ~> reader = "done"
=============================================================================
