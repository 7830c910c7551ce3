------------------------ MODULE SessionRegistryProofs ------------------------
(***************************************************************************)
(* The safety of SessionRegistry, for any number of requests, chats and keys. *)
(* The invariant adds to the stated properties what the maps say about the    *)
(* connections they name: a registered session was connected, a pending       *)
(* creation leaves no session registered beside it, and a request that has    *)
(* not started a creation of its own has no connection.                      *)
(***************************************************************************)
EXTENDS SessionRegistry, TLAPS

SessionsConnected ==
  \A c \in Chats : sessions[c] # None =>
    ChatOf(sessions[c]) = c /\ connection[sessions[c]] \in {"open", "closed"}

PendingAlone ==
  \A c \in Chats : inflight[c] # None =>
    ChatOf(inflight[c]) = c /\ sessions[c] = None

OwnCreation ==
  \A r \in Requests :
    /\ request[r].state = "new" => connection[r] = "none"
    /\ request[r].state = "waiting" =>
         /\ request[r].on # r => connection[r] = "none"
         /\ connection[request[r].on] # "none"
         /\ ChatOf(request[r].on) = ChatOf(r)

RegistryInv ==
  /\ TypeOK
  /\ OneLivePerChat
  /\ PendingIsConnecting
  /\ OwnKey
  /\ SessionsConnected
  /\ PendingAlone
  /\ OwnCreation

USE SessionRegistryAssumption

LEMMA InitRegistry == Init => RegistryInv
  BY DEF Init, RegistryInv, TypeOK, Acquire, OneLivePerChat, PendingIsConnecting, OwnKey,
         SessionsConnected, PendingAlone, OwnCreation, ChatOf, KeyOf

(* A request that enters acquire: a new one, or one that waited for another key. *)
Enters(r) ==
  \/ request[r].state = "new"
  \/ /\ request[r].state = "waiting"
     /\ KeyOf(request[r].on) # KeyOf(r)

LEMMA WaitsOnSets ==
  ASSUME TypeOK, NEW r \in Requests, NEW s \in Requests, WaitsOn(r, s)
  PROVE  /\ request' \in [Requests -> Acquire]
         /\ \A q \in Requests : ChatOf(q)' = ChatOf(q) /\ KeyOf(q)' = KeyOf(q)
         /\ \A q \in Requests \ {r} : request'[q] = request[q]
         /\ request'[r].on = s /\ request'[r].state = "waiting"
  BY DEF TypeOK, Acquire, WaitsOn, ChatOf, KeyOf

LEMMA GetsSets ==
  ASSUME TypeOK, NEW r \in Requests, NEW s \in Requests, Gets(r, s)
  PROVE  /\ request' \in [Requests -> Acquire]
         /\ \A q \in Requests : ChatOf(q)' = ChatOf(q) /\ KeyOf(q)' = KeyOf(q)
         /\ \A q \in Requests \ {r} : request'[q] = request[q]
         /\ request'[r].on = s /\ request'[r].state = "given"
  BY DEF TypeOK, Acquire, Gets, ChatOf, KeyOf

LEMMA JoinsKeeps ==
  ASSUME RegistryInv, NEW r \in Requests, Enters(r), Joins(r)
  PROVE  RegistryInv'
<1> DEFINE c == ChatOf(r)
<1>c. c \in Chats /\ KeyOf(r) \in Keys
  BY DEF RegistryInv, TypeOK, Acquire, ChatOf, KeyOf
<1>fresh. connection[r] = "none"
  BY DEF RegistryInv, OwnCreation, Enters, KeyOf
<1>drop. /\ Dropped(r) \in [Requests -> {"none", "connecting", "open", "failed", "closed"}]
         /\ \A s \in Requests :
              Dropped(r)[s] = IF connection[s] = "open" /\ ChatOf(s) = c
                              THEN "closed" ELSE connection[s]
  BY <1>c DEF RegistryInv, TypeOK, OneLivePerChat, SessionsConnected, Dropped, IsOpen
<1>s. sessions' = [sessions EXCEPT ![c] = None]
  BY DEF Joins
<1>1. CASE inflight[c] # None
  <2>1. /\ connection' = Dropped(r) /\ WaitsOn(r, inflight[c]) /\ UNCHANGED inflight
        /\ inflight[c] \in Requests
    BY <1>1, <1>c DEF Joins, RegistryInv, TypeOK
  <2>2. /\ request' \in [Requests -> Acquire]
        /\ \A q \in Requests : ChatOf(q)' = ChatOf(q) /\ KeyOf(q)' = KeyOf(q)
        /\ \A q \in Requests \ {r} : request'[q] = request[q]
        /\ request'[r].on = inflight[c] /\ request'[r].state = "waiting"
    BY <2>1, WaitsOnSets DEF RegistryInv
  <2>3. /\ connection[inflight[c]] = "connecting"
        /\ ChatOf(inflight[c]) = c
        /\ inflight[c] # r
    BY <1>1, <1>c, <2>1, <1>fresh DEF RegistryInv, PendingAlone, PendingIsConnecting
  <2>on. \A q \in Requests : request'[q].state \in {"waiting", "given"} => request'[q].on # None
    BY <2>1, <2>2 DEF RegistryInv, TypeOK
  <2>4. TypeOK'
    BY <2>1, <2>2, <2>on, <1>s, <1>drop DEF RegistryInv, TypeOK
  <2>5. OneLivePerChat'
    BY <2>1, <2>2, <1>s, <1>drop, <1>c DEF RegistryInv, TypeOK, OneLivePerChat
  <2>6. PendingIsConnecting'
    BY <2>1, <2>2, <1>drop DEF RegistryInv, PendingIsConnecting
  <2>7. OwnKey'
    BY <2>1, <2>2 DEF RegistryInv, OwnKey, TypeOK, Acquire
  <2>8. SessionsConnected'
    BY <2>1, <2>2, <1>s, <1>drop, <1>c DEF RegistryInv, TypeOK, SessionsConnected
  <2>9. PendingAlone'
    BY <2>1, <2>2, <1>s, <1>c DEF RegistryInv, TypeOK, PendingAlone
  <2>10. OwnCreation'
    BY <2>1, <2>2, <2>3, <1>drop, <1>fresh DEF RegistryInv, OwnCreation, TypeOK, Acquire
  <2> QED
    BY <2>4, <2>5, <2>6, <2>7, <2>8, <2>9, <2>10 DEF RegistryInv
<1>2. CASE inflight[c] = None
  <2>1. /\ connection' = [Dropped(r) EXCEPT ![r] = "connecting"]
        /\ WaitsOn(r, r)
        /\ inflight' = [inflight EXCEPT ![c] = r]
    BY <1>2 DEF Joins
  <2>2. /\ request' \in [Requests -> Acquire]
        /\ \A q \in Requests : ChatOf(q)' = ChatOf(q) /\ KeyOf(q)' = KeyOf(q)
        /\ \A q \in Requests \ {r} : request'[q] = request[q]
        /\ request'[r].on = r /\ request'[r].state = "waiting"
    BY <2>1, WaitsOnSets DEF RegistryInv
  <2>3. /\ connection' \in [Requests -> {"none", "connecting", "open", "failed", "closed"}]
        /\ connection'[r] = "connecting"
        /\ \A q \in Requests \ {r} : connection'[q] = Dropped(r)[q]
    BY <2>1, <1>drop
  <2>on. \A q \in Requests : request'[q].state \in {"waiting", "given"} => request'[q].on # None
    BY <2>2 DEF RegistryInv, TypeOK
  <2>4. TypeOK'
    BY <2>1, <2>2, <2>3, <2>on, <1>s DEF RegistryInv, TypeOK
  <2>5. OneLivePerChat'
    BY <2>2, <2>3, <1>s, <1>drop, <1>c DEF RegistryInv, TypeOK, OneLivePerChat
  <2>6. PendingIsConnecting'
    BY <2>1, <2>2, <2>3, <1>2, <1>drop, <1>c
    DEF RegistryInv, TypeOK, Acquire, ChatOf, PendingIsConnecting
  <2>7. OwnKey'
    BY <2>2 DEF RegistryInv, OwnKey, TypeOK, Acquire
  <2>8. SessionsConnected'
    BY <2>2, <2>3, <1>s, <1>drop, <1>c, <1>fresh DEF RegistryInv, TypeOK, SessionsConnected
  <2>9. PendingAlone'
    BY <2>1, <2>2, <1>s, <1>c DEF RegistryInv, TypeOK, PendingAlone
  <2>10. OwnCreation'
    BY <2>2, <2>3, <1>drop DEF RegistryInv, OwnCreation, TypeOK, Acquire
  <2> QED
    BY <2>4, <2>5, <2>6, <2>7, <2>8, <2>9, <2>10 DEF RegistryInv
<1> QED
  BY <1>1, <1>2

LEMMA AcquiresKeeps ==
  ASSUME RegistryInv, NEW r \in Requests, Enters(r), Acquires(r)
  PROVE  RegistryInv'
<1>1. CASE Matches(r) /\ Gets(r, sessions[ChatOf(r)])
           /\ UNCHANGED <<sessions, inflight, connection>>
  <2> DEFINE s == sessions[ChatOf(r)]
  <2>1. s \in Requests /\ KeyOf(s) = KeyOf(r) /\ ChatOf(s) = ChatOf(r)
    BY <1>1 DEF Matches, IsOpen, RegistryInv, TypeOK, Acquire, ChatOf, SessionsConnected
  <2>2. /\ request' \in [Requests -> Acquire]
        /\ \A q \in Requests : ChatOf(q)' = ChatOf(q) /\ KeyOf(q)' = KeyOf(q)
        /\ \A q \in Requests \ {r} : request'[q] = request[q]
        /\ request'[r].on = s /\ request'[r].state = "given"
    BY <1>1, <2>1, GetsSets DEF RegistryInv
  <2>on. \A q \in Requests : request'[q].state \in {"waiting", "given"} => request'[q].on # None
    BY <2>1, <2>2 DEF RegistryInv, TypeOK
  <2>3. TypeOK'
    BY <1>1, <2>2, <2>on DEF RegistryInv, TypeOK
  <2>4. OneLivePerChat' /\ PendingIsConnecting' /\ SessionsConnected' /\ PendingAlone'
    BY <1>1, <2>2 DEF RegistryInv, TypeOK, OneLivePerChat, PendingIsConnecting,
                      SessionsConnected, PendingAlone
  <2>5. OwnKey'
    BY <2>1, <2>2 DEF RegistryInv, OwnKey, TypeOK, Acquire
  <2>6. OwnCreation'
    BY <1>1, <2>2 DEF RegistryInv, OwnCreation, TypeOK, Acquire
  <2> QED
    BY <2>3, <2>4, <2>5, <2>6 DEF RegistryInv
<1>2. CASE ~Matches(r) /\ Joins(r)
  BY <1>2, JoinsKeeps
<1> QED
  BY <1>1, <1>2 DEF Acquires

LEMMA ConnectsKeeps ==
  ASSUME RegistryInv, NEW s \in Requests, Connects(s)
  PROVE  RegistryInv'
<1>1. ChatOf(s) \in Chats /\ inflight[ChatOf(s)] = s /\ sessions[ChatOf(s)] = None
  BY DEF Connects, RegistryInv, TypeOK, Acquire, ChatOf, PendingIsConnecting, PendingAlone
<1>2. /\ \A q \in Requests : ChatOf(q)' = ChatOf(q) /\ KeyOf(q)' = KeyOf(q)
      /\ \A q \in Requests \ {s} : connection'[q] = connection[q]
      /\ connection'[s] = "open"
  BY DEF Connects, ChatOf, KeyOf, RegistryInv, TypeOK
<1>3. TypeOK'
  BY DEF Connects, RegistryInv, TypeOK
<1>4. OneLivePerChat'
  BY <1>1, <1>2 DEF Connects, RegistryInv, TypeOK, OneLivePerChat
<1>5. PendingIsConnecting'
  BY <1>1, <1>2 DEF Connects, RegistryInv, TypeOK, Acquire, ChatOf, PendingIsConnecting
<1>6. OwnKey'
  BY <1>2 DEF Connects, RegistryInv, TypeOK, Acquire, OwnKey
<1>7. SessionsConnected'
  BY <1>1, <1>2 DEF Connects, RegistryInv, TypeOK, SessionsConnected
<1>8. PendingAlone'
  BY <1>1, <1>2 DEF Connects, RegistryInv, TypeOK, PendingAlone
<1>9. OwnCreation'
  BY <1>2 DEF Connects, RegistryInv, TypeOK, Acquire, OwnCreation
<1> QED
  BY <1>3, <1>4, <1>5, <1>6, <1>7, <1>8, <1>9 DEF RegistryInv

LEMMA ConnectFailsKeeps ==
  ASSUME RegistryInv, NEW s \in Requests, ConnectFails(s)
  PROVE  RegistryInv'
<1>1. ChatOf(s) \in Chats /\ inflight[ChatOf(s)] = s
  BY DEF ConnectFails, RegistryInv, TypeOK, Acquire, ChatOf, PendingIsConnecting
<1>2. /\ \A q \in Requests : ChatOf(q)' = ChatOf(q) /\ KeyOf(q)' = KeyOf(q)
      /\ \A q \in Requests \ {s} : connection'[q] = connection[q]
      /\ connection'[s] = "failed"
  BY DEF ConnectFails, ChatOf, KeyOf, RegistryInv, TypeOK
<1>3. TypeOK'
  BY DEF ConnectFails, RegistryInv, TypeOK
<1>4. OneLivePerChat' /\ OwnKey'
  BY <1>2 DEF ConnectFails, RegistryInv, TypeOK, Acquire, OneLivePerChat, OwnKey
<1>5. PendingIsConnecting'
  BY <1>1, <1>2 DEF ConnectFails, RegistryInv, TypeOK, Acquire, ChatOf, PendingIsConnecting
<1>6. SessionsConnected'
  BY <1>2 DEF ConnectFails, RegistryInv, TypeOK, SessionsConnected
<1>7. PendingAlone'
  BY <1>2 DEF ConnectFails, RegistryInv, TypeOK, PendingAlone
<1>8. OwnCreation'
  BY <1>2 DEF ConnectFails, RegistryInv, TypeOK, Acquire, OwnCreation
<1> QED
  BY <1>3, <1>4, <1>5, <1>6, <1>7, <1>8 DEF RegistryInv

LEMMA ResumesKeeps ==
  ASSUME RegistryInv, NEW r \in Requests, Resumes(r)
  PROVE  RegistryInv'
<1> DEFINE s == request[r].on
<1>1. /\ request[r].state = "waiting" /\ s \in Requests
      /\ ChatOf(s) = ChatOf(r) /\ connection[s] # "none"
  BY DEF Resumes, Resuming, RegistryInv, TypeOK, Acquire, OwnCreation
<1>2. CASE /\ connection[s] = "failed"
           /\ request' = [request EXCEPT ![r].state = "failed"]
           /\ UNCHANGED <<sessions, inflight, connection>>
  <2>1. /\ request' \in [Requests -> Acquire]
        /\ \A q \in Requests : ChatOf(q)' = ChatOf(q) /\ KeyOf(q)' = KeyOf(q)
        /\ \A q \in Requests \ {r} : request'[q] = request[q]
        /\ request'[r].state = "failed"
    BY <1>2 DEF RegistryInv, TypeOK, Acquire, ChatOf, KeyOf
  <2>on. \A q \in Requests : request'[q].state \in {"waiting", "given"} => request'[q].on # None
    BY <2>1 DEF RegistryInv, TypeOK
  <2>2. TypeOK'
    BY <1>2, <2>1, <2>on DEF RegistryInv, TypeOK
  <2>3. OneLivePerChat' /\ PendingIsConnecting' /\ SessionsConnected' /\ PendingAlone'
    BY <1>2, <2>1 DEF RegistryInv, TypeOK, OneLivePerChat, PendingIsConnecting,
                      SessionsConnected, PendingAlone
  <2>4. OwnKey'
    BY <2>1 DEF RegistryInv, OwnKey, TypeOK, Acquire
  <2>5. OwnCreation'
    BY <1>2, <2>1 DEF RegistryInv, OwnCreation, TypeOK, Acquire
  <2> QED
    BY <2>2, <2>3, <2>4, <2>5 DEF RegistryInv
<1>3. CASE /\ KeyOf(s) = KeyOf(r)
           /\ Gets(r, s)
           /\ UNCHANGED <<sessions, inflight, connection>>
  <2>1. /\ request' \in [Requests -> Acquire]
        /\ \A q \in Requests : ChatOf(q)' = ChatOf(q) /\ KeyOf(q)' = KeyOf(q)
        /\ \A q \in Requests \ {r} : request'[q] = request[q]
        /\ request'[r].on = s /\ request'[r].state = "given"
    BY <1>1, <1>3, GetsSets DEF RegistryInv
  <2>on. \A q \in Requests : request'[q].state \in {"waiting", "given"} => request'[q].on # None
    BY <1>1, <2>1 DEF RegistryInv, TypeOK
  <2>2. TypeOK'
    BY <1>3, <2>1, <2>on DEF RegistryInv, TypeOK
  <2>3. OneLivePerChat' /\ PendingIsConnecting' /\ SessionsConnected' /\ PendingAlone'
    BY <1>3, <2>1 DEF RegistryInv, TypeOK, OneLivePerChat, PendingIsConnecting,
                      SessionsConnected, PendingAlone
  <2>4. OwnKey'
    BY <1>1, <1>3, <2>1 DEF RegistryInv, OwnKey, TypeOK, Acquire
  <2>5. OwnCreation'
    BY <1>3, <2>1 DEF RegistryInv, OwnCreation, TypeOK, Acquire
  <2> QED
    BY <2>2, <2>3, <2>4, <2>5 DEF RegistryInv
<1>4. CASE KeyOf(s) # KeyOf(r) /\ Acquires(r)
  BY <1>1, <1>4, AcquiresKeeps DEF Enters
<1> QED
  BY <1>2, <1>3, <1>4 DEF Resumes

LEMMA PeerClosesKeeps ==
  ASSUME RegistryInv, NEW s \in Requests, PeerCloses(s)
  PROVE  RegistryInv'
<1>1. /\ \A q \in Requests : ChatOf(q)' = ChatOf(q) /\ KeyOf(q)' = KeyOf(q)
      /\ \A q \in Requests \ {s} : connection'[q] = connection[q]
      /\ connection'[s] = "closed" /\ connection[s] = "open"
  BY DEF PeerCloses, ChatOf, KeyOf, RegistryInv, TypeOK
<1>2. TypeOK'
  BY DEF PeerCloses, RegistryInv, TypeOK
<1>3. OneLivePerChat' /\ OwnKey' /\ PendingIsConnecting'
  BY <1>1 DEF PeerCloses, RegistryInv, TypeOK, Acquire, OneLivePerChat, OwnKey,
              PendingIsConnecting
<1>4. SessionsConnected' /\ PendingAlone'
  BY <1>1 DEF PeerCloses, RegistryInv, TypeOK, SessionsConnected, PendingAlone
<1>5. OwnCreation'
  BY <1>1 DEF PeerCloses, RegistryInv, TypeOK, Acquire, OwnCreation
<1> QED
  BY <1>2, <1>3, <1>4, <1>5 DEF RegistryInv

LEMMA CloseAllKeeps ==
  ASSUME RegistryInv, CloseAll
  PROVE  RegistryInv'
<1>1. /\ \A q \in Requests : ChatOf(q)' = ChatOf(q) /\ KeyOf(q)' = KeyOf(q)
      /\ \A q \in Requests : connection'[q] =
           IF connection[q] = "open" THEN "closed" ELSE connection[q]
      /\ \A c \in Chats : sessions'[c] = None
  BY DEF CloseAll, ChatOf, KeyOf, RegistryInv, TypeOK, OneLivePerChat
<1>2. TypeOK'
  BY DEF CloseAll, RegistryInv, TypeOK
<1>3. OneLivePerChat' /\ OwnKey' /\ PendingIsConnecting'
  BY <1>1 DEF CloseAll, RegistryInv, TypeOK, Acquire, OneLivePerChat, OwnKey,
              PendingIsConnecting
<1>4. SessionsConnected' /\ PendingAlone'
  BY <1>1 DEF CloseAll, RegistryInv, TypeOK, SessionsConnected, PendingAlone
<1>5. OwnCreation'
  BY <1>1 DEF CloseAll, RegistryInv, TypeOK, Acquire, OwnCreation
<1> QED
  BY <1>2, <1>3, <1>4, <1>5 DEF RegistryInv

LEMMA NextKeeps == RegistryInv /\ [Next]_vars => RegistryInv'
<1> SUFFICES ASSUME RegistryInv, [Next]_vars PROVE RegistryInv'
  OBVIOUS
<1>1. ASSUME NEW r \in Requests, Arrives(r) PROVE RegistryInv'
  BY <1>1, AcquiresKeeps DEF Arrives, Enters
<1>2. ASSUME NEW r \in Requests, Resumes(r) PROVE RegistryInv'
  BY <1>2, ResumesKeeps
<1>3. ASSUME NEW r \in Requests, Connects(r) PROVE RegistryInv'
  BY <1>3, ConnectsKeeps
<1>4. ASSUME NEW r \in Requests, ConnectFails(r) PROVE RegistryInv'
  BY <1>4, ConnectFailsKeeps
<1>5. ASSUME NEW r \in Requests, PeerCloses(r) PROVE RegistryInv'
  BY <1>5, PeerClosesKeeps
<1>6. CASE CloseAll
  BY <1>6, CloseAllKeeps
<1>7. CASE UNCHANGED vars
  BY <1>7 DEF vars, RegistryInv, TypeOK, OneLivePerChat, PendingIsConnecting, OwnKey,
              SessionsConnected, PendingAlone, OwnCreation, ChatOf, KeyOf
<1> QED
  BY <1>1, <1>2, <1>3, <1>4, <1>5, <1>6, <1>7 DEF Next

(* The registry's maps and connections stay consistent through any number of  *)
(* concurrent acquires, failures, closes and re-keys.                        *)
THEOREM RegistryInvariant == Spec => []RegistryInv
  BY InitRegistry, NextKeeps, PTL DEF Spec

(* Every state of the registry is well typed.                                 *)
THEOREM RegistryTypeCorrect == Spec => []TypeOK
  BY RegistryInvariant, PTL DEF RegistryInv

(* session.ts:230: at most one live connection per chat, the registered one.  *)
THEOREM OneLive == Spec => []OneLivePerChat
  BY RegistryInvariant, PTL DEF RegistryInv

(* The creations under way are the pending ones: a failed one is forgotten.   *)
THEOREM PendingConnecting == Spec => []PendingIsConnecting
  BY RegistryInvariant, PTL DEF RegistryInv

(* No acquire is given the session of another chat or key.                    *)
THEOREM GivenOwnKey == Spec => []OwnKey
  BY RegistryInvariant, PTL DEF RegistryInv
=============================================================================
