----------------------- MODULE GatewayConnectionProofs -----------------------
(***************************************************************************)
(* The safety of GatewayConnection for any set of requests and any number of  *)
(* frames.  The three stated invariants are inductive together.               *)
(***************************************************************************)
EXTENDS GatewayConnection, SequenceTheorems, TLAPS

ConnectionInv == TypeOK /\ WaitersAreKnown /\ FramesInOrder

USE GatewayConnectionAssumption

-----------------------------------------------------------------------------
(* Sequences *)

(* What is queued last comes last.                                            *)
LEMMA PushedLast ==
  ASSUME NEW S, NEW s \in Seq(S), NEW t \in Seq(S), NEW e \in S
  PROVE  s \o Append(t, e) = Append(s \o t, e)
<1>1. Append(t, e) = t \o <<e>> /\ Append(s \o t, e) = (s \o t) \o <<e>>
  BY AppendIsConcat, ConcatProperties
<1>2. <<e>> \in Seq(S)
  OBVIOUS
<1> QED
  BY <1>1, <1>2, ConcatAssociative

(* Taking the head of the queue moves the border between read and queued.     *)
LEMMA TakenFirst ==
  ASSUME NEW S, NEW s \in Seq(S), NEW t \in Seq(S), t # <<>>
  PROVE  Append(s, Head(t)) \o Tail(t) = s \o t
<1> DEFINE a == Append(s, Head(t))
<1>1. Head(t) \in S /\ Tail(t) \in Seq(S) /\ Len(Tail(t)) = Len(t) - 1
      /\ \A i \in 1 .. Len(Tail(t)) : Tail(t)[i] = t[i + 1]
  BY HeadTailProperties
<1>2. a \in Seq(S) /\ Len(a) = Len(s) + 1 /\ a[Len(s) + 1] = Head(t)
      /\ \A i \in 1 .. Len(s) : a[i] = s[i]
  BY <1>1, AppendProperties
<1>3. Len(s) \in Nat /\ Len(t) \in Nat /\ Len(t) >= 1 /\ Head(t) = t[1]
  BY LenProperties, EmptySeq
<1>4. /\ a \o Tail(t) \in Seq(S) /\ Len(a \o Tail(t)) = Len(s) + Len(t)
      /\ \A i \in 1 .. Len(a) + Len(Tail(t)) : (a \o Tail(t))[i] =
           IF i <= Len(a) THEN a[i] ELSE Tail(t)[i - Len(a)]
  BY <1>1, <1>2, <1>3, ConcatProperties
<1>5. /\ s \o t \in Seq(S) /\ Len(s \o t) = Len(s) + Len(t)
      /\ \A i \in 1 .. Len(s) + Len(t) : (s \o t)[i] =
           IF i <= Len(s) THEN s[i] ELSE t[i - Len(s)]
  BY ConcatProperties
<1>6. ASSUME NEW i \in 1 .. Len(s) + Len(t) PROVE (a \o Tail(t))[i] = (s \o t)[i]
  <2>1. CASE i <= Len(s)
    BY <2>1, <1>1, <1>2, <1>3, <1>4, <1>5
  <2>2. CASE i = Len(s) + 1
    BY <2>2, <1>1, <1>2, <1>3, <1>4, <1>5
  <2>3. CASE i > Len(s) + 1
    <3> DEFINE j == i - (Len(s) + 1)
    <3>1. j \in 1 .. Len(Tail(t)) /\ j + 1 = i - Len(s)
      BY <2>3, <1>1, <1>3
    <3>2. (a \o Tail(t))[i] = Tail(t)[j]
      BY <2>3, <1>1, <1>2, <1>3, <1>4
    <3>3. (s \o t)[i] = t[j + 1]
      BY <2>3, <3>1, <1>3, <1>5
    <3> QED
      BY <3>1, <3>2, <3>3, <1>1
  <2> QED
    BY <2>1, <2>2, <2>3, <1>3
<1> QED
  BY <1>4, <1>5, <1>6, SeqEqual

LEMMA NextNumber ==
  ASSUME NEW n \in Nat
  PROVE  Append([i \in 1 .. n |-> i], n + 1) = [i \in 1 .. (n + 1) |-> i]
<1> DEFINE s == [i \in 1 .. n |-> i]
           t == [i \in 1 .. (n + 1) |-> i]
<1>1. s \in Seq(Nat) /\ Len(s) = n
  OBVIOUS
<1>2. t \in Seq(Nat) /\ Len(t) = n + 1
  OBVIOUS
<1>3. /\ Append(s, n + 1) \in Seq(Nat) /\ Len(Append(s, n + 1)) = n + 1
      /\ \A i \in 1 .. n : Append(s, n + 1)[i] = s[i]
      /\ Append(s, n + 1)[n + 1] = n + 1
  BY <1>1, AppendProperties
<1>4. \A i \in 1 .. (n + 1) : Append(s, n + 1)[i] = t[i]
  BY <1>3
<1> QED
  BY <1>2, <1>3, <1>4, SeqEqual

-----------------------------------------------------------------------------
(* The invariant *)

LEMMA InitConnection == Init => ConnectionInv
<1> SUFFICES ASSUME Init PROVE ConnectionInv
  OBVIOUS
<1>1. TypeOK
  BY DEF Init, TypeOK, Handshake
<1>2. WaitersAreKnown
  BY DEF Init, WaitersAreKnown
<1>3. <<>> \o <<>> = [i \in 1 .. 0 |-> i]
  OBVIOUS
<1>4. FramesInOrder
  BY <1>3 DEF Init, FramesInOrder
<1> QED
  BY <1>1, <1>2, <1>4 DEF ConnectionInv

(* A step that leaves the frames alone.                                       *)
LEMMA FramesStay ==
  ASSUME FramesInOrder, UNCHANGED <<queue, reader, received, arrived>>
  PROVE  FramesInOrder'
  BY DEF FramesInOrder

LEMMA HandshakeKeeps ==
  ASSUME ConnectionInv,
         Challenged \/ Connected \/ ConnectFails \/ ConnectTimesOut \/ PeerLeaves
  PROVE  ConnectionInv'
<1>1. UNCHANGED <<pending, request, queue, reader, received, arrived>>
      /\ (phase' = "closed" => phase = "closed")
  BY DEF Challenged, Connected, ConnectFails, ConnectTimesOut, PeerLeaves, steady
<1>2. TypeOK'
  BY <1>1 DEF Challenged, Connected, ConnectFails, ConnectTimesOut, PeerLeaves,
              ConnectionInv, TypeOK, Handshake
<1>3. WaitersAreKnown' /\ FramesInOrder'
  BY <1>1, FramesStay DEF ConnectionInv, WaitersAreKnown
<1> QED
  BY <1>2, <1>3 DEF ConnectionInv

LEMMA SendsKeeps ==
  ASSUME ConnectionInv, NEW r \in Requests, Sends(r)
  PROVE  ConnectionInv'
<1>1. FramesInOrder'
  BY FramesStay DEF Sends, ConnectionInv
<1>2. TypeOK'
  BY DEF Sends, ConnectionInv, TypeOK
<1>3. WaitersAreKnown'
  BY DEF Sends, ConnectionInv, TypeOK, WaitersAreKnown
<1> QED
  BY <1>1, <1>2, <1>3 DEF ConnectionInv

LEMMA RespondsKeeps ==
  ASSUME ConnectionInv, NEW r \in Requests, NEW ok \in BOOLEAN, Responds(r, ok)
  PROVE  ConnectionInv'
<1>1. FramesInOrder'
  BY FramesStay DEF Responds, ConnectionInv
<1>2. TypeOK'
  BY DEF Responds, ConnectionInv, TypeOK
<1>3. WaitersAreKnown'
  BY DEF Responds, ConnectionInv, TypeOK, WaitersAreKnown
<1> QED
  BY <1>1, <1>2, <1>3 DEF ConnectionInv

LEMMA TimesOutKeeps ==
  ASSUME ConnectionInv, NEW r \in Requests, TimesOut(r)
  PROVE  ConnectionInv'
<1>1. FramesInOrder'
  BY FramesStay DEF TimesOut, ConnectionInv
<1>2. TypeOK'
  BY DEF TimesOut, ConnectionInv, TypeOK
<1>3. WaitersAreKnown'
  BY DEF TimesOut, ConnectionInv, TypeOK, WaitersAreKnown
<1> QED
  BY <1>1, <1>2, <1>3 DEF ConnectionInv

LEMMA ArrivesKeeps ==
  ASSUME ConnectionInv, Arrives
  PROVE  ConnectionInv'
<1> DEFINE frame == arrived + 1
           Frame == 1 .. MaxFrames
<1>1. /\ arrived \in Nat /\ frame \in Frame /\ arrived' = frame
      /\ queue \in Seq(Frame) /\ received \in Seq(Frame)
      /\ UNCHANGED <<phase, socket, pending, request>>
  BY DEF Arrives, ConnectionInv, TypeOK
<1>2. Append([i \in 1 .. arrived |-> i], frame) = [i \in 1 .. arrived' |-> i]
  BY <1>1, NextNumber
<1>3. received \o queue = [i \in 1 .. arrived |-> i]
  BY DEF ConnectionInv, FramesInOrder
<1>4. CASE reader = "waiting"
  <2>1. reader' = "idle" /\ received' = Append(received, frame) /\ queue' = queue
    BY <1>4 DEF Arrives, Push
  <2>2. queue = <<>>
    BY <1>4 DEF ConnectionInv, FramesInOrder
  <2>3. received' \in Seq(Frame)
    BY <1>1, <2>1, AppendProperties
  <2>4. received' \o queue' = received' /\ received \o queue = received
    BY <1>1, <2>1, <2>2, <2>3, ConcatEmptySeq
  <2>5. FramesInOrder'
    BY <2>1, <2>4, <1>2, <1>3 DEF FramesInOrder
  <2>6. TypeOK' /\ WaitersAreKnown'
    BY <1>1, <2>1, <2>3 DEF ConnectionInv, TypeOK, WaitersAreKnown
  <2> QED
    BY <2>5, <2>6 DEF ConnectionInv
<1>5. CASE reader # "waiting"
  <2>1. queue' = Append(queue, frame) /\ UNCHANGED <<reader, received>>
    BY <1>5 DEF Arrives, Push
  <2>2. queue' \in Seq(Frame)
    BY <1>1, <2>1, AppendProperties
  <2>3. received' \o queue' = Append(received \o queue, frame)
    BY <1>1, <2>1, PushedLast
  <2>4. FramesInOrder'
    BY <2>1, <2>3, <1>2, <1>3, <1>5 DEF FramesInOrder
  <2>5. TypeOK' /\ WaitersAreKnown'
    BY <1>1, <2>1, <2>2 DEF ConnectionInv, TypeOK, WaitersAreKnown
  <2> QED
    BY <2>4, <2>5 DEF ConnectionInv
<1> QED
  BY <1>4, <1>5

LEMMA ReadsKeeps ==
  ASSUME ConnectionInv, Reads
  PROVE  ConnectionInv'
<1> DEFINE Frame == 1 .. MaxFrames
<1>1. /\ queue \in Seq(Frame) /\ received \in Seq(Frame) /\ reader = "idle"
      /\ UNCHANGED <<phase, socket, pending, request, arrived>>
  BY DEF Reads, ConnectionInv, TypeOK
<1>2. CASE queue # <<>>
  <2>1. /\ received' = Append(received, Head(queue)) /\ queue' = Tail(queue)
        /\ reader' = reader
    BY <1>2 DEF Reads
  <2>2. Head(queue) \in Frame /\ queue' \in Seq(Frame)
    BY <1>1, <1>2, <2>1, HeadTailProperties
  <2>3. received' \in Seq(Frame)
    BY <1>1, <2>1, <2>2, AppendProperties
  <2>4. received' \o queue' = received \o queue
    BY <1>1, <1>2, <2>1, TakenFirst
  <2>5. FramesInOrder'
    BY <1>1, <2>1, <2>4 DEF ConnectionInv, FramesInOrder
  <2>6. TypeOK' /\ WaitersAreKnown'
    BY <1>1, <2>1, <2>2, <2>3 DEF ConnectionInv, TypeOK, WaitersAreKnown
  <2> QED
    BY <2>5, <2>6 DEF ConnectionInv
<1>3. CASE queue = <<>>
  <2>1. /\ reader' = IF phase = "closed" THEN "done" ELSE "waiting"
        /\ UNCHANGED <<received, queue>>
    BY <1>3 DEF Reads
  <2>2. FramesInOrder'
    BY <1>1, <1>3, <2>1 DEF ConnectionInv, FramesInOrder
  <2>3. TypeOK' /\ WaitersAreKnown'
    BY <1>1, <2>1 DEF ConnectionInv, TypeOK, WaitersAreKnown
  <2> QED
    BY <2>2, <2>3 DEF ConnectionInv
<1> QED
  BY <1>2, <1>3

LEMMA OnCloseKeeps ==
  ASSUME ConnectionInv, OnClose
  PROVE  ConnectionInv'
<1>1. TypeOK'
  BY DEF OnClose, ConnectionInv, TypeOK
<1>2. WaitersAreKnown'
  BY DEF OnClose, ConnectionInv, TypeOK, WaitersAreKnown
<1>3. FramesInOrder'
  BY DEF OnClose, ConnectionInv, TypeOK, FramesInOrder
<1> QED
  BY <1>1, <1>2, <1>3 DEF ConnectionInv

LEMMA NextKeeps == ConnectionInv /\ [Next]_vars => ConnectionInv'
<1> SUFFICES ASSUME ConnectionInv, [Next]_vars PROVE ConnectionInv'
  OBVIOUS
<1>1. CASE Challenged \/ Connected \/ ConnectFails \/ ConnectTimesOut \/ PeerLeaves
  BY <1>1, HandshakeKeeps
<1>2. ASSUME NEW r \in Requests, Sends(r) PROVE ConnectionInv'
  BY <1>2, SendsKeeps
<1>3. ASSUME NEW r \in Requests, TimesOut(r) PROVE ConnectionInv'
  BY <1>3, TimesOutKeeps
<1>4. ASSUME NEW r \in Requests, NEW ok \in BOOLEAN, Responds(r, ok) PROVE ConnectionInv'
  BY <1>4, RespondsKeeps
<1>5. CASE Arrives
  BY <1>5, ArrivesKeeps
<1>6. CASE Reads
  BY <1>6, ReadsKeeps
<1>7. CASE SocketCloses \/ Closes
  BY <1>7, OnCloseKeeps DEF SocketCloses, Closes
<1>8. CASE UNCHANGED vars
  BY <1>8 DEF vars, ConnectionInv, TypeOK, WaitersAreKnown, FramesInOrder
<1> QED
  BY <1>1, <1>2, <1>3, <1>4, <1>5, <1>6, <1>7, <1>8 DEF Next

(* The three invariants hold together in every behaviour of a connection.     *)
THEOREM ConnectionInvariant == Spec => []ConnectionInv
  BY InitConnection, NextKeeps, PTL DEF Spec

(* Every state of a connection is well typed.                                 *)
THEOREM ConnectionTypeCorrect == Spec => []TypeOK
  BY ConnectionInvariant, PTL DEF ConnectionInv

(* A request waits exactly while it has an entry, and nothing waits on a      *)
(* closed connection.                                                         *)
THEOREM WaitersKnown == Spec => []WaitersAreKnown
  BY ConnectionInvariant, PTL DEF ConnectionInv

(* Frames are read once each, in the order they arrived.                      *)
THEOREM InOrder == Spec => []FramesInOrder
  BY ConnectionInvariant, PTL DEF ConnectionInv
=============================================================================
