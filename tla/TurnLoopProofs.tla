--------------------------- MODULE TurnLoopProofs ---------------------------
(***************************************************************************)
(* Theorems about TurnLoop, for every value of the constants.               *)
(*                                                                          *)
(* The results of the normalizer are sound while its turn is open            *)
(* (NormalizerLemmas); a closed turn that the sink still has is fed frames    *)
(* too, which tell no text and no final (Late).  The first invariant of the   *)
(* loop, IInv, follows from both action by action.                           *)
(*                                                                          *)
(* The second half follows the same operators for what their events tell:   *)
(* the text they show is the text the object holds, piece by piece, the files *)
(* they attach are new and remembered, a grace is armed only by the frames     *)
(* that may arm it, and only while no reply shows (Told, Batch).  The second   *)
(* invariant, TurnInv, relates the object to the record of its turn.          *)
(***************************************************************************)
EXTENDS TurnLoop, NormalizerLemmas

-----------------------------------------------------------------------------
(* The events of a batch *)

TextTypes == {"message.snapshot", "message.delta"}
TextEvents(ev) == Events(ev, "message.snapshot") \cup Events(ev, "message.delta")

(* An event more: the others are what they were, where they were.            *)
LEMMA EventsAppended ==
  ASSUME NEW ev \in Seq(Event), NEW e \in Event
  PROVE  /\ Append(ev, e) \in Seq(Event)
         /\ \A i \in DOMAIN ev : Append(ev, e)[i] = ev[i]
         /\ \A type : e.type # type => Events(Append(ev, e), type) = Events(ev, type)
         /\ Events(Append(ev, e), e.type) = Events(ev, e.type) \cup {Len(ev) + 1}
         /\ Append(ev, e)[Len(ev) + 1] = e
  <1>1. /\ Append(ev, e) \in Seq(Event)
        /\ Append(ev, e)[Len(ev) + 1] = e
        /\ \A i \in 1 .. Len(ev) : Append(ev, e)[i] = ev[i]
        /\ DOMAIN Append(ev, e) = 1 .. Len(ev) + 1
        /\ DOMAIN ev = 1 .. Len(ev)
        /\ Len(ev) \in Nat
    OBVIOUS
  <1>2. 1 .. Len(ev) + 1 = (1 .. Len(ev)) \cup {Len(ev) + 1}
    BY <1>1
  <1>3. QED  BY <1>1, <1>2 DEF Events

(* The stream in terms of the first event of each type. *)
First(set) == CHOOSE i \in set : TRUE

(* The first of a set is one of its members. *)
LEMMA FirstIsMember == \A set : (set # {} => First(set) \in set) /\ \A i : First({i}) = i
  BY DEF First

(* A snapshot decides the stream, then a delta. *)
LEMMA StreamCases ==
  ASSUME NEW stream, NEW ev
  PROVE  StreamAfter(stream, ev) =
           IF Events(ev, "message.snapshot") # {}
             THEN ev[First(Events(ev, "message.snapshot"))].text
           ELSE IF Events(ev, "message.delta") # {}
             THEN stream \o ev[First(Events(ev, "message.delta"))].text
           ELSE stream
  BY DEF StreamAfter, First

(* The events of a type decide what a batch says of it. *)
LEMMA SameSaid ==
  ASSUME NEW ev, NEW ev2, NEW stream,
         \A i \in DOMAIN ev : ev2[i] = ev[i]
  PROVE  /\ (\A type \in TextTypes : Events(ev2, type) = Events(ev, type)) =>
              StreamAfter(stream, ev2) = StreamAfter(stream, ev)
         /\ Events(ev2, "media") = Events(ev, "media") =>
              /\ FilesOf(ev2) = FilesOf(ev)
              /\ NamesTwice(ev2) <=> NamesTwice(ev)
  <1>1. \A type : \A i \in Events(ev, type) : ev2[i] = ev[i]
    BY DEF Events
  <1>2. ASSUME \A type \in TextTypes : Events(ev2, type) = Events(ev, type)
        PROVE  StreamAfter(stream, ev2) = StreamAfter(stream, ev)
    <2>1. /\ Events(ev2, "message.snapshot") = Events(ev, "message.snapshot")
          /\ Events(ev2, "message.delta") = Events(ev, "message.delta")
      BY <1>2 DEF TextTypes
    <2>2. \A type : Events(ev, type) # {} =>
            ev2[First(Events(ev, type))] = ev[First(Events(ev, type))]
      BY <1>1, FirstIsMember
    <2>3. QED  BY <2>1, <2>2, StreamCases
  <1>3. ASSUME Events(ev2, "media") = Events(ev, "media") PROVE FilesOf(ev2) = FilesOf(ev)
    BY <1>1, <1>3 DEF FilesOf
  <1>4. ASSUME Events(ev2, "media") = Events(ev, "media")
        PROVE  NamesTwice(ev2) <=> NamesTwice(ev)
    BY <1>1, <1>4 DEF NamesTwice
  <1>5. QED  BY <1>2, <1>3, <1>4

(* A batch without text leaves the stream as it is. *)
LEMMA SilentStream ==
  ASSUME NEW ev, TextEvents(ev) = {}, NEW stream
  PROVE  StreamAfter(stream, ev) = stream
  BY DEF TextEvents, StreamAfter

(* No event says anything. *)
LEMMA NoEvents ==
  /\ \A type : Events(<<>>, type) = {}
  /\ FilesOf(<<>>) = {} /\ ~NamesTwice(<<>>) /\ Finals(<<>>) = {} /\ TextEvents(<<>>) = {}
  /\ <<>> \in Seq(Event)
  <1>1. \A type : Events(<<>>, type) = {}
    BY DEF Events
  <1>2. QED  BY <1>1 DEF FilesOf, NamesTwice, Finals, TextEvents, Events

(* A media event of new files more names none of the files twice. *)
LEMMA MediaAppended ==
  ASSUME NEW ev \in Seq(Event), ~NamesTwice(ev),
         NEW e \in Event, e.type = "media", e.items \cap FilesOf(ev) = {}
  PROVE  /\ FilesOf(Append(ev, e)) = FilesOf(ev) \cup e.items
         /\ ~NamesTwice(Append(ev, e))
         /\ \A type \in TextTypes \cup {"message.final"} :
              Events(Append(ev, e), type) = Events(ev, type)
  <1> DEFINE all == Append(ev, e)
             last == Len(ev) + 1
  <1>1. /\ \A i \in DOMAIN ev : all[i] = ev[i]
        /\ Events(all, e.type) = Events(ev, e.type) \cup {last}
        /\ all[last] = e
        /\ \A type : e.type # type => Events(all, type) = Events(ev, type)
    BY EventsAppended
  <1>2. HIDE DEF all, last
  <1>3. Events(all, "media") = Events(ev, "media") \cup {last}
    BY <1>1
  <1>4. \A i \in Events(ev, "media") : all[i] = ev[i] /\ ev[i].items \subseteq FilesOf(ev)
    BY <1>1 DEF Events, FilesOf
  <1>5. FilesOf(all) = FilesOf(ev) \cup e.items
    BY <1>1, <1>3, <1>4 DEF FilesOf
  <1>6. ~NamesTwice(all)
    <2> SUFFICES ASSUME NEW i \in Events(all, "media"), NEW j \in Events(all, "media"),
                        i # j, all[i].items \cap all[j].items # {}
                 PROVE  FALSE
      BY DEF NamesTwice
    <2>1. CASE i \in Events(ev, "media") /\ j \in Events(ev, "media")
      BY <1>4, <2>1 DEF NamesTwice
    <2>2. CASE i = last \/ j = last
      <3>1. (i = last /\ j \in Events(ev, "media")) \/ (j = last /\ i \in Events(ev, "media"))
        BY <1>3, <2>2
      <3>2. QED  BY <1>1, <1>4, <3>1
    <2>3. QED  BY <1>3, <2>1, <2>2
  <1>7. \A type \in TextTypes \cup {"message.final"} : Events(all, type) = Events(ev, type)
    BY <1>1 DEF TextTypes
  <1>8. QED  BY <1>5, <1>6, <1>7 DEF all

-----------------------------------------------------------------------------
(* The record of the turn *)

(* A sound batch leaves at most one final to count.                          *)
LEMMA FinalsCounted ==
  ASSUME NEW r, Sound(r)
  PROVE  Cardinality(Finals(r.ev)) = IF r.nz.finalized THEN 1 ELSE 0
  <1>1. CASE r.nz.finalized
    <2>1. PICK i \in DOMAIN r.ev : Finals(r.ev) = {i}
      BY <1>1 DEF Sound, ClosedOnce
    <2>2. QED  BY <1>1, <2>1, FS_Singleton
  <1>2. CASE ~r.nz.finalized
    BY <1>2, FS_EmptySet DEF Sound, ClosedOnce
  <1>3. QED  BY <1>1, <1>2

(* The texts and files of a batch are texts and files.                       *)
LEMMA EventsTyped ==
  ASSUME NEW ev \in Seq(Event), NEW stream \in Text
  PROVE  /\ StreamAfter(stream, ev) \in Text
         /\ FilesOf(ev) \in SUBSET MediaPaths
         /\ \A i \in Events(ev, "message.final") : ev[i].text \in Text
  <1>1. \A i \in DOMAIN ev : ev[i] \in Event
    OBVIOUS
  <1>2. \A e \in Event : e.type \in {"message.snapshot", "message.delta", "message.final"}
                            => e.text \in Text
    BY DEF Event
  <1>3. \A e \in Event : e.type = "media" => e.items \in SUBSET MediaPaths
    BY DEF Event
  <1>4. \A type \in {"message.snapshot", "message.delta", "message.final"} :
          \A i \in Events(ev, type) : ev[i].text \in Text
    BY <1>1, <1>2 DEF Events
  <1>5. \A i \in Events(ev, "media") : ev[i].items \in SUBSET MediaPaths
    BY <1>1, <1>3 DEF Events
  <1>6. FilesOf(ev) \in SUBSET MediaPaths
    BY <1>5 DEF FilesOf
  <1>7. \A s, t \in Text : s \o t \in Text
    BY DEF Text
  <1>8. StreamAfter(stream, ev) \in Text
    <2> DEFINE first(type) == CHOOSE i \in Events(ev, type) : TRUE
    <2>1. CASE Events(ev, "message.snapshot") # {}
      <3>1. first("message.snapshot") \in Events(ev, "message.snapshot")
        BY <2>1
      <3>2. QED  BY <1>4, <2>1, <3>1 DEF StreamAfter
    <2>2. CASE Events(ev, "message.snapshot") = {} /\ Events(ev, "message.delta") # {}
      <3>1. first("message.delta") \in Events(ev, "message.delta")
        BY <2>2
      <3>2. ev[first("message.delta")].text \in Text
        BY <1>4, <3>1
      <3>3. QED  BY <1>7, <2>2, <3>2 DEF StreamAfter
    <2>3. CASE Events(ev, "message.snapshot") = {} /\ Events(ev, "message.delta") = {}
      BY <2>3 DEF StreamAfter
    <2>4. QED  BY <2>1, <2>2, <2>3
  <1>9. QED  BY <1>4, <1>6, <1>8

(* Applying a batch to a record counts its finals.                           *)
LEMMA AppliedTyped ==
  ASSUME NEW t \in TurnRecord, NEW ev \in Seq(Event), Cardinality(Finals(ev)) \in Nat
  PROVE  /\ Applied(t, ev) \in TurnRecord
         /\ Applied(t, ev).closings = t.closings + Cardinality(Finals(ev))
         /\ Applied(t, ev).lateEnd = t.lateEnd
  <1> DEFINE answer == IF Events(ev, "message.final") = {} THEN t.answer
                       ELSE ev[CHOOSE i \in Events(ev, "message.final") : TRUE].text
             count == t.closings + Cardinality(Events(ev, "message.final"))
             twice == t.filedTwice \/ FilesOf(ev) \cap t.files # {} \/ NamesTwice(ev)
  <1>1. count = t.closings + Cardinality(Finals(ev))
    BY DEF Finals, Events
  <1>2. /\ t.stream \in Text /\ t.answer \in Text /\ t.files \in SUBSET MediaPaths
        /\ t.closings \in Nat
    BY DEF TurnRecord
  <1>3. answer \in Text
    BY <1>2, EventsTyped
  <1>4. /\ StreamAfter(t.stream, ev) \in Text
        /\ t.files \cup FilesOf(ev) \in SUBSET MediaPaths
    BY <1>2, EventsTyped
  <1>5. twice \in BOOLEAN
    BY DEF TurnRecord
  <1>6. Applied(t, ev) =
          [t EXCEPT !.stream = StreamAfter(@, ev), !.files = @ \cup FilesOf(ev),
                    !.filedTwice = twice, !.closings = count, !.answer = answer]
    BY DEF Applied, TurnRecord
  <1>7. count \in Nat
    BY <1>1, <1>2
  <1>8. HIDE DEF answer, count, twice
  <1>9. QED  BY <1>1, <1>3, <1>4, <1>5, <1>6, <1>7 DEF TurnRecord

(* A sound batch for an open turn counts its closing.                         *)
LEMMA SoundApplied ==
  ASSUME NEW t \in TurnRecord, NEW r, Sound(r), t.closings = 0
  PROVE  /\ Applied(t, r.ev) \in TurnRecord
         /\ Applied(t, r.ev).closings = IF r.nz.finalized THEN 1 ELSE 0
  <1>1. r.ev \in Seq(Event)
    BY DEF Sound, Results
  <1>2. Cardinality(Finals(r.ev)) = IF r.nz.finalized THEN 1 ELSE 0
    BY FinalsCounted
  <1>3. QED  BY <1>1, <1>2, AppliedTyped

(* A batch without a final counts none.                                       *)
LEMMA NoClosingApplied ==
  ASSUME NEW t \in TurnRecord, NEW ev \in Seq(Event), Finals(ev) = {}
  PROVE  /\ Applied(t, ev) \in TurnRecord /\ Applied(t, ev).closings = t.closings
         /\ Applied(t, ev).lateEnd = t.lateEnd
  <1>1. Cardinality(Finals(ev)) = 0 /\ t.closings \in Nat
    BY FS_EmptySet DEF TurnRecord
  <1>2. /\ Applied(t, ev) \in TurnRecord
        /\ Applied(t, ev).closings = t.closings + Cardinality(Finals(ev))
        /\ Applied(t, ev).lateEnd = t.lateEnd
    <2>1. Cardinality(Finals(ev)) \in Nat
      BY <1>1
    <2>2. QED  BY <2>1, AppliedTyped
  <1>3. t.closings + 0 = t.closings
    BY <1>1
  <1>4. QED  BY <1>1, <1>2, <1>3

(* Noting a frame changes no more than what the record says of it.           *)
LEMMA NotedTyped ==
  ASSUME NEW t \in TurnRecord, NEW f \in Frame, NEW ev
  PROVE  /\ Noted(t, f, ev) \in TurnRecord /\ Noted(t, f, ev).closings = t.closings
         /\ Noted(t, f, ev).lateEnd <=>
              t.lateEnd \/ (/\ ev # <<>> /\ t.closings = 1 /\ f.stream = "lifecycle"
                            /\ f.phase \in {"end", "abandoned"})
  <1> DEFINE acked == t.ack = NoRun \/ f.run \in {t.ack, NoRun}
             ends == f.stream = "lifecycle" /\ f.phase \in {"end", "abandoned"}
             abandons == ev # <<>> /\ f.stream = "lifecycle" /\ f.phase = "abandoned"
             contributors == IF ev = <<>> THEN t.contributors ELSE t.contributors \cup {f.run}
             followOn == t.followOn \/ (acked /\ ends)
             abandoned == t.abandoned \/ abandons
             lateEnd == t.lateEnd \/ (ev # <<>> /\ t.closings = 1 /\ ends)
             files == IF abandons THEN {} ELSE t.files
  <1>1. f.run \in RunIds \cup {NoRun}
    BY FrameStreams
  <1>2. /\ contributors \in SUBSET (RunIds \cup {NoRun})
        /\ files \in SUBSET MediaPaths
    BY <1>1 DEF TurnRecord
  <1>3. followOn \in BOOLEAN /\ abandoned \in BOOLEAN /\ lateEnd \in BOOLEAN
    OBVIOUS
  <1>4. Noted(t, f, ev) =
          [t EXCEPT !.contributors = contributors, !.followOn = followOn,
                    !.abandoned = abandoned, !.lateEnd = lateEnd, !.files = files]
    BY DEF Noted, TurnRecord
  <1>5. Noted(t, f, ev).lateEnd = lateEnd
    <2>1. HIDE DEF contributors, followOn, abandoned, files, lateEnd
    <2>2. QED  BY <1>4 DEF TurnRecord
  <1>6. lateEnd <=> t.lateEnd \/ (ev # <<>> /\ t.closings = 1 /\ ends)
    OBVIOUS
  <1>7. HIDE DEF contributors, followOn, abandoned, files, lateEnd
  <1>8. QED  BY <1>2, <1>3, <1>4, <1>5, <1>6 DEF TurnRecord

-----------------------------------------------------------------------------
(* Frames that come when the turn is closed and the sink still has it *)

(* A lifecycle frame that abandons the turn to compaction. *)
Abandons(f) == f.stream = "lifecycle" /\ f.phase = "abandoned"

(* The wait a lifecycle end arms, on a closed turn too. *)
Ending(f) == IF f.stream = "lifecycle" /\ f.phase = "end" THEN {"lifecycle_end"} ELSE {}

(* The handlers that start from the closed object n0 end with r: they tell no  *)
(* text and no final, file each file once, and arm none of the waits but ws.   *)
Late(n0, r, ws) ==
  /\ r \in Results /\ r.nz.finalized
  /\ TextEvents(r.ev) = {} /\ Finals(r.ev) = {}
  /\ r.nz.text = n0.text /\ r.nz.pendingAckText = n0.pendingAckText
  /\ r.nz.recoveryAttempted = n0.recoveryAttempted
  /\ r.nz.ownRunIds = n0.ownRunIds
  /\ FilesOf(r.ev) \cap n0.mediaPaths = {}
  /\ FilesOf(r.ev) \cup n0.mediaPaths \subseteq r.nz.mediaPaths
  /\ ~NamesTwice(r.ev)
  /\ \A w \in Waits \ ws : r.nz.deadlines[w] \in {n0.deadlines[w], Off}
  /\ r.nz.compactionPending => n0.compactionPending

(* The batch of a closed turn starts with no event. *)
LEMMA ResultLate ==
  ASSUME NEW n \in Normalizer, n.finalized, NEW ws
  PROVE  Late(n, Result(n), ws)
  BY NoEvents DEF Late, Result, Results

(* An event that is neither text, media nor final. *)
LEMMA PushLate ==
  ASSUME NEW n0, NEW r, NEW ws, Late(n0, r, ws), NEW e \in Event,
         e.type \notin TextTypes \cup {"message.final", "media"}
  PROVE  Late(n0, Push(r, e), ws) /\ Push(r, e).nz = r.nz /\ Push(r, e).ev # <<>>
  <1> DEFINE p == Push(r, e)
  <1>1. r \in Results /\ r.ev \in Seq(Event)
    BY DEF Late, Results
  <1>2. p.ev = Append(r.ev, e) /\ p.nz = r.nz
    BY <1>1 DEF Push, Results
  <1>3. p \in Results
    BY <1>1, EventsAppended DEF Push, Results
  <1>4. HIDE DEF p
  <1>5. /\ \A type \in TextTypes \cup {"message.final", "media"} :
             Events(p.ev, type) = Events(r.ev, type)
        /\ \A i \in DOMAIN r.ev : p.ev[i] = r.ev[i]
    BY <1>1, <1>2, EventsAppended
  <1>6. /\ FilesOf(p.ev) = FilesOf(r.ev) /\ (NamesTwice(p.ev) <=> NamesTwice(r.ev))
        /\ TextEvents(p.ev) = TextEvents(r.ev) /\ Finals(p.ev) = Finals(r.ev)
    <2>1. Events(p.ev, "media") = Events(r.ev, "media")
      BY <1>5
    <2>2. QED  BY <1>5, <2>1, SameSaid DEF TextEvents, TextTypes, Finals, Events
  <1>7. p.ev # <<>>
    BY <1>1, <1>2
  <1>8. Late(n0, p, ws)
    BY <1>2, <1>3, <1>6 DEF Late
  <1>9. QED  BY <1>2, <1>7, <1>8 DEF p

(* What no batch tells of may change. *)
LEMMA NoteLate ==
  ASSUME NEW n0, NEW r, NEW ws, Late(n0, r, ws), NEW n \in Normalizer,
         n.finalized = r.nz.finalized, n.deadlines = r.nz.deadlines,
         n.text = r.nz.text, n.pendingAckText = r.nz.pendingAckText,
         n.recoveryAttempted = r.nz.recoveryAttempted, n.ownRunIds = r.nz.ownRunIds,
         n.mediaPaths = r.nz.mediaPaths, n.compactionPending => r.nz.compactionPending
  PROVE  Late(n0, [r EXCEPT !.nz = n], ws)
  <1>1. r \in Results
    BY DEF Late
  <1>2. /\ [r EXCEPT !.nz = n] \in Results
        /\ [r EXCEPT !.nz = n].nz = n /\ [r EXCEPT !.nz = n].ev = r.ev
    BY <1>1 DEF Results
  <1>3. QED  BY <1>2 DEF Late

(* The files of a late frame. *)
LEMMA CollectLate ==
  ASSUME NEW n0, NEW r, NEW ws, Late(n0, r, ws), NEW paths \in SUBSET MediaPaths
  PROVE  Late(n0, CollectMedia(r, paths), ws)
  <1> DEFINE new == paths \ r.nz.mediaPaths
             n == [r.nz EXCEPT !.mediaPaths = @ \cup new]
             e == [type |-> "media", items |-> new]
             c == CollectMedia(r, paths)
  <1>1. r \in Results /\ r.ev \in Seq(Event) /\ r.nz \in Normalizer
    BY DEF Late, Results
  <1>2. CASE new = {}
    BY <1>2 DEF CollectMedia
  <1>3. CASE new # {}
    <2>1. /\ n \in Normalizer /\ n.mediaPaths = r.nz.mediaPaths \cup new
          /\ n.finalized = r.nz.finalized /\ n.deadlines = r.nz.deadlines
          /\ n.text = r.nz.text /\ n.pendingAckText = r.nz.pendingAckText
          /\ n.recoveryAttempted = r.nz.recoveryAttempted /\ n.ownRunIds = r.nz.ownRunIds
          /\ n.compactionPending = r.nz.compactionPending
      BY <1>1 DEF Normalizer
    <2>2. e \in Event /\ e.type = "media" /\ e.items = new
      BY DEF Event
    <2>3. c.nz = n /\ c.ev = Append(r.ev, e) /\ c = [nz |-> n, ev |-> Append(r.ev, e)]
      BY <1>1, <1>3 DEF CollectMedia, Push, Results
    <2>4. new \cap r.nz.mediaPaths = {}
      OBVIOUS
    <2>5. HIDE DEF n, e, c, new
    <2>6. c \in Results
      BY <1>1, <2>1, <2>2, <2>3, EventsAppended DEF Results
    <2>7. e.items \cap FilesOf(r.ev) = {} /\ ~NamesTwice(r.ev)
      BY <2>2, <2>4 DEF Late
    <2>8. /\ FilesOf(c.ev) = FilesOf(r.ev) \cup new /\ ~NamesTwice(c.ev)
          /\ \A type \in TextTypes \cup {"message.final"} : Events(c.ev, type) = Events(r.ev, type)
      BY <1>1, <2>2, <2>3, <2>7, MediaAppended
    <2>9. TextEvents(c.ev) = {} /\ Finals(c.ev) = {}
      BY <2>8 DEF Late, TextEvents, TextTypes, Finals, Events
    <2>10. /\ FilesOf(c.ev) \cap n0.mediaPaths = {}
           /\ FilesOf(c.ev) \cup n0.mediaPaths \subseteq c.nz.mediaPaths
      BY <2>1, <2>3, <2>4, <2>8 DEF Late
    <2>11. Late(n0, c, ws)
      BY <2>1, <2>3, <2>6, <2>8, <2>9, <2>10 DEF Late
    <2>12. QED  BY <2>11 DEF c
  <1>4. QED  BY <1>2, <1>3

(* A text shows on no closed turn. *)
LEMMA VisibleLate ==
  ASSUME NEW n0, NEW r, NEW ws, Late(n0, r, ws), NEW said, NEW isSnapshot, NEW isFinal
  PROVE  ApplyVisible(r, said, isSnapshot, isFinal) = r /\ EmptyFinal(r) = r
  BY DEF Late, ApplyVisible, EmptyFinal

(* A chat frame is remembered, if anything. *)
LEMMA HandleChatLate ==
  ASSUME NEW n0, NEW r, NEW ws, Late(n0, r, ws), NEW f \in ChatFrame
  PROVE  Late(n0, HandleChat(r, f), ws)
  <1> DEFINE n == [r.nz EXCEPT !.lastDedupKey = {f}]
             fresh == [r EXCEPT !.nz.lastDedupKey = {f}]
  <1>1. r \in Results /\ r.nz \in Normalizer
    BY DEF Late, Results
  <1>2. /\ n \in Normalizer /\ n.finalized = r.nz.finalized /\ n.deadlines = r.nz.deadlines
        /\ n.text = r.nz.text /\ n.pendingAckText = r.nz.pendingAckText
        /\ n.recoveryAttempted = r.nz.recoveryAttempted /\ n.ownRunIds = r.nz.ownRunIds
        /\ n.mediaPaths = r.nz.mediaPaths /\ n.compactionPending = r.nz.compactionPending
    BY <1>1 DEF Normalizer
  <1>3. fresh = [r EXCEPT !.nz = n]
    BY <1>1 DEF Results
  <1>4. HIDE DEF n
  <1>5. Late(n0, fresh, ws)
    BY <1>2, <1>3, NoteLate
  <1>6. HandleChat(r, f) \in {r, fresh}
    <2> DEFINE isFinal == f.state = "final"
               shown == ApplyVisible(fresh, f.message, TRUE, isFinal)
               added == ApplyVisible(fresh, f.deltaText, FALSE, isFinal)
    <2>1. shown = fresh /\ added = fresh /\ EmptyFinal(fresh) = fresh
      <3>1. HIDE DEF fresh, isFinal
      <3>2. fresh.nz.finalized
        BY <1>5 DEF Late
      <3>3. QED  BY <3>2 DEF ApplyVisible, EmptyFinal
    <2>2. HandleChat(r, f) \in {r, shown, added, EmptyFinal(fresh), fresh}
      BY DEF HandleChat
    <2>3. HIDE DEF fresh, shown, added
    <2>4. QED  BY <2>1, <2>2
  <1>7. QED  BY <1>5, <1>6

(* Of an assistant frame only the files are told. *)
LEMMA HandleAssistantLate ==
  ASSUME NEW n0, NEW r, NEW ws, Late(n0, r, ws), NEW f \in AssistantFrame
  PROVE  Late(n0, HandleAssistant(r, f), ws)
  <1> DEFINE collected == CollectMedia(r, f.mediaUrls)
  <1>1. f.mediaUrls \in SUBSET MediaPaths
    BY DEF AssistantFrame
  <1>2. Late(n0, collected, ws)
    BY <1>1, CollectLate
  <1>3. HandleAssistant(r, f) \in
          {collected, ApplyVisible(collected, f.text, TRUE, FALSE),
           ApplyVisible(collected, f.delta, FALSE, FALSE)}
    BY DEF HandleAssistant
  <1>4. HIDE DEF collected
  <1>5. /\ ApplyVisible(collected, f.text, TRUE, FALSE) = collected
        /\ ApplyVisible(collected, f.delta, FALSE, FALSE) = collected
    BY <1>2, VisibleLate, ZenonT(30)
  <1>6. QED  BY <1>2, <1>3, <1>5

(* A tool frame has its card and its files. *)
LEMMA HandleToolLate ==
  ASSUME NEW n0, NEW r, NEW ws, Late(n0, r, ws), NEW f \in MessageToolFrame \cup OtherToolFrame
  PROVE  Late(n0, HandleTool(r, f), ws)
  <1>1. f.result \in SUBSET MediaPaths
    BY DEF MessageToolFrame, OtherToolFrame
  <1>2. ASSUME f \in MessageToolFrame
        PROVE  Late(n0, MessageTool(r, f), ws) /\ f.name = "message"
    <2> DEFINE e == [type |-> "tool.status", name |-> "message",
                     phase |-> f.phase, input |-> FALSE]
               card == Push(r, e)
               visible == MessageToolText(f.args)
               n == [card.nz EXCEPT !.hasVisibleToolText = TRUE]
               marked == [card EXCEPT !.nz.hasVisibleToolText = TRUE]
    <2>1. f.phase \in {"start", "result"} /\ f.name = "message"
      BY <1>2 DEF MessageToolFrame
    <2>2. e \in Event /\ e.type \notin TextTypes \cup {"message.final", "media"}
      BY <2>1 DEF Event, TextTypes
    <2>3. HIDE DEF e
    <2>4. Late(n0, card, ws)
      BY <2>2, PushLate
    <2>5. card \in Results /\ card.nz \in Normalizer
      BY <2>4 DEF Late, Results
    <2>6. MessageTool(r, f) = IF f.phase = "start" /\ visible # <<>>
                                THEN ApplyVisible(marked, visible, TRUE, FALSE) ELSE card
      BY DEF MessageTool, e
    <2>7. HIDE DEF card, visible
    <2>8. /\ n \in Normalizer /\ n.finalized = card.nz.finalized
          /\ n.deadlines = card.nz.deadlines
          /\ n.text = card.nz.text /\ n.pendingAckText = card.nz.pendingAckText
          /\ n.recoveryAttempted = card.nz.recoveryAttempted
          /\ n.ownRunIds = card.nz.ownRunIds /\ n.mediaPaths = card.nz.mediaPaths
          /\ n.compactionPending = card.nz.compactionPending
      BY <2>5 DEF Normalizer
    <2>9. marked = [card EXCEPT !.nz = n]
      BY <2>5 DEF Results
    <2>10. HIDE DEF n
    <2>11. Late(n0, marked, ws)
      BY <2>4, <2>8, <2>9, NoteLate
    <2>12. HIDE DEF marked
    <2>13. ApplyVisible(marked, visible, TRUE, FALSE) = marked
      BY <2>11, VisibleLate, ZenonT(30)
    <2>14. QED  BY <2>1, <2>4, <2>6, <2>11, <2>13
  <1>3. ASSUME f \in OtherToolFrame
        PROVE  Late(n0, OtherTool(r, f), ws) /\ f.name = "other"
    <2> DEFINE started == [r.nz EXCEPT !.toolArgs = @ \cup {f.call}]
               ended == [r.nz EXCEPT !.toolArgs = @ \ {f.call}]
               e == [type |-> "tool.status", name |-> "other", phase |-> "completed",
                     input |-> f.call \in r.nz.toolArgs]
    <2>1. /\ r.nz \in Normalizer /\ r \in Results /\ f.call \in ToolCalls
          /\ f.name = "other"
      BY <1>3 DEF OtherToolFrame, Late, Results
    <2>2. \A n \in {started, ended} :
            /\ n \in Normalizer /\ n.finalized = r.nz.finalized /\ n.deadlines = r.nz.deadlines
            /\ n.text = r.nz.text /\ n.pendingAckText = r.nz.pendingAckText
            /\ n.recoveryAttempted = r.nz.recoveryAttempted /\ n.ownRunIds = r.nz.ownRunIds
            /\ n.mediaPaths = r.nz.mediaPaths /\ n.compactionPending = r.nz.compactionPending
      BY <2>1 DEF Normalizer
    <2>3. e \in Event /\ e.type \notin TextTypes \cup {"message.final", "media"}
      BY DEF Event, TextTypes
    <2>4. OtherTool(r, f) = IF f.phase = "start" THEN [r EXCEPT !.nz = started]
                            ELSE Push([r EXCEPT !.nz = ended], e)
      BY <2>1 DEF OtherTool, Results
    <2>5. HIDE DEF started, ended, e
    <2>6. Late(n0, [r EXCEPT !.nz = started], ws) /\ Late(n0, [r EXCEPT !.nz = ended], ws)
      BY <2>2, NoteLate
    <2>7. Late(n0, Push([r EXCEPT !.nz = ended], e), ws)
      BY <2>3, <2>6, PushLate
    <2>8. QED  BY <2>1, <2>4, <2>6, <2>7
  <1>4. HandleTool(r, f) =
          CollectMedia(IF f.name = "message" THEN MessageTool(r, f) ELSE OtherTool(r, f), f.result)
    BY DEF HandleTool
  <1>5. Late(n0, IF f.name = "message" THEN MessageTool(r, f) ELSE OtherTool(r, f), ws)
    BY <1>2, <1>3
  <1>6. QED  BY <1>1, <1>4, <1>5, CollectLate

(* The compaction reset of a closed turn arms nothing. *)
LEMMA ResetLate ==
  ASSUME NEW n \in Normalizer, n.finalized
  PROVE  /\ ResetForCompaction(n) \in Normalizer
         /\ ResetForCompaction(n).finalized
         /\ ResetForCompaction(n).recoveryAttempted = n.recoveryAttempted
         /\ ResetForCompaction(n).text = <<>> /\ ResetForCompaction(n).pendingAckText = <<>>
         /\ \A w \in Waits : ResetForCompaction(n).deadlines[w] \in {n.deadlines[w], Off}
  <1> DEFINE reset == [n.deadlines EXCEPT !["empty_final"] = Off, !["private_ack"] = Off,
                                          !["lifecycle_end"] = Off]
             m == [n EXCEPT !.compactionPending = TRUE, !.text = <<>>,
                            !.hasSnapshot = FALSE, !.hasVisibleToolText = FALSE,
                            !.pendingAckText = <<>>, !.mediaPaths = {},
                            !.lastDedupKey = {}, !.deadlines = reset]
  <1>1. /\ reset \in [Waits -> Nat \cup {Off}]
        /\ \A w \in Waits : reset[w] \in {n.deadlines[w], Off}
    BY DEF Normalizer, Waits
  <1>2. <<>> \in Text
    BY DEF Text
  <1>3. ResetForCompaction(n) = ArmRecv(m)
    BY DEF ResetForCompaction
  <1>4. HIDE DEF reset
  <1>5. /\ m \in Normalizer /\ m.finalized /\ m.deadlines = reset
        /\ m.recoveryAttempted = n.recoveryAttempted
        /\ m.text = <<>> /\ m.pendingAckText = <<>>
    BY <1>1, <1>2 DEF Normalizer
  <1>6. HIDE DEF m
  <1>7. ArmRecv(m) = m
    BY <1>5 DEF ArmRecv
  <1>8. QED  BY <1>1, <1>3, <1>5, <1>7

(* A lifecycle frame, a compaction aside, has its status, and an end its grace. *)
LEMMA HandleLifecycleLate ==
  ASSUME NEW n0, NEW r, NEW f \in LifecycleFrame, f.phase # "abandoned",
         Late(n0, r, Ending(f))
  PROVE  /\ Late(n0, HandleLifecycle(r, f), Ending(f))
         /\ Ending(f) # {} => HandleLifecycle(r, f).ev # <<>>
  <1>1. r \in Results /\ r.nz \in Normalizer /\ r.nz.finalized
    BY DEF Late, Results
  <1>2. f.phase \in {"start", "end", "error"} /\ f.stream = "lifecycle"
    BY DEF LifecycleFrame
  <1>3. CASE f.phase = "error"
    BY <1>1, <1>3 DEF HandleLifecycle, Finalize, Ending
  <1>4. CASE f.phase = "end"
    <2> DEFINE n == Arm(r.nz, "lifecycle_end", LIFECYCLE_END_GRACE)
               e == [type |-> "run.status", status |-> "working"]
               o == [r EXCEPT !.nz = n]
    <2>1. e \in Event /\ e.type \notin TextTypes \cup {"message.final", "media"}
      BY DEF Event, TextTypes
    <2>2. HandleLifecycle(r, f) = Push(o, e) /\ Ending(f) = {"lifecycle_end"}
      BY <1>1, <1>2, <1>4 DEF HandleLifecycle, Results, Ending
    <2>3. /\ n \in Normalizer /\ n.finalized = r.nz.finalized
          /\ n.text = r.nz.text /\ n.pendingAckText = r.nz.pendingAckText
          /\ n.recoveryAttempted = r.nz.recoveryAttempted /\ n.ownRunIds = r.nz.ownRunIds
          /\ n.mediaPaths = r.nz.mediaPaths /\ n.compactionPending = r.nz.compactionPending
          /\ \A w \in Waits \ {"lifecycle_end"} : n.deadlines[w] = r.nz.deadlines[w]
      BY <1>1, NormalizerAssumption DEF Arm, Normalizer, Waits
    <2>4. HIDE DEF n, e
    <2>5. o \in Results /\ o.nz = n /\ o.ev = r.ev
      BY <1>1, <2>3 DEF Results
    <2>6. HIDE DEF o
    <2>7. Late(n0, o, {"lifecycle_end"})
      BY <2>2, <2>3, <2>5 DEF Late
    <2>8. QED  BY <2>1, <2>2, <2>7, PushLate
  <1>5. CASE f.phase = "start"
    <2> DEFINE waited == [r.nz EXCEPT !.compactionPending = FALSE]
               restarted == IF r.nz.compactionPending THEN ArmRecv(waited) ELSE r.nz
               n == ClearWait(restarted, "lifecycle_end")
               e == [type |-> "run.status", status |-> "running"]
               o == [r EXCEPT !.nz = n]
    <2>1. e \in Event /\ e.type \notin TextTypes \cup {"message.final", "media"}
      BY DEF Event, TextTypes
    <2>2. HandleLifecycle(r, f) = Push(o, e) /\ Ending(f) = {}
      BY <1>1, <1>2, <1>5 DEF HandleLifecycle, Results, Ending
    <2>3. restarted \in {r.nz, waited}
      BY <1>1 DEF ArmRecv, Normalizer
    <2>4. HIDE DEF restarted
    <2>5. /\ n \in Normalizer /\ n.finalized = r.nz.finalized
          /\ n.text = r.nz.text /\ n.pendingAckText = r.nz.pendingAckText
          /\ n.recoveryAttempted = r.nz.recoveryAttempted /\ n.ownRunIds = r.nz.ownRunIds
          /\ n.mediaPaths = r.nz.mediaPaths
          /\ n.compactionPending => r.nz.compactionPending
          /\ \A w \in Waits : n.deadlines[w] \in {r.nz.deadlines[w], Off}
      BY <1>1, <2>3 DEF ClearWait, Normalizer, Waits
    <2>6. HIDE DEF n, e
    <2>7. o \in Results /\ o.nz = n /\ o.ev = r.ev
      BY <1>1, <2>5 DEF Results
    <2>8. HIDE DEF o
    <2>9. Late(n0, o, Ending(f))
      BY <2>5, <2>7 DEF Late
    <2>10. QED  BY <2>1, <2>2, <2>9, PushLate
  <1>6. QED  BY <1>2, <1>3, <1>4, <1>5

(* Every admitted frame but the one that abandons the turn. *)
LEMMA DispatchLate ==
  ASSUME NEW n0 \in Normalizer, n0.finalized, NEW f \in Frame,
         f.stream # "unattributable", ~Abandons(f)
  PROVE  /\ Late(n0, Dispatch(Result(n0), f), Ending(f))
         /\ Ending(f) # {} => Dispatch(Result(n0), f).ev # <<>>
  <1> DEFINE r == Result(n0)
  <1>1. Late(n0, r, Ending(f)) /\ r \in Results /\ r.nz \in Normalizer
    BY ResultLate DEF Late, Results
  <1>2. HIDE DEF r
  <1>3. f.stream # "lifecycle" => Ending(f) = {}
    BY DEF Ending
  <1>4. CASE f.stream = "chat"
    BY <1>1, <1>3, <1>4, FrameStreams, HandleChatLate DEF Dispatch, r
  <1>5. CASE f.stream = "assistant"
    BY <1>1, <1>3, <1>5, FrameStreams, HandleAssistantLate DEF Dispatch, r
  <1>6. CASE f.stream = "tool"
    BY <1>1, <1>3, <1>6, FrameStreams, HandleToolLate DEF Dispatch, r
  <1>7. CASE f.stream = "lifecycle"
    <2>1. f \in LifecycleFrame /\ f.phase # "abandoned" /\ Dispatch(r, f) = HandleLifecycle(r, f)
      BY <1>7, FrameStreams DEF Abandons, Dispatch
    <2>2. QED  BY <1>1, <2>1, HandleLifecycleLate DEF r
  <1>8. CASE f.stream = "item"
    <2> DEFINE n == [r.nz EXCEPT !.sawMessageToolItem = @ \/ f.messageTool]
    <2>1. /\ n \in Normalizer /\ n.finalized = r.nz.finalized /\ n.deadlines = r.nz.deadlines
          /\ n.text = r.nz.text /\ n.pendingAckText = r.nz.pendingAckText
          /\ n.recoveryAttempted = r.nz.recoveryAttempted /\ n.ownRunIds = r.nz.ownRunIds
          /\ n.mediaPaths = r.nz.mediaPaths /\ n.compactionPending = r.nz.compactionPending
      BY <1>1 DEF Normalizer
    <2>2. Dispatch(r, f) = [r EXCEPT !.nz = n]
      BY <1>1, <1>8 DEF Dispatch, Results
    <2>3. HIDE DEF n
    <2>4. Late(n0, Dispatch(r, f), Ending(f))
      BY <1>1, <2>1, <2>2, NoteLate
    <2>5. QED  BY <1>3, <1>8, <2>4 DEF r
  <1>9. CASE f.stream = "provenance"
    <2> DEFINE e == [type |-> "provenance", run |-> f.run]
    <2>1. e \in Event /\ e.type \notin TextTypes \cup {"message.final", "media"}
      BY FrameStreams DEF Event, TextTypes
    <2>2. Dispatch(r, f) = IF f.valid THEN Push(r, e) ELSE r
      BY <1>9 DEF Dispatch
    <2>3. HIDE DEF e
    <2>4. Late(n0, Dispatch(r, f), Ending(f))
      BY <1>1, <2>1, <2>2, PushLate
    <2>5. QED  BY <1>3, <1>9, <2>4 DEF r
  <1>10. QED  BY <1>4, <1>5, <1>6, <1>7, <1>8, <1>9, FrameStreams

(* A compaction wipes what the closed turn holds, and arms nothing either. *)
Wiped(n0, r) ==
  /\ r \in Results /\ r.nz.finalized
  /\ TextEvents(r.ev) = {} /\ Finals(r.ev) = {} /\ FilesOf(r.ev) = {} /\ ~NamesTwice(r.ev)
  /\ r.ev # <<>>
  /\ r.nz.recoveryAttempted = n0.recoveryAttempted
  /\ r.nz.text = <<>> /\ r.nz.pendingAckText = <<>>
  /\ \A w \in Waits : r.nz.deadlines[w] \in {n0.deadlines[w], Off}

LEMMA AbandonedLate ==
  ASSUME NEW n0 \in Normalizer, n0.finalized, NEW f \in Frame, Abandons(f)
  PROVE  Wiped(n0, Dispatch(Result(n0), f))
  <1> DEFINE n == ResetForCompaction(n0)
             e == [type |-> "run.status", status |-> "compacting"]
             r == [nz |-> n, ev |-> <<e>>]
  <1>1. Dispatch(Result(n0), f) = r
    <2>1. Result(n0) = [nz |-> n0, ev |-> <<>>]
      BY DEF Result
    <2>2. Dispatch(Result(n0), f) = HandleLifecycle(Result(n0), f)
      BY DEF Abandons, Dispatch
    <2>3. HandleLifecycle(Result(n0), f) = Push([Result(n0) EXCEPT !.nz = n], e)
      BY <2>1 DEF Abandons, HandleLifecycle
    <2>4. HIDE DEF n, e
    <2>5. Push([Result(n0) EXCEPT !.nz = n], e) = [nz |-> n, ev |-> Append(<<>>, e)]
      <3>1. [Result(n0) EXCEPT !.nz = n] = [nz |-> n, ev |-> <<>>]
        BY <2>1
      <3>2. \A es : Push([nz |-> n, ev |-> es], e) = [nz |-> n, ev |-> Append(es, e)]
        BY DEF Push
      <3>3. QED  BY <3>1, <3>2
    <2>6. Append(<<>>, e) = <<e>>
      OBVIOUS
    <2>7. QED  BY <2>2, <2>3, <2>5, <2>6
  <1>2. /\ n \in Normalizer /\ n.finalized /\ n.recoveryAttempted = n0.recoveryAttempted
        /\ n.text = <<>> /\ n.pendingAckText = <<>>
        /\ \A w \in Waits : n.deadlines[w] \in {n0.deadlines[w], Off}
    BY ResetLate
  <1>3. e \in Event /\ e.type = "run.status"
    BY DEF Event
  <1>4. HIDE DEF n, e
  <1>5. <<e>> \in Seq(Event) /\ DOMAIN <<e>> = {1} /\ <<e>>[1] = e /\ <<e>> # <<>>
    BY <1>3
  <1>6. \A type \in TextTypes \cup {"message.final", "media"} : Events(<<e>>, type) = {}
    BY <1>3, <1>5 DEF Events, TextTypes
  <1>7. /\ TextEvents(<<e>>) = {} /\ Finals(<<e>>) = {} /\ FilesOf(<<e>>) = {}
        /\ ~NamesTwice(<<e>>)
    BY <1>6 DEF TextEvents, TextTypes, Finals, Events, FilesOf, NamesTwice
  <1>8. r \in Results /\ r.nz = n /\ r.ev = <<e>>
    BY <1>2, <1>5 DEF Results
  <1>9. HIDE DEF r
  <1>10. QED  BY <1>1, <1>2, <1>5, <1>7, <1>8 DEF Wiped

(* The object a frame is dispatched on: it adopts the run of a frame it lets *)
(* in during the follow-on window.                                           *)
Admitted(n, f) ==
  IF Admits(n, f) /\ ForeignRun(n, f) THEN [n EXCEPT !.ownRunIds = @ \cup {f.run}] ELSE n

(* Adopting a run changes nothing else. *)
LEMMA AdmittedFields ==
  ASSUME NEW n \in Normalizer, NEW f \in Frame
  PROVE  /\ Admitted(n, f) \in Normalizer
         /\ Admitted(n, f).finalized = n.finalized
         /\ Admitted(n, f).deadlines = n.deadlines
         /\ Admitted(n, f).text = n.text
         /\ Admitted(n, f).pendingAckText = n.pendingAckText
         /\ Admitted(n, f).recoveryAttempted = n.recoveryAttempted
         /\ Admitted(n, f).mediaPaths = n.mediaPaths
         /\ Admitted(n, f).compactionPending = n.compactionPending
         /\ ~ForeignRun(n, f) => Admitted(n, f).ownRunIds = n.ownRunIds
  <1>1. ForeignRun(n, f) => f.run \in RunIds
    BY FrameStreams DEF ForeignRun
  <1>2. QED  BY <1>1 DEF Admitted, Normalizer

(* A closed turn's frame is dispatched on the object that admitted it. *)
LEMMA FeedsLate ==
  ASSUME NEW n \in Normalizer, n.finalized, NEW f \in Frame
  PROVE  Feed(n, f) = IF Admits(n, f) THEN Dispatch(Result(Admitted(n, f)), f) ELSE Result(n)
  <1>1. ArmRecv(Admitted(n, f)) = Admitted(n, f)
    BY AdmittedFields DEF ArmRecv
  <1>2. Feed(n, f) = IF ~Admits(n, f) THEN Result(n)
                     ELSE Dispatch(Result(ArmRecv(Admitted(n, f))), f)
    BY DEF Feed, Admitted
  <1>3. QED  BY <1>1, <1>2

(* A frame fed to a closed turn: no text, no final, and no wait but the grace   *)
(* of a lifecycle end.                                                         *)
LEMMA FeedLate ==
  ASSUME NEW n \in Normalizer, n.finalized, NEW f \in Frame
  PROVE  LET r == Feed(n, f) IN
         /\ r \in Results /\ r.nz.finalized /\ Finals(r.ev) = {} /\ TextEvents(r.ev) = {}
         /\ r.nz.recoveryAttempted = n.recoveryAttempted
         /\ \A w \in Waits : \/ r.nz.deadlines[w] \in {n.deadlines[w], Off}
                             \/ w = "lifecycle_end" /\ Ending(f) # {} /\ r.ev # <<>>
         /\ Admits(n, f) /\ Abandons(f) => Wiped(n, r)
         /\ ~(Admits(n, f) /\ Abandons(f)) => Late(Admitted(n, f), r, Ending(f))
  <1> DEFINE r == Feed(n, f)
             m == Admitted(n, f)
  <1>1. /\ m \in Normalizer /\ m.finalized /\ m.deadlines = n.deadlines
        /\ m.recoveryAttempted = n.recoveryAttempted
        /\ r = IF Admits(n, f) THEN Dispatch(Result(m), f) ELSE Result(n)
    BY AdmittedFields, FeedsLate
  <1>2. HIDE DEF m, r
  <1>3. CASE ~Admits(n, f)
    <2>1. m = n /\ Late(m, r, Ending(f)) /\ Late(n, r, {})
      BY <1>1, <1>3, ResultLate DEF m, Admitted
    <2>2. /\ r \in Results /\ r.nz.finalized /\ Finals(r.ev) = {} /\ TextEvents(r.ev) = {}
          /\ r.nz.recoveryAttempted = n.recoveryAttempted
          /\ \A w \in Waits : r.nz.deadlines[w] \in {n.deadlines[w], Off}
      BY <2>1 DEF Late
    <2>3. QED  BY <1>3, <2>1, <2>2 DEF r, m
  <1>4. CASE Admits(n, f) /\ Abandons(f)
    <2>1. Wiped(m, r)
      BY <1>1, <1>4, AbandonedLate
    <2>2. Wiped(n, r)
      BY <1>1, <2>1 DEF Wiped
    <2>3. /\ r \in Results /\ r.nz.finalized /\ Finals(r.ev) = {} /\ TextEvents(r.ev) = {}
          /\ r.nz.recoveryAttempted = n.recoveryAttempted
          /\ \A w \in Waits : r.nz.deadlines[w] \in {n.deadlines[w], Off}
      BY <2>2 DEF Wiped
    <2>4. QED  BY <1>4, <2>2, <2>3 DEF r
  <1>5. CASE Admits(n, f) /\ ~Abandons(f)
    <2>1. r = Dispatch(Result(m), f) /\ f.stream # "unattributable"
      BY <1>1, <1>5 DEF Admits
    <2>2. Late(m, r, Ending(f)) /\ (Ending(f) # {} => r.ev # <<>>)
      BY <1>1, <1>5, <2>1, DispatchLate
    <2>3. /\ r \in Results /\ r.nz.finalized /\ Finals(r.ev) = {} /\ TextEvents(r.ev) = {}
          /\ r.nz.recoveryAttempted = n.recoveryAttempted
          /\ \A w \in Waits \ Ending(f) : r.nz.deadlines[w] \in {n.deadlines[w], Off}
      BY <1>1, <2>2 DEF Late
    <2>4. Ending(f) \subseteq {"lifecycle_end"}
      BY DEF Ending
    <2>5. QED  BY <1>5, <2>2, <2>3, <2>4 DEF r, m
  <1>6. QED  BY <1>3, <1>4, <1>5

-----------------------------------------------------------------------------
(* The invariant of the loop *)

IInv == TypeOK /\ DeadlinesMatchTurn /\ OneClosingPerTurn

(* The waits an object may have armed, given the record of its turn. *)
Matches(n, t) ==
  IF n.finalized THEN \A w \in Waits : Armed(n, w) => w = "lifecycle_end" /\ t.lateEnd
                 ELSE Armed(n, "recv")

(* The results of an open turn have no wait left once they close it. *)
LEMMA MatchedMatches ==
  ASSUME NEW n, Matched(n), NEW t
  PROVE  Matches(n, t)
  BY DEF Matched, Matches, Idle

(* What the invariant says of the object and its record. *)
LEMMA InvariantFacts ==
  ASSUME IInv
  PROVE  /\ nz \in Normalizer /\ turn \in TurnRecord /\ Matches(nz, turn)
         /\ turn.closings = IF nz.finalized THEN 1 ELSE 0
         /\ ~nz.finalized => Matched(nz) /\ turn.closings = 0
         /\ active \in BOOLEAN /\ waiting \in 0 .. MaxWaiting
         /\ loop \in {"running", "ended"} /\ race \in Nat \cup {Off}
         /\ fetching \in SUBSET {"this", "earlier"}
  BY DEF IInv, TypeOK, DeadlinesMatchTurn, OneClosingPerTurn, Matches, Matched

(* The loop's batch ends the turn of the sink, or leaves it. *)
LEMMA FlushTyped ==
  ASSUME NEW ev, active \in BOOLEAN, LoopFlushes(ev)
  PROVE  active' \in BOOLEAN
  BY DEF LoopFlushes

(* The end of an iteration re-establishes the invariant from a batch that    *)
(* did: it asks for a recovery and sets the timer, both without touching the *)
(* turn.                                                                     *)
LEMMA NextIterationInvariant ==
  ASSUME NEW n \in Normalizer, NEW t \in TurnRecord, Matches(n, t),
         t.closings = IF n.finalized THEN 1 ELSE 0,
         IInv, loop' = loop, active' \in BOOLEAN, waiting' = waiting, NextIteration(n, t)
  PROVE  IInv'
  <1> DEFINE m == MarkRecoveryAttempted(n)
             u == [t EXCEPT !.recoveries = @ + 1]
  <1>1. m \in Normalizer /\ m.finalized = n.finalized /\ m.deadlines = n.deadlines
    BY DEF MarkRecoveryAttempted, Normalizer
  <1>2. u \in TurnRecord /\ u.closings = t.closings /\ u.lateEnd = t.lateEnd
    BY DEF TurnRecord
  <1>3. Matches(m, u)
    <2>1. HIDE DEF m, u
    <2>2. QED  BY <1>1, <1>2 DEF Matches, Armed
  <1>4. race' \in Nat \cup {Off}
    BY NextTimeoutTyped DEF NextIteration
  <1>5. CASE WantsHistoryRecovery(n)
    <2>1. nz' = m /\ turn' = u /\ fetching' = fetching \cup {"this"}
      BY <1>5 DEF NextIteration
    <2>2. HIDE DEF m, u
    <2>3. QED  BY <1>1, <1>2, <1>3, <1>4, <2>1, InvariantFacts
               DEF IInv, TypeOK, DeadlinesMatchTurn, OneClosingPerTurn, Matches
  <1>6. CASE ~WantsHistoryRecovery(n)
    <2>1. nz' = n /\ turn' = t /\ fetching' = fetching
      BY <1>6 DEF NextIteration
    <2>2. QED  BY <1>4, <2>1, InvariantFacts
               DEF IInv, TypeOK, DeadlinesMatchTurn, OneClosingPerTurn, Matches
  <1>7. QED  BY <1>5, <1>6

(* A session begins without a turn: closed, idle, nothing fetched.           *)
LEMMA InitInvariant == Init => IInv
  <1> SUFFICES ASSUME Init PROVE IInv
    OBVIOUS
  <1>1. <<>> \in Text /\ NoDeadlines \in [Waits -> Nat \cup {Off}]
    BY DEF Text, NoDeadlines
  <1>2. nz \in Normalizer /\ nz.finalized = TRUE /\ \A w \in Waits : ~Armed(nz, w)
    BY <1>1 DEF Init, NewNormalizer, Normalizer, Armed, NoDeadlines
  <1>3. turn \in TurnRecord /\ turn.closings = 1
    BY <1>1 DEF Init, NewTurn, TurnRecord
  <1>4. 0 \in 0 .. MaxWaiting
    BY TurnLoopAssumption
  <1>5. QED  BY <1>2, <1>3, <1>4
             DEF Init, IInv, TypeOK, DeadlinesMatchTurn, OneClosingPerTurn

(* POST /send opens a turn, whatever the turn before it was doing.           *)
LEMMA StartTurnInvariant ==
  ASSUME IInv, NEW ack \in RunIds \cup {NoRun}, StartTurn(ack)
  PROVE  IInv'
  <1>1. nz' \in Normalizer /\ ~nz'.finalized /\ Matched(nz')
    <2>1. CASE ack = NoRun
      <3>1. BeginTurn(nz) \in Normalizer /\ ~BeginTurn(nz).finalized /\ Matched(BeginTurn(nz))
        <4> DEFINE new == [NewNormalizer EXCEPT !.finalized = FALSE]
        <4>1. <<>> \in Text /\ NoDeadlines \in [Waits -> Nat \cup {Off}]
          BY DEF Text, NoDeadlines
        <4>2. new \in Normalizer /\ new.finalized = FALSE
          BY <4>1 DEF Normalizer, NewNormalizer
        <4>3. BeginTurn(nz) = ArmRecv(new)
          BY DEF BeginTurn
        <4>4. HIDE DEF new
        <4>5. QED  BY <4>2, <4>3, ArmRecvMatches
      <3>2. QED  BY <2>1, <3>1 DEF StartTurn
    <2>2. CASE ack # NoRun
      BY <2>2, BeginTurnMatches DEF StartTurn
    <2>3. QED  BY <2>1, <2>2
  <1>2. turn' \in TurnRecord /\ turn'.closings = 0
    <2>1. <<>> \in Text
      BY DEF Text
    <2>2. NewTurn(ack) \in TurnRecord /\ NewTurn(ack).closings = 0
      BY <2>1 DEF NewTurn, TurnRecord
    <2>3. QED  BY <2>2 DEF StartTurn
  <1>3. /\ fetching' \in SUBSET {"this", "earlier"} /\ loop' = loop /\ race' = race
        /\ active' = TRUE /\ waiting' = waiting
    BY DEF StartTurn
  <1>4. QED  BY <1>1, <1>2, <1>3, InvariantFacts
             DEF IInv, TypeOK, DeadlinesMatchTurn, OneClosingPerTurn, Matched

(* A frame fed to a turn, open or closed, keeps the record typed. *)
LEMMA FedTyped ==
  ASSUME IInv, NEW f \in Frame
  PROVE  LET r == Feed(nz, f)
             u == Applied(Noted(turn, f, r.ev), r.ev)
         IN /\ r.nz \in Normalizer /\ u \in TurnRecord /\ Matches(r.nz, u)
            /\ u.closings = IF r.nz.finalized THEN 1 ELSE 0
  <1> DEFINE r == Feed(nz, f)
             t == Noted(turn, f, r.ev)
             u == Applied(t, r.ev)
  <1>1. /\ nz \in Normalizer /\ turn \in TurnRecord /\ Matches(nz, turn)
        /\ turn.closings = IF nz.finalized THEN 1 ELSE 0
    BY InvariantFacts
  <1>2. /\ t \in TurnRecord /\ t.closings = turn.closings
        /\ t.lateEnd <=> turn.lateEnd
             \/ (/\ r.ev # <<>> /\ turn.closings = 1 /\ f.stream = "lifecycle"
                 /\ f.phase \in {"end", "abandoned"})
    BY <1>1, NotedTyped
  <1>3. CASE ~nz.finalized
    <2>1. Sound(r)
      BY <1>1, <1>3, FeedSound, InvariantFacts
    <2>2. t.closings = 0
      BY <1>1, <1>2, <1>3
    <2>3. HIDE DEF r, t
    <2>4. r.nz \in Normalizer /\ Matches(r.nz, u)
      BY <2>1, MatchedMatches DEF Sound, Results
    <2>5. /\ u \in TurnRecord
          /\ u.closings = IF r.nz.finalized THEN 1 ELSE 0
      BY <1>2, <2>1, <2>2, SoundApplied
    <2>6. HIDE DEF u
    <2>7. QED  BY <2>4, <2>5 DEF u, t, r
  <1>4. CASE nz.finalized
    <2>1. /\ r \in Results /\ r.nz.finalized /\ Finals(r.ev) = {}
          /\ \A w \in Waits : \/ r.nz.deadlines[w] \in {nz.deadlines[w], Off}
                              \/ w = "lifecycle_end" /\ Ending(f) # {} /\ r.ev # <<>>
      BY <1>1, <1>4, FeedLate
    <2>2. t.closings = 1 /\ (turn.lateEnd => t.lateEnd)
          /\ (Ending(f) # {} /\ r.ev # <<>> => t.lateEnd)
      BY <1>1, <1>2, <1>4 DEF Ending
    <2>3. HIDE DEF r, t
    <2>4. r.nz \in Normalizer /\ r.ev \in Seq(Event)
      BY <2>1 DEF Results
    <2>5. u \in TurnRecord /\ u.closings = t.closings /\ u.lateEnd = t.lateEnd
      BY <1>2, <2>1, <2>4, NoClosingApplied
    <2>6. HIDE DEF u
    <2>7. Matches(r.nz, u)
      BY <1>1, <1>4, <2>1, <2>2, <2>5 DEF Matches, Armed
    <2>8. QED  BY <2>1, <2>2, <2>4, <2>5, <2>7 DEF u, t, r
  <1>5. QED  BY <1>3, <1>4

(* A frame is fed to the turn the sink has, open or closed, or dropped.      *)
LEMMA ReceiveInvariant ==
  ASSUME IInv, NEW f \in Frames, Receive(f)
  PROVE  IInv'
  <1> DEFINE r == Feed(nz, f)
             u == Applied(Noted(turn, f, r.ev), r.ev)
  <1>1. /\ nz \in Normalizer /\ turn \in TurnRecord /\ Matches(nz, turn) /\ f \in Frame
        /\ turn.closings = IF nz.finalized THEN 1 ELSE 0
        /\ active \in BOOLEAN /\ loop' = loop /\ waiting' = waiting
    BY TurnLoopAssumption, InvariantFacts DEF Receive
  <1>2. CASE ~active
    <2>1. NextIteration(nz, turn) /\ active' = active
      BY <1>2 DEF Receive
    <2>2. QED  BY <1>1, <2>1, NextIterationInvariant
  <1>3. CASE active
    <2>1. NextIteration(r.nz, u) /\ LoopFlushes(r.ev)
      BY <1>3 DEF Receive
    <2>2. active' \in BOOLEAN
      BY <1>1, <2>1, FlushTyped
    <2>3. /\ r.nz \in Normalizer /\ u \in TurnRecord /\ Matches(r.nz, u)
          /\ u.closings = IF r.nz.finalized THEN 1 ELSE 0
      BY <1>1, FedTyped
    <2>4. HIDE DEF r, u
    <2>5. QED  BY <1>1, <2>1, <2>2, <2>3, NextIterationInvariant
  <1>4. QED  BY <1>1, <1>2, <1>3

(* The sink of a closed turn clears its deadlines and tells nothing. *)
LEMMA TickLate ==
  ASSUME NEW n \in Normalizer, n.finalized
  PROVE  /\ Tick(n) = Result([n EXCEPT !.deadlines = NoDeadlines])
         /\ Tick(n).nz \in Normalizer /\ Tick(n).nz.finalized /\ Tick(n).ev = <<>>
         /\ \A w \in Waits : ~Armed(Tick(n).nz, w)
         /\ Tick(n).nz.recoveryAttempted = n.recoveryAttempted
  <1> DEFINE m == [n EXCEPT !.deadlines = NoDeadlines]
  <1>1. Tick(n) = Result(m)
    BY DEF Tick
  <1>2. NoDeadlines \in [Waits -> Nat \cup {Off}] /\ \A w \in Waits : NoDeadlines[w] = Off
    BY DEF NoDeadlines
  <1>3. /\ m \in Normalizer /\ m.finalized /\ m.deadlines = NoDeadlines
        /\ m.recoveryAttempted = n.recoveryAttempted
    BY <1>2 DEF Normalizer
  <1>4. Tick(n).nz = m /\ Tick(n).ev = <<>>
    BY <1>1 DEF Result
  <1>5. HIDE DEF m
  <1>6. QED  BY <1>1, <1>2, <1>3, <1>4 DEF Armed, m

(* A tick of a turn, open or closed, keeps the record typed. *)
LEMMA TickedTyped ==
  ASSUME IInv
  PROVE  LET r == Tick(nz)
             u == Applied(turn, r.ev)
         IN /\ r.nz \in Normalizer /\ u \in TurnRecord /\ Matches(r.nz, u)
            /\ u.closings = IF r.nz.finalized THEN 1 ELSE 0
  <1> DEFINE r == Tick(nz)
             u == Applied(turn, r.ev)
  <1>1. /\ nz \in Normalizer /\ turn \in TurnRecord /\ Matches(nz, turn)
        /\ turn.closings = IF nz.finalized THEN 1 ELSE 0
    BY InvariantFacts
  <1>2. CASE ~nz.finalized
    <2>1. Sound(r) /\ turn.closings = 0
      BY <1>1, <1>2, TickSound, InvariantFacts
    <2>2. HIDE DEF r
    <2>3. r.nz \in Normalizer /\ Matches(r.nz, u)
      BY <2>1, MatchedMatches DEF Sound, Results
    <2>4. QED  BY <1>1, <2>1, <2>3, SoundApplied DEF r
  <1>3. CASE nz.finalized
    <2>1. /\ r.nz \in Normalizer /\ r.nz.finalized /\ r.ev = <<>>
          /\ \A w \in Waits : ~Armed(r.nz, w)
      BY <1>1, <1>3, TickLate
    <2>2. HIDE DEF r
    <2>3. u \in TurnRecord /\ u.closings = turn.closings
      BY <1>1, <2>1, NoEvents, NoClosingApplied
    <2>4. QED  BY <1>1, <1>3, <2>1, <2>3 DEF Matches, r
  <1>4. QED  BY <1>2, <1>3

(* The timer resolves the deadlines of the turn the sink has, or nothing.    *)
LEMMA TimeoutInvariant ==
  ASSUME IInv, Timeout
  PROVE  IInv'
  <1> DEFINE r == Tick(nz)
             u == Applied(turn, r.ev)
  <1>1. /\ nz \in Normalizer /\ turn \in TurnRecord /\ Matches(nz, turn)
        /\ turn.closings = IF nz.finalized THEN 1 ELSE 0
        /\ active \in BOOLEAN /\ loop' = loop /\ waiting' = waiting
    BY InvariantFacts DEF Timeout
  <1>2. CASE ~active
    <2>1. NextIteration(nz, turn) /\ active' = active
      BY <1>2 DEF Timeout
    <2>2. QED  BY <1>1, <2>1, NextIterationInvariant
  <1>3. CASE active
    <2>1. NextIteration(r.nz, u) /\ LoopFlushes(r.ev)
      BY <1>3 DEF Timeout
    <2>2. active' \in BOOLEAN
      BY <1>1, <2>1, FlushTyped
    <2>3. /\ r.nz \in Normalizer /\ u \in TurnRecord /\ Matches(r.nz, u)
          /\ u.closings = IF r.nz.finalized THEN 1 ELSE 0
      BY TickedTyped
    <2>4. HIDE DEF r, u
    <2>5. QED  BY <1>1, <2>1, <2>2, <2>3, NextIterationInvariant
  <1>4. QED  BY <1>1, <1>2, <1>3

(* Once the turn is closed, or the sink has none, a close or a recovery tells *)
(* nothing and leaves the object as it is.                                   *)
LEMMA NothingToldInvariant ==
  ASSUME IInv, NEW r, r = Result(nz), nz' = r.nz, turn' = Applied(turn, r.ev)
  PROVE  nz' = nz /\ turn' \in TurnRecord /\ turn'.closings = turn.closings
           /\ turn'.lateEnd = turn.lateEnd
  <1>1. r.nz = nz /\ r.ev = <<>>
    BY DEF Result
  <1>2. QED  BY <1>1, InvariantFacts, NoEvents, NoClosingApplied

(* The connection closes: the open turn is aborted.                          *)
LEMMA CloseInvariant ==
  ASSUME IInv, Close
  PROVE  IInv'
  <1> DEFINE r == IF active THEN EndTurn(nz, "aborted") ELSE Result(nz)
  <1>1. /\ nz \in Normalizer /\ turn \in TurnRecord /\ Matches(nz, turn)
        /\ turn.closings = IF nz.finalized THEN 1 ELSE 0
        /\ active \in BOOLEAN /\ waiting \in 0 .. MaxWaiting
    BY InvariantFacts
  <1>2. /\ nz' = r.nz /\ turn' = Applied(turn, r.ev) /\ LoopFlushes(r.ev)
        /\ loop' = "ended" /\ fetching' = {} /\ race' = Off /\ waiting' = waiting
    BY DEF Close
  <1>3. active' \in BOOLEAN
    BY <1>1, <1>2, FlushTyped
  <1>4. CASE ~active \/ nz.finalized
    <2>1. r = Result(nz)
      BY <1>1, <1>4 DEF EndTurn, Finalize, Result
    <2>2. HIDE DEF r
    <2>3. /\ nz' = nz /\ turn' \in TurnRecord /\ turn'.closings = turn.closings
          /\ turn'.lateEnd = turn.lateEnd
      BY <1>2, <2>1, NothingToldInvariant
    <2>4. QED  BY <1>1, <1>2, <1>3, <2>3
               DEF IInv, TypeOK, DeadlinesMatchTurn, OneClosingPerTurn, Matches
  <1>5. CASE active /\ ~nz.finalized
    <2>1. Sound(r) /\ turn.closings = 0
      BY <1>1, <1>5, EndTurnSound, InvariantFacts
    <2>2. HIDE DEF r
    <2>3. /\ turn' \in TurnRecord
          /\ turn'.closings = IF nz'.finalized THEN 1 ELSE 0
      BY <1>1, <1>2, <2>1, SoundApplied
    <2>4. nz' \in Normalizer /\ Matches(nz', turn')
      BY <1>2, <2>1, MatchedMatches DEF Sound, Results
    <2>5. QED  BY <1>1, <1>2, <1>3, <2>3, <2>4
               DEF IInv, TypeOK, DeadlinesMatchTurn, OneClosingPerTurn, Matches
  <1>6. QED  BY <1>1, <1>4, <1>5

(* The transcript answers, in the turn that asked or in a later one.         *)
LEMMA RecoveryAnswerInvariant ==
  ASSUME IInv, NEW asker \in fetching, NEW said \in Recovered, RecoveryAnswer(asker, said)
  PROVE  IInv'
  <1> DEFINE r == IF active THEN RecoverVisibleText(nz, said) ELSE Result(nz)
  <1>1. /\ nz \in Normalizer /\ turn \in TurnRecord /\ Matches(nz, turn)
        /\ turn.closings = IF nz.finalized THEN 1 ELSE 0
        /\ active \in BOOLEAN /\ waiting \in 0 .. MaxWaiting
        /\ fetching \in SUBSET {"this", "earlier"} /\ loop \in {"running", "ended"}
        /\ race \in Nat \cup {Off} /\ said \in Said
    BY TurnLoopAssumption, InvariantFacts
  <1>2. /\ nz' = r.nz /\ turn' = Applied(turn, r.ev)
        /\ loop' = loop /\ race' = race /\ fetching' = fetching \ {asker}
    BY DEF RecoveryAnswer
  <1>3. active' \in BOOLEAN /\ waiting' \in 0 .. MaxWaiting
    <2>1. waiting < MaxWaiting
      BY DEF RecoveryAnswer
    <2>2. waiting' \in {waiting, waiting + 1} /\ active' \in {active, FALSE}
      BY DEF RecoveryAnswer
    <2>3. active' \in BOOLEAN
      BY <1>1, <2>2
    <2>4. waiting' \in 0 .. MaxWaiting
      BY <1>1, <2>1, <2>2, TurnLoopAssumption
    <2>5. QED  BY <2>3, <2>4
  <1>4. CASE ~active \/ nz.finalized
    <2>1. r = Result(nz)
      BY <1>1, <1>4 DEF RecoverVisibleText
    <2>2. HIDE DEF r
    <2>3. /\ nz' = nz /\ turn' \in TurnRecord /\ turn'.closings = turn.closings
          /\ turn'.lateEnd = turn.lateEnd
      BY <1>2, <2>1, NothingToldInvariant
    <2>4. QED  BY <1>1, <1>2, <1>3, <2>3
               DEF IInv, TypeOK, DeadlinesMatchTurn, OneClosingPerTurn, Matches
  <1>5. CASE active /\ ~nz.finalized
    <2>1. Sound(r) /\ turn.closings = 0
      BY <1>1, <1>5, RecoverSound, InvariantFacts
    <2>2. HIDE DEF r
    <2>3. /\ turn' \in TurnRecord
          /\ turn'.closings = IF nz'.finalized THEN 1 ELSE 0
      BY <1>1, <1>2, <2>1, SoundApplied
    <2>4. nz' \in Normalizer /\ Matches(nz', turn')
      BY <1>2, <2>1, MatchedMatches DEF Sound, Results
    <2>5. QED  BY <1>1, <1>2, <1>3, <2>3, <2>4
               DEF IInv, TypeOK, DeadlinesMatchTurn, OneClosingPerTurn, Matches
  <1>6. QED  BY <1>1, <1>4, <1>5

(* The write before a recovery's final is answered, or refused.              *)
LEMMA RecoveryWrittenInvariant ==
  ASSUME IInv, NEW ok \in BOOLEAN, RecoveryWritten(ok)
  PROVE  IInv'
  <1>1. active' \in BOOLEAN /\ waiting' \in 0 .. MaxWaiting
    <2>1. waiting > 0 /\ waiting' = waiting - 1 /\ active' = (active /\ ~ok)
      BY DEF RecoveryWritten
    <2>2. QED  BY <2>1, InvariantFacts, TurnLoopAssumption
  <1>2. UNCHANGED <<nz, loop, race, fetching, turn>>
    BY DEF RecoveryWritten
  <1>3. QED  BY <1>1, <1>2, InvariantFacts
             DEF IInv, TypeOK, DeadlinesMatchTurn, OneClosingPerTurn, Matches

(* Time passes.                                                              *)
LEMMA ElapsesInvariant ==
  ASSUME IInv, Elapses
  PROVE  IInv'
  <1>1. nz \in Normalizer /\ Matches(nz, turn) /\ race \in Nat \cup {Off}
    BY InvariantFacts
  <1>2. /\ nz' = Elapse(nz) /\ race' = Less(race)
        /\ UNCHANGED <<active, waiting, loop, fetching, turn>>
    BY DEF Elapses
  <1>3. race' \in Nat \cup {Off}
    BY <1>1, <1>2 DEF Less, Off
  <1>4. /\ nz' \in Normalizer
        /\ nz'.finalized = nz.finalized
        /\ \A w \in Waits : Armed(nz', w) <=> Armed(nz, w)
    BY <1>1, <1>2, ElapseMatches
  <1>5. Matches(nz', turn')
    BY <1>1, <1>2, <1>4 DEF Matches, Waits
  <1>6. QED  BY <1>2, <1>3, <1>4, <1>5, InvariantFacts
             DEF IInv, TypeOK, DeadlinesMatchTurn, OneClosingPerTurn, Matches

(* Every step keeps the invariant.                                           *)
LEMMA StepInvariant == IInv /\ [Next]_vars => IInv'
  <1> SUFFICES ASSUME IInv, [Next]_vars PROVE IInv'
    OBVIOUS
  <1>1. ASSUME NEW ack \in RunIds \cup {NoRun}, StartTurn(ack) PROVE IInv'
    BY <1>1, StartTurnInvariant
  <1>2. ASSUME NEW f \in Frames, Receive(f) PROVE IInv'
    BY <1>2, ReceiveInvariant
  <1>3. CASE Timeout
    BY <1>3, TimeoutInvariant
  <1>4. CASE Close
    BY <1>4, CloseInvariant
  <1>5. ASSUME NEW asker \in fetching, NEW said \in Recovered, RecoveryAnswer(asker, said)
        PROVE IInv'
    BY <1>5, RecoveryAnswerInvariant
  <1>6. ASSUME NEW ok \in BOOLEAN, RecoveryWritten(ok) PROVE IInv'
    BY <1>6, RecoveryWrittenInvariant
  <1>7. CASE Elapses
    BY <1>7, ElapsesInvariant
  <1>8. CASE UNCHANGED vars
    BY <1>8 DEF vars, IInv, TypeOK, DeadlinesMatchTurn, OneClosingPerTurn
  <1>9. QED  BY <1>1, <1>2, <1>3, <1>4, <1>5, <1>6, <1>7, <1>8 DEF Next

(* The inductive invariant holds of every behaviour of the session: types,     *)
(* deadlines that match the turn, one closing for each.                        *)
THEOREM LoopInvariant == Spec => []IInv
  BY InitInvariant, StepInvariant, PTL DEF Spec

(* The session's object, loop, timers and record stay well typed.            *)
THEOREM TypeCorrect == Spec => []TypeOK
  <1>1. IInv => TypeOK
    BY DEF IInv
  <1>2. QED  BY <1>1, LoopInvariant, PTL

(* An open turn always has its silence budget armed, so the loop cannot sleep  *)
(* through it; of the waits of a closed one only a lifecycle end may be armed,  *)
(* and only if the gateway sent it after the close while the sink still let     *)
(* frames in (normalizer.ts:660, run-manager.ts:143).                           *)
THEOREM DeadlinesMatch == Spec => []DeadlinesMatchTurn
  <1>1. IInv => DeadlinesMatchTurn
    BY DEF IInv
  <1>2. QED  BY <1>1, LoopInvariant, PTL

(* However finals, timers, errors, recoveries and the close interleave, a    *)
(* turn emits one terminal pair, exactly when it closes.                     *)
THEOREM ClosesOnce == Spec => []OneClosingPerTurn
  <1>1. IInv => OneClosingPerTurn
    BY DEF IInv
  <1>2. QED  BY <1>1, LoopInvariant, PTL

-----------------------------------------------------------------------------
(* What a batch leaves as it was, and what it says                            *)

(* Only a private ack is held, and a grace only runs while no reply shows.    *)
AckHeld(n) == n.pendingAckText = <<>> \/ IsPrivateAck(n.pendingAckText)

GraceQuiet(n) ==
  Armed(n, "private_ack") \/ Armed(n, "empty_final") => n.text = <<>> \/ IsPrivateAck(n.text)

(* What the message shows of a text: its chunks, each sanitized on its own.   *)
Piece(c) == IF <<c>> \in Directives THEN Cleaned[c].alone ELSE c
Pieces(text) == [i \in DOMAIN text |-> Piece(text[i])]

(* A text is shown chunk for chunk, nothing as nothing. *)
LEMMA PiecesTyped ==
  ASSUME NEW text \in Text
  PROVE  /\ Pieces(text) \in Text /\ Len(Pieces(text)) = Len(text)
         /\ Pieces(text) = <<>> <=> text = <<>>
  <1>1. /\ Len(text) \in Nat /\ DOMAIN text = 1 .. Len(text)
        /\ \A i \in 1 .. Len(text) : text[i] \in Chunks
    BY LenProperties DEF Text
  <1>2. \A c \in Chunks : Piece(c) \in Chunks
    BY NormalizerAssumption DEF Piece
  <1>3. Pieces(text) \in [1 .. Len(text) -> Chunks]
    BY <1>1, <1>2 DEF Pieces
  <1>4. Pieces(text) \in Seq(Chunks) /\ Len(Pieces(text)) = Len(text)
    BY <1>1, <1>3, IsASeq, LenProperties
  <1>5. \A s \in Seq(Chunks) : s = <<>> <=> Len(s) = 0
    BY EmptySeq
  <1>6. QED  BY <1>4, <1>5 DEF Text

(* A text with more to it shows the more. *)
LEMMA PiecesJoined ==
  ASSUME NEW s \in Text, NEW t \in Text
  PROVE  Pieces(s \o t) = Pieces(s) \o Pieces(t)
  <1>1. /\ s \in Seq(Chunks) /\ t \in Seq(Chunks)
        /\ Pieces(s) \in Seq(Chunks) /\ Pieces(t) \in Seq(Chunks)
        /\ Len(Pieces(s)) = Len(s) /\ Len(Pieces(t)) = Len(t)
    BY PiecesTyped DEF Text
  <1>2. /\ s \o t \in Seq(Chunks) /\ Len(s \o t) = Len(s) + Len(t)
        /\ \A i \in 1 .. Len(s) + Len(t) :
             (s \o t)[i] = IF i <= Len(s) THEN s[i] ELSE t[i - Len(s)]
    BY <1>1, ConcatProperties
  <1>3. /\ Pieces(s) \o Pieces(t) \in Seq(Chunks)
        /\ Len(Pieces(s) \o Pieces(t)) = Len(s) + Len(t)
        /\ \A i \in 1 .. Len(s) + Len(t) :
             (Pieces(s) \o Pieces(t))[i]
               = IF i <= Len(s) THEN Pieces(s)[i] ELSE Pieces(t)[i - Len(s)]
    <2> DEFINE ps == Pieces(s)
               pt == Pieces(t)
               m == Len(s)
               n == Len(t)
    <2>1. ps \in Seq(Chunks) /\ pt \in Seq(Chunks) /\ Len(ps) = m /\ Len(pt) = n
      BY <1>1
    <2>2. HIDE DEF ps, pt, m, n
    <2>3. /\ ps \o pt \in Seq(Chunks) /\ Len(ps \o pt) = Len(ps) + Len(pt)
          /\ \A i \in 1 .. Len(ps) + Len(pt) :
               (ps \o pt)[i] = IF i <= Len(ps) THEN ps[i] ELSE pt[i - Len(ps)]
      BY <2>1, ConcatProperties
    <2>4. /\ ps \o pt \in Seq(Chunks) /\ Len(ps \o pt) = m + n
          /\ \A i \in 1 .. m + n :
               (ps \o pt)[i] = IF i <= m THEN ps[i] ELSE pt[i - m]
      BY <2>1, <2>3
    <2>5. QED  BY <2>4 DEF ps, pt, m, n
  <1>4. Pieces(s \o t) \in Seq(Chunks) /\ Len(Pieces(s \o t)) = Len(s) + Len(t)
    BY <1>2, PiecesTyped DEF Text
  <1>5. ASSUME NEW i \in 1 .. Len(s) + Len(t)
        PROVE  Pieces(s \o t)[i] = (Pieces(s) \o Pieces(t))[i]
    <2>1. /\ DOMAIN (s \o t) = 1 .. Len(s) + Len(t)
          /\ DOMAIN s = 1 .. Len(s) /\ DOMAIN t = 1 .. Len(t)
          /\ Len(s) \in Nat /\ Len(t) \in Nat
      BY <1>1, <1>2, LenProperties
    <2>2. Pieces(s \o t)[i] = Piece((s \o t)[i])
      BY <2>1 DEF Pieces
    <2>3. CASE i <= Len(s)
      <3>1. Pieces(s)[i] = Piece(s[i])
        BY <2>1, <2>3 DEF Pieces
      <3>2. QED  BY <1>2, <1>3, <2>2, <2>3, <3>1
    <2>4. CASE ~(i <= Len(s))
      <3>1. i - Len(s) \in 1 .. Len(t)
        BY <2>1, <2>4
      <3>2. Pieces(t)[i - Len(s)] = Piece(t[i - Len(s)])
        BY <2>1, <3>1 DEF Pieces
      <3>3. QED  BY <1>2, <1>3, <2>2, <2>4, <3>2
    <2>5. QED  BY <2>3, <2>4
  <1>6. QED  BY <1>3, <1>4, <1>5, SeqEqual

(* What one field says is shown as it is sanitized; an ack has nothing to clean. *)
LEMMA SaidPieces ==
  /\ \A said \in Said : Sanitized(said) = Pieces(said)
  /\ \A ack : IsPrivateAck(ack) => Pieces(ack) = ack
  <1>1. ASSUME NEW c \in Chunks
        PROVE  InDirective(<<c>>, 1) <=> <<c>> \in Directives
    <2>1. ASSUME InDirective(<<c>>, 1) PROVE <<c>> \in Directives
      <3>1. PICK d \in Directives, j \in 0 .. 1 : Occurs(d, <<c>>, j) /\ j < 1 /\ 1 <= j + Len(d)
        BY <2>1 DEF InDirective
      <3>2. d \in Seq(Chunks) /\ d # <<>>
        BY NormalizerAssumption
      <3>3. j = 0 /\ Len(d) = 1 /\ DOMAIN d = 1 .. 1
        BY <3>1, <3>2, LenProperties DEF Occurs
      <3>4. d[1] = c
        BY <3>1, <3>3 DEF Occurs
      <3>5. d = <<c>>
        BY <3>2, <3>3, <3>4
      <3>6. QED  BY <3>5
    <2>2. ASSUME <<c>> \in Directives PROVE InDirective(<<c>>, 1)
      <3>1. Occurs(<<c>>, <<c>>, 0) /\ 0 < 1 /\ 1 <= 0 + Len(<<c>>) /\ 0 \in 0 .. Len(<<c>>)
        BY DEF Occurs
      <3>2. QED  BY <2>2, <3>1 DEF InDirective
    <2>3. QED  BY <2>1, <2>2
  <1>2. ASSUME NEW c \in Chunks
        PROVE  Sanitized(<<c>>) = Pieces(<<c>>)
    <2>1. DOMAIN <<c>> = {1} /\ <<c>>[1] = c /\ Len(<<c>>) = 1
      OBVIOUS
    <2>2. Sanitized(<<c>>) = [i \in {1} |-> Piece(c)]
      BY <1>1, <2>1 DEF Sanitized, Piece
    <2>3. Pieces(<<c>>) = [i \in {1} |-> Piece(c)]
      BY <2>1 DEF Pieces
    <2>4. QED  BY <2>2, <2>3
  <1>3. Sanitized(<<>>) = Pieces(<<>>)
    <2>1. DOMAIN <<>> = {}
      OBVIOUS
    <2>2. QED  BY <2>1 DEF Sanitized, Pieces
  <1>4. ASSUME NEW a \in AckChunks PROVE Pieces(<<a>>) = <<a>>
    <2>1. Piece(a) = a
      BY NormalizerAssumption DEF Piece
    <2>2. DOMAIN <<a>> = {1} /\ <<a>>[1] = a /\ <<a>> = [i \in {1} |-> a]
      OBVIOUS
    <2>3. QED  BY <2>1, <2>2 DEF Pieces
  <1>5. QED  BY <1>2, <1>3, <1>4 DEF Said, IsPrivateAck

(* A text sanitized at once differs from its pieces where streaming broke a   *)
(* path into chunks, and nowhere else.                                       *)
LEMMA SanitizedPieces ==
  ASSUME NEW text \in Text
  PROVE  /\ Len(Sanitized(text)) = Len(Pieces(text))
         /\ \A i \in DOMAIN Sanitized(text) :
              \/ Sanitized(text)[i] = Pieces(text)[i]
              \/ Len(text) > 1 /\ InDirective(text, i)
  <1>1. /\ DOMAIN Sanitized(text) = DOMAIN text /\ Len(Sanitized(text)) = Len(text)
        /\ Len(Pieces(text)) = Len(text)
    BY SanitizedTyped, ChunksCleaned, PiecesTyped DEF Text
  <1>2. /\ Len(text) \in Nat /\ DOMAIN text = 1 .. Len(text)
        /\ \A i \in 1 .. Len(text) : text[i] \in Chunks
    BY LenProperties DEF Text
  <1>3. ASSUME NEW i \in DOMAIN text, ~(Len(text) > 1 /\ InDirective(text, i))
        PROVE  Sanitized(text)[i] = Pieces(text)[i]
    <2>1. CASE ~InDirective(text, i)
      <3>1. <<text[i]>> \notin Directives
        <4>1. SUFFICES ASSUME <<text[i]>> \in Directives PROVE InDirective(text, i)
          BY <2>1
        <4> DEFINE d == <<text[i]>>
        <4>2. Len(d) = 1 /\ DOMAIN d = {1} /\ d[1] = text[i]
          OBVIOUS
        <4>3. i - 1 \in 0 .. Len(text) /\ (i - 1) + 1 = i /\ i - 1 < i /\ i <= Len(text)
          BY <1>2
        <4>4. HIDE DEF d
        <4>5. Occurs(d, text, i - 1)
          BY <4>2, <4>3 DEF Occurs
        <4>6. i <= (i - 1) + Len(d)
          BY <1>2, <4>2
        <4>7. QED  BY <4>1, <4>3, <4>5, <4>6 DEF InDirective, d
      <3>2. QED  BY <2>1, <3>1 DEF Sanitized, Pieces, Piece
    <2>2. CASE InDirective(text, i)
      <3>1. Len(text) = 1
        BY <1>2, <1>3, <2>2
      <3>2. text = <<text[1]>> /\ text[1] \in Chunks
        BY <1>2, <3>1 DEF Text
      <3>3. QED  BY <3>2, SaidPieces DEF Said
    <2>3. QED  BY <2>1, <2>2
  <1>4. QED  BY <1>1, <1>3

(* The handlers that start from n0 end with r.  The events of r tell, piece by *)
(* piece, what the object's text has become, and file each file once; a final  *)
(* has the whole text sanitized; of the graces, none but those in ws may have   *)
(* been armed.                                                                *)
Told(n0, r, ws) ==
  /\ Sound(r)
  /\ AckHeld(r.nz) /\ GraceQuiet(r.nz)
  /\ r.nz.recoveryAttempted = n0.recoveryAttempted
  /\ r.nz.ownRunIds = n0.ownRunIds
  /\ FilesOf(r.ev) \cap n0.mediaPaths = {}
  /\ FilesOf(r.ev) \cup n0.mediaPaths \subseteq r.nz.mediaPaths
  /\ \A w \in Waits \ ({"recv"} \cup ws) : r.nz.deadlines[w] \in {n0.deadlines[w], Off}
  /\ ~NamesTwice(r.ev)
  /\ r.nz.compactionPending => n0.compactionPending
  /\ StreamAfter(Pieces(n0.text), r.ev) = Pieces(r.nz.text)
  /\ \A i \in Finals(r.ev) : r.ev[i].text = Sanitized(AnswerText(r.nz))

(* No text has been told yet. *)
Quiet(n0, r, ws) ==
  Told(n0, r, ws) /\ TextEvents(r.ev) = {} /\ ~r.nz.finalized /\ r.nz.text = n0.text

(* A text event in a batch that told no text is what the stream becomes.      *)
LEMMA StreamAppended ==
  ASSUME NEW ev \in Seq(Event), NEW e \in Event, TextEvents(ev) = {}, NEW stream,
         e.type \in TextTypes
  PROVE  StreamAfter(stream, Append(ev, e))
           = IF e.type = "message.snapshot" THEN e.text ELSE stream \o e.text
  <1>1. Events(ev, "message.snapshot") = {} /\ Events(ev, "message.delta") = {}
    BY DEF TextEvents
  <1> DEFINE all == Append(ev, e)
             last == Len(ev) + 1
  <1>2. /\ \A type : e.type # type => Events(all, type) = Events(ev, type)
        /\ Events(all, e.type) = Events(ev, e.type) \cup {last}
        /\ all[last] = e
    BY EventsAppended
  <1>3. HIDE DEF all, last
  <1>4. First({last}) = last
    BY FirstIsMember
  <1>5. CASE e.type = "message.snapshot"
    <2>1. Events(all, "message.snapshot") = {last}
      BY <1>1, <1>2, <1>5
    <2>2. StreamAfter(stream, all) = e.text
      BY <1>2, <1>4, <2>1, StreamCases
    <2>3. QED  BY <1>5, <2>2 DEF all
  <1>6. CASE e.type = "message.delta"
    <2>1. Events(all, "message.delta") = {last} /\ Events(all, "message.snapshot") = {}
      BY <1>1, <1>2, <1>6
    <2>2. StreamAfter(stream, all) = stream \o e.text
      BY <1>2, <1>4, <2>1, StreamCases
    <2>3. QED  BY <1>6, <2>2 DEF all
  <1>7. QED  BY <1>5, <1>6 DEF TextTypes

(* A batch without text has left the text, and the turn, as they were. *)
LEMMA QuietText ==
  ASSUME NEW n0, NEW r, NEW ws, Quiet(n0, r, ws)
  PROVE  /\ r.nz.text = n0.text /\ Told(n0, r, ws) /\ Sound(r) /\ ~r.nz.finalized
         /\ r \in Results /\ r.nz \in Normalizer /\ r.ev \in Seq(Event) /\ Finals(r.ev) = {}
  BY DEF Quiet, Told, Sound, Results, ClosedOnce

-----------------------------------------------------------------------------
(* The building blocks of the handlers *)

(* An event that is neither text, media nor final tells nothing of these. *)
LEMMA PushTold ==
  ASSUME NEW n0, NEW r, NEW ws, Told(n0, r, ws), NEW e \in Event,
         e.type \notin TextTypes \cup {"message.final", "media"}
  PROVE  /\ Told(n0, Push(r, e), ws)
         /\ Push(r, e).nz = r.nz /\ TextEvents(Push(r, e).ev) = TextEvents(r.ev)
  <1> DEFINE p == Push(r, e)
  <1>1. r.ev \in Seq(Event) /\ r \in Results /\ Sound(r)
    BY DEF Told, Sound, Results
  <1>2. p.ev = Append(r.ev, e) /\ p.nz = r.nz /\ Sound(p)
    <2>1. p.ev = Append(r.ev, e)
      BY <1>1 DEF Push, Results
    <2>2. QED  BY <1>1, <2>1, PushSound
  <1>3. HIDE DEF p
  <1>4. \A type \in TextTypes \cup {"message.final", "media"} :
          Events(p.ev, type) = Events(r.ev, type)
    BY <1>1, <1>2, EventsAppended
  <1>5. \A i \in DOMAIN r.ev : p.ev[i] = r.ev[i]
    BY <1>1, <1>2, EventsAppended
  <1>6. /\ StreamAfter(Pieces(n0.text), p.ev) = StreamAfter(Pieces(n0.text), r.ev)
        /\ FilesOf(p.ev) = FilesOf(r.ev) /\ (NamesTwice(p.ev) <=> NamesTwice(r.ev))
    <2>1. Events(p.ev, "media") = Events(r.ev, "media")
      BY <1>4
    <2>2. \A type \in TextTypes : Events(p.ev, type) = Events(r.ev, type)
      BY <1>4
    <2>3. QED  BY <1>5, <2>1, <2>2, SameSaid
  <1>7. \A i \in Finals(p.ev) : i \in Finals(r.ev) /\ p.ev[i] = r.ev[i]
    BY <1>4, <1>5 DEF Finals, Events
  <1>8. TextEvents(p.ev) = TextEvents(r.ev)
    BY <1>4 DEF TextEvents, TextTypes
  <1>9. Told(n0, p, ws)
    BY <1>2, <1>6, <1>7 DEF Told
  <1>10. QED  BY <1>2, <1>8, <1>9 DEF p

(* A handler may change the object in what the batch does not tell.          *)
LEMMA ObjectTold ==
  ASSUME NEW n0, NEW r, NEW ws, Told(n0, r, ws), NEW n \in Normalizer,
         n.finalized = r.nz.finalized, Matched(n),
         AckHeld(n), GraceQuiet(n), n.text = r.nz.text,
         n.pendingAckText = r.nz.pendingAckText \/ Finals(r.ev) = {},
         n.recoveryAttempted = r.nz.recoveryAttempted, n.ownRunIds = r.nz.ownRunIds,
         n.mediaPaths = r.nz.mediaPaths, n.compactionPending => r.nz.compactionPending,
         \A w \in Waits \ ({"recv"} \cup ws) : n.deadlines[w] \in {r.nz.deadlines[w], Off}
  PROVE  /\ Told(n0, [r EXCEPT !.nz = n], ws)
         /\ [r EXCEPT !.nz = n].nz = n /\ [r EXCEPT !.nz = n].ev = r.ev
  <1> DEFINE o == [r EXCEPT !.nz = n]
  <1>1. Sound(o) /\ o.nz = n /\ o.ev = r.ev
    BY ObjectSound DEF Told
  <1>2. HIDE DEF o
  <1>3. \A i \in Finals(o.ev) : o.ev[i].text = Sanitized(AnswerText(o.nz))
    BY <1>1 DEF Told, AnswerText
  <1>4. \A w \in Waits \ ({"recv"} \cup ws) : o.nz.deadlines[w] \in {n0.deadlines[w], Off}
    BY <1>1 DEF Told
  <1>5. Told(n0, o, ws)
    BY <1>1, <1>3, <1>4 DEF Told
  <1>6. QED  BY <1>1, <1>5 DEF o

(* Collecting media tells of the files that were not told of yet.            *)
LEMMA CollectTold ==
  ASSUME NEW n0, NEW r, NEW ws, Told(n0, r, ws), NEW paths \in SUBSET MediaPaths
  PROVE  /\ Told(n0, CollectMedia(r, paths), ws)
         /\ TextEvents(CollectMedia(r, paths).ev) = TextEvents(r.ev)
         /\ CollectMedia(r, paths).nz.finalized = r.nz.finalized
         /\ CollectMedia(r, paths).nz.text = r.nz.text
  <1> DEFINE new == paths \ r.nz.mediaPaths
             n == [r.nz EXCEPT !.mediaPaths = @ \cup new]
             e == [type |-> "media", items |-> new]
             c == CollectMedia(r, paths)
  <1>1. /\ r.ev \in Seq(Event) /\ r \in Results /\ r.nz \in Normalizer /\ Sound(r)
        /\ Sound(c) /\ c.nz.finalized = r.nz.finalized
    BY CollectMediaSound DEF Told, Sound, Results
  <1>2. CASE new = {}
    BY <1>1, <1>2 DEF CollectMedia
  <1>3. CASE new # {}
    <2>1. c.nz = n /\ c.ev = Append(r.ev, e)
      BY <1>1, <1>3 DEF CollectMedia, Push, Results
    <2>2. e \in Event /\ e.type = "media" /\ e.items = new
      BY DEF Event
    <2>3. /\ n.mediaPaths = r.nz.mediaPaths \cup new
          /\ n.text = r.nz.text /\ n.pendingAckText = r.nz.pendingAckText
          /\ n.deadlines = r.nz.deadlines /\ n.compactionPending = r.nz.compactionPending
          /\ n.recoveryAttempted = r.nz.recoveryAttempted /\ n.ownRunIds = r.nz.ownRunIds
      BY <1>1 DEF Normalizer
    <2>4. new \cap r.nz.mediaPaths = {}
      OBVIOUS
    <2>5. HIDE DEF n, e, c, new
    <2>6. e.items \cap FilesOf(r.ev) = {} /\ ~NamesTwice(r.ev)
      BY <2>2, <2>4 DEF Told
    <2>7. /\ \A type \in TextTypes \cup {"message.final"} : Events(c.ev, type) = Events(r.ev, type)
          /\ \A i \in DOMAIN r.ev : c.ev[i] = r.ev[i]
          /\ FilesOf(c.ev) = FilesOf(r.ev) \cup new /\ ~NamesTwice(c.ev)
      BY <1>1, <2>1, <2>2, <2>6, EventsAppended, MediaAppended
    <2>8. StreamAfter(Pieces(n0.text), c.ev) = StreamAfter(Pieces(n0.text), r.ev)
      BY <2>7, SameSaid
    <2>9. /\ FilesOf(c.ev) \cap n0.mediaPaths = {}
          /\ FilesOf(c.ev) \cup n0.mediaPaths \subseteq c.nz.mediaPaths
      BY <2>1, <2>3, <2>4, <2>7 DEF Told
    <2>10. \A i \in Finals(c.ev) : c.ev[i].text = Sanitized(AnswerText(c.nz))
      <3>1. AnswerText(c.nz) = AnswerText(r.nz)
        BY <2>1, <2>3 DEF AnswerText
      <3>2. \A i \in Finals(c.ev) : i \in Finals(r.ev) /\ c.ev[i] = r.ev[i]
        BY <2>7 DEF Finals, Events
      <3>3. QED  BY <3>1, <3>2 DEF Told
    <2>11. AckHeld(c.nz) /\ GraceQuiet(c.nz)
      BY <2>1, <2>3 DEF Told, AckHeld, GraceQuiet, Armed
    <2>12. Told(n0, c, ws)
      BY <1>1, <2>1, <2>3, <2>7, <2>8, <2>9, <2>10, <2>11 DEF Told
    <2>13. TextEvents(c.ev) = TextEvents(r.ev)
      BY <2>7 DEF TextEvents, TextTypes
    <2>14. c.nz.text = r.nz.text
      BY <2>1, <2>3
    <2>15. QED  BY <1>1, <2>12, <2>13, <2>14 DEF c
  <1>4. QED  BY <1>2, <1>3

(* Where the events of a batch are once a pair is appended. *)
LEMMA PairAppended ==
  ASSUME NEW ev \in Seq(Event), NEW a \in Event, NEW b \in Event
  PROVE  /\ DOMAIN (ev \o <<a, b>>) = (DOMAIN ev) \cup {Len(ev) + 1, Len(ev) + 2}
         /\ \A i \in DOMAIN ev : (ev \o <<a, b>>)[i] = ev[i]
         /\ (ev \o <<a, b>>)[Len(ev) + 1] = a /\ (ev \o <<a, b>>)[Len(ev) + 2] = b
  <1> DEFINE all == ev \o <<a, b>>
  <1>1. /\ all[Len(ev) + 1] = a /\ all[Len(ev) + 2] = b
        /\ \A i \in 1 .. Len(ev) : all[i] = ev[i]
        /\ DOMAIN all = 1 .. Len(ev) + 2
        /\ DOMAIN ev = 1 .. Len(ev) /\ Len(ev) \in Nat
    OBVIOUS
  <1>2. 1 .. Len(ev) + 2 = (1 .. Len(ev)) \cup {Len(ev) + 1, Len(ev) + 2}
    BY <1>1
  <1>3. QED  BY <1>1, <1>2

(* Closing tells the answer: the text shown, or the ack held in its place.   *)
LEMMA FinalizeTold ==
  ASSUME NEW n0, NEW r, NEW ws, Told(n0, r, ws), NEW status \in {"final", "error", "aborted"}
  PROVE  Told(n0, Finalize(r, status), ws) /\ Finalize(r, status).nz.text = r.nz.text
  <1> DEFINE final == [type |-> "message.final", text |-> Sanitized(AnswerText(r.nz)),
                       error |-> status = "error"]
             run == [type |-> "run.status", status |-> status]
             closed == [r.nz EXCEPT !.finalized = TRUE, !.compactionPending = FALSE,
                                    !.deadlines = NoDeadlines]
             c == Finalize(r, status)
  <1>1. CASE r.nz.finalized
    BY <1>1 DEF Finalize
  <1>2. CASE ~r.nz.finalized
    <2>1. r.ev \in Seq(Event) /\ r.nz \in Normalizer /\ Finals(r.ev) = {} /\ Sound(c)
      BY <1>2, FinalizeSound DEF Told, Sound, Results, ClosedOnce
    <2>2. c.nz = closed /\ c.ev = r.ev \o <<final, run>>
      BY <1>2 DEF Finalize, TerminalPair
    <2>3. /\ closed.text = r.nz.text /\ closed.pendingAckText = r.nz.pendingAckText
          /\ closed.mediaPaths = r.nz.mediaPaths /\ ~closed.compactionPending
          /\ closed.recoveryAttempted = r.nz.recoveryAttempted
          /\ closed.ownRunIds = r.nz.ownRunIds
          /\ \A w \in Waits : closed.deadlines[w] = Off
      BY <2>1 DEF Normalizer, NoDeadlines
    <2>4. /\ DOMAIN c.ev = (DOMAIN r.ev) \cup {Len(r.ev) + 1, Len(r.ev) + 2}
          /\ \A i \in DOMAIN r.ev : c.ev[i] = r.ev[i]
          /\ c.ev[Len(r.ev) + 1] = final /\ c.ev[Len(r.ev) + 2] = run
      <3>1. final \in Event /\ run \in Event
        <4>1. Sanitized(AnswerText(r.nz)) \in Text
          BY <2>1, AnswerTextTyped, ChunksCleaned, SanitizedTyped DEF Text
        <4>2. QED  BY <4>1 DEF Event
      <3>2. HIDE DEF final, run, closed, c
      <3>3. QED  BY <2>1, <2>2, <3>1, PairAppended
    <2>5. /\ final.type = "message.final" /\ run.type = "run.status"
          /\ final.text = Sanitized(AnswerText(r.nz))
      OBVIOUS
    <2>6. HIDE DEF final, run, closed, c
    <2>7. /\ \A type \in TextTypes \cup {"media"} : Events(c.ev, type) = Events(r.ev, type)
          /\ \A i \in Finals(c.ev) : c.ev[i] = final
      BY <2>1, <2>4, <2>5 DEF Events, Finals, TextTypes
    <2>8. /\ StreamAfter(Pieces(n0.text), c.ev) = StreamAfter(Pieces(n0.text), r.ev)
          /\ FilesOf(c.ev) = FilesOf(r.ev) /\ (NamesTwice(c.ev) <=> NamesTwice(r.ev))
      <3>1. \A type \in TextTypes : Events(c.ev, type) = Events(r.ev, type)
        BY <2>7
      <3>2. Events(c.ev, "media") = Events(r.ev, "media")
        BY <2>7
      <3>3. QED  BY <2>4, <3>1, <3>2, SameSaid
    <2>9. AnswerText(c.nz) = AnswerText(r.nz)
      BY <2>2, <2>3 DEF AnswerText
    <2>10. AckHeld(c.nz) /\ GraceQuiet(c.nz)
      BY <2>2, <2>3 DEF Told, AckHeld, GraceQuiet, Armed, Waits
    <2>11. Told(n0, c, ws)
      BY <2>1, <2>2, <2>3, <2>5, <2>7, <2>8, <2>9, <2>10 DEF Told
    <2>12. QED  BY <2>2, <2>3, <2>11 DEF c
  <1>3. QED  BY <1>1, <1>2

(* An ack is only held while no reply is there.                              *)
LEMMA HoldAckTold ==
  ASSUME NEW n0, NEW r, NEW ws, Quiet(n0, r, ws), NEW ack \in Text, IsPrivateAck(ack),
         NEW isFinal \in BOOLEAN, "private_ack" \in ws
  PROVE  Told(n0, HoldAck(r, ack, isFinal), ws)
  <1> DEFINE held == [r.nz EXCEPT !.pendingAckText = ack]
             n == Arm(held, "private_ack", PRIVATE_ACK_GRACE)
  <1>1. /\ r.nz \in Normalizer /\ r \in Results /\ Matched(r.nz) /\ Told(n0, r, ws)
        /\ Finals(r.ev) = {}
    BY QuietText DEF Sound
  <1>2. CASE HasRealContent(r.nz)
    BY <1>1, <1>2, FinalizeTold DEF HoldAck
  <1>3. CASE ~HasRealContent(r.nz)
    <2>1. /\ held \in Normalizer
          /\ held.finalized = r.nz.finalized /\ held.deadlines = r.nz.deadlines
          /\ held.pendingAckText = ack /\ held.text = r.nz.text
          /\ held.recoveryAttempted = r.nz.recoveryAttempted
          /\ held.ownRunIds = r.nz.ownRunIds /\ held.mediaPaths = r.nz.mediaPaths
          /\ held.compactionPending = r.nz.compactionPending
      BY <1>1 DEF Normalizer
    <2>2. /\ PRIVATE_ACK_GRACE \in Nat
          /\ "private_ack" \in Waits
          /\ "recv" \in Waits \ {"private_ack"}
      BY NormalizerAssumption DEF Waits
    <2>3. HIDE DEF held
    <2>4. /\ n \in Normalizer /\ n.finalized = held.finalized
          /\ \A v \in Waits \ {"private_ack"} : n.deadlines[v] = held.deadlines[v]
      BY <2>1, <2>2, ArmTyped
    <2>5. /\ n.pendingAckText = ack /\ n.text = r.nz.text
          /\ n.recoveryAttempted = r.nz.recoveryAttempted
          /\ n.ownRunIds = r.nz.ownRunIds /\ n.mediaPaths = r.nz.mediaPaths
          /\ n.compactionPending = r.nz.compactionPending
      BY <2>1 DEF Arm, Normalizer
    <2>6. HoldAck(r, ack, isFinal) = [r EXCEPT !.nz = n]
      BY <1>1, <1>3 DEF HoldAck, Results, held
    <2>7. HIDE DEF n
    <2>8. Matched(n)
      BY <1>1, <2>1, <2>2, <2>4 DEF Matched, Armed, Quiet
    <2>9. AckHeld(n) /\ GraceQuiet(n)
      BY <1>3, <2>5 DEF AckHeld, GraceQuiet, HasRealContent
    <2>10. \A w \in Waits \ ({"recv"} \cup ws) : n.deadlines[w] \in {r.nz.deadlines[w], Off}
      BY <2>1, <2>4
    <2>11. QED  BY <1>1, <2>1, <2>4, <2>5, <2>6, <2>8, <2>9, <2>10, ObjectTold
  <1>4. QED  BY <1>2, <1>3

(* Text that is shown is told, and calls the graces of no reply off.         *)
LEMMA ShowTextTold ==
  ASSUME NEW n0, NEW r, NEW ws, Quiet(n0, r, ws), NEW said \in Said, said # <<>>,
         NEW isSnapshot \in BOOLEAN, NEW isFinal \in BOOLEAN
  PROVE  Told(n0, ShowText(r, said, isSnapshot, isFinal), ws)
  <1> DEFINE text == IF isSnapshot THEN said ELSE r.nz.text \o said
             n == [r.nz EXCEPT !.text = text,
                            !.hasSnapshot = @ \/ isSnapshot,
                            !.pendingAckText = <<>>,
                            !.deadlines = [@ EXCEPT !["empty_final"] = Off,
                                                    !["private_ack"] = Off]]
             e == [type |-> IF isSnapshot THEN "message.snapshot" ELSE "message.delta",
                   text |-> Sanitized(said)]
             o == [r EXCEPT !.nz = n]
             p == Push(o, e)
             pushed == CollectMedia(p, MediaIn[Head(said)])
  <1>1. /\ r.nz \in Normalizer /\ r \in Results /\ Matched(r.nz) /\ r.ev \in Seq(Event)
        /\ Sound(r) /\ ~r.nz.finalized /\ Finals(r.ev) = {} /\ r.nz.text = n0.text
        /\ TextEvents(r.ev) = {} /\ Told(n0, r, ws)
    BY QuietText DEF Sound, Quiet
  <1>2. said \in Text /\ MediaIn[Head(said)] \in SUBSET MediaPaths /\ text \in Text
    <2>1. said \in Text /\ MediaIn[Head(said)] \in SUBSET MediaPaths /\ r.nz.text \in Text
      BY <1>1, SaidIsText, NormalizerAssumption DEF Normalizer
    <2>2. QED  BY <2>1 DEF Text
  <1>3. /\ n \in Normalizer
        /\ n.finalized = r.nz.finalized
        /\ n.deadlines["recv"] = r.nz.deadlines["recv"]
        /\ n.deadlines["empty_final"] = Off /\ n.deadlines["private_ack"] = Off
        /\ n.deadlines["lifecycle_end"] = r.nz.deadlines["lifecycle_end"]
        /\ n.text = text /\ n.pendingAckText = <<>>
        /\ n.recoveryAttempted = r.nz.recoveryAttempted /\ n.ownRunIds = r.nz.ownRunIds
        /\ n.mediaPaths = r.nz.mediaPaths /\ n.compactionPending = r.nz.compactionPending
    <2>1. <<>> \in Text
      BY DEF Text
    <2> DEFINE cleared == [r.nz.deadlines EXCEPT !["empty_final"] = Off, !["private_ack"] = Off]
    <2>2. cleared \in [Waits -> Nat \cup {Off}]
      BY <1>1 DEF Normalizer, Waits
    <2>3. /\ cleared["recv"] = r.nz.deadlines["recv"]
          /\ cleared["lifecycle_end"] = r.nz.deadlines["lifecycle_end"]
          /\ cleared["empty_final"] = Off /\ cleared["private_ack"] = Off
      BY <1>1 DEF Normalizer, Waits
    <2>4. n = [r.nz EXCEPT !.text = text, !.hasSnapshot = @ \/ isSnapshot,
                           !.pendingAckText = <<>>, !.deadlines = cleared]
      BY <1>1 DEF Normalizer
    <2>5. HIDE DEF cleared, text
    <2>6. QED  BY <1>1, <1>2, <2>1, <2>2, <2>3, <2>4 DEF Normalizer
  <1>4. Matched(n)
    BY <1>1, <1>3 DEF Matched, Armed
  <1>5. e \in Event /\ e.type \in TextTypes /\ e.text = Pieces(said)
        /\ (e.type = "message.snapshot" <=> isSnapshot)
    <2>1. Sanitized(said) = Pieces(said) /\ Pieces(said) \in Text
      BY <1>2, SaidPieces, PiecesTyped
    <2>2. QED  BY <2>1 DEF Event, TextTypes
  <1>6. ShowText(r, said, isSnapshot, isFinal)
          = IF isFinal THEN Finalize(pushed, "final") ELSE pushed
    BY DEF ShowText
  <1>7. e.type \notin {"message.final", "media"}
    BY <1>5 DEF TextTypes
  <1>8. Pieces(text) = IF e.type = "message.snapshot" THEN e.text
                       ELSE Pieces(n0.text) \o e.text
    <2>1. n0.text \in Text
      BY <1>1 DEF Normalizer
    <2>2. Pieces(n0.text \o said) = Pieces(n0.text) \o Pieces(said)
      BY <1>2, <2>1, PiecesJoined
    <2>3. QED  BY <1>1, <1>5, <2>2
  <1>9. HIDE DEF n, e, text
  <1>10. Sound(o) /\ o.nz = n /\ o.ev = r.ev
    BY <1>1, <1>3, <1>4, ObjectSound
  <1>11. p.nz = n /\ p.ev = Append(r.ev, e) /\ Sound(p)
    <2>1. o \in Results
      BY <1>10 DEF Sound
    <2>2. HIDE DEF o
    <2>3. p.ev = Append(o.ev, e)
      BY <2>1 DEF Push, Results
    <2>4. QED  BY <1>5, <1>7, <1>10, <2>3, PushSound
  <1>12. HIDE DEF o, p
  <1>13. Told(n0, p, ws)
    <2>1. StreamAfter(Pieces(n0.text), p.ev) = Pieces(p.nz.text)
      BY <1>1, <1>3, <1>5, <1>8, <1>11, StreamAppended
    <2>2. /\ \A type \in {"message.final", "media"} : Events(p.ev, type) = Events(r.ev, type)
          /\ \A i \in DOMAIN r.ev : p.ev[i] = r.ev[i]
      BY <1>1, <1>5, <1>7, <1>11, EventsAppended
    <2>3. FilesOf(p.ev) = FilesOf(r.ev) /\ (NamesTwice(p.ev) <=> NamesTwice(r.ev))
      BY <2>2, SameSaid
    <2>4. Finals(p.ev) = {}
      BY <1>1, <2>2 DEF Finals, Events
    <2>5. AckHeld(p.nz) /\ GraceQuiet(p.nz)
      BY <1>3, <1>11 DEF AckHeld, GraceQuiet, Armed
    <2>6. \A w \in Waits \ ({"recv"} \cup ws) : p.nz.deadlines[w] \in {n0.deadlines[w], Off}
      BY <1>1, <1>3, <1>11 DEF Told, Waits
    <2>7. QED  BY <1>1, <1>3, <1>11, <2>1, <2>3, <2>4, <2>5, <2>6 DEF Told
  <1>14. Told(n0, pushed, ws)
    BY <1>2, <1>13, CollectTold
  <1>15. QED  BY <1>6, <1>14, FinalizeTold

(* The visible-text state machine tells what it shows; it arms a grace only   *)
(* for an ack.                                                               *)
LEMMA ApplyVisibleTold ==
  ASSUME NEW n0, NEW r, NEW ws, Quiet(n0, r, ws), NEW said \in Said, said # <<>>,
         NEW isSnapshot \in BOOLEAN, NEW isFinal \in BOOLEAN,
         isSnapshot /\ IsPrivateAck(said) => "private_ack" \in ws
  PROVE  Told(n0, ApplyVisible(r, said, isSnapshot, isFinal), ws)
  <1>1. Told(n0, r, ws) /\ said \in Text
    BY QuietText, SaidIsText
  <1>2. Told(n0, ShowText(r, said, isSnapshot, isFinal), ws)
    BY ShowTextTold
  <1>3. isSnapshot /\ IsPrivateAck(said) => Told(n0, HoldAck(r, said, isFinal), ws)
    BY <1>1, HoldAckTold
  <1>4. QED  BY <1>1, <1>2, <1>3 DEF ApplyVisible

-----------------------------------------------------------------------------
(* What the handlers tell *)

(* A handler may change what the batch says nothing of.                      *)
LEMMA FieldQuiet ==
  ASSUME NEW n0, NEW r, NEW ws, Quiet(n0, r, ws), NEW n \in Normalizer,
         n.finalized = r.nz.finalized, n.deadlines = r.nz.deadlines,
         n.text = r.nz.text, n.pendingAckText = r.nz.pendingAckText,
         n.recoveryAttempted = r.nz.recoveryAttempted, n.ownRunIds = r.nz.ownRunIds,
         n.mediaPaths = r.nz.mediaPaths, n.compactionPending = r.nz.compactionPending
  PROVE  Quiet(n0, [r EXCEPT !.nz = n], ws)
  <1>1. Told(n0, r, ws) /\ Matched(r.nz) /\ ~r.nz.finalized /\ TextEvents(r.ev) = {}
    BY QuietText DEF Quiet, Sound
  <1>2. Matched(n) /\ AckHeld(n) /\ GraceQuiet(n)
    BY <1>1 DEF Told, Matched, Idle, Armed, AckHeld, GraceQuiet
  <1>3. QED  BY <1>1, <1>2, ObjectTold DEF Quiet

(* A status, a card or a provenance is no text. *)
LEMMA PushQuiet ==
  ASSUME NEW n0, NEW r, NEW ws, Quiet(n0, r, ws), NEW e \in Event,
         e.type \notin TextTypes \cup {"message.final", "media"}
  PROVE  Quiet(n0, Push(r, e), ws)
  BY PushTold DEF Quiet

(* Neither is media. *)
LEMMA CollectQuiet ==
  ASSUME NEW n0, NEW r, NEW ws, Quiet(n0, r, ws), NEW paths \in SUBSET MediaPaths
  PROVE  Quiet(n0, CollectMedia(r, paths), ws)
  BY CollectTold DEF Quiet

(* An empty final closes the turn with what it shows, or waits for a reply.  *)
LEMMA EmptyFinalTold ==
  ASSUME NEW n0, NEW r, NEW ws, Quiet(n0, r, ws), "empty_final" \in ws
  PROVE  Told(n0, EmptyFinal(r), ws)
  <1> DEFINE n == Arm(r.nz, "empty_final", EMPTY_FINAL_GRACE)
  <1>1. /\ r.nz \in Normalizer /\ r \in Results /\ Matched(r.nz) /\ Told(n0, r, ws)
        /\ ~r.nz.finalized
    BY QuietText DEF Sound
  <1>2. CASE HasRealContent(r.nz)
    BY <1>1, <1>2, FinalizeTold DEF EmptyFinal
  <1>3. CASE ~HasRealContent(r.nz)
    <2>1. EMPTY_FINAL_GRACE \in Nat /\ "empty_final" \in Waits /\ "recv" \in Waits \ {"empty_final"}
      BY NormalizerAssumption DEF Waits
    <2>2. /\ n \in Normalizer /\ n.finalized = r.nz.finalized
          /\ \A v \in Waits \ {"empty_final"} : n.deadlines[v] = r.nz.deadlines[v]
      BY <1>1, <2>1, ArmTyped
    <2>3. /\ n.pendingAckText = r.nz.pendingAckText /\ n.text = r.nz.text
          /\ n.recoveryAttempted = r.nz.recoveryAttempted
          /\ n.ownRunIds = r.nz.ownRunIds /\ n.mediaPaths = r.nz.mediaPaths
          /\ n.compactionPending = r.nz.compactionPending
      BY <1>1 DEF Arm, Normalizer
    <2>4. EmptyFinal(r) = [r EXCEPT !.nz = n]
      BY <1>1, <1>3 DEF EmptyFinal, Results
    <2>5. HIDE DEF n
    <2>6. Matched(n)
      BY <1>1, <2>1, <2>2 DEF Matched, Armed
    <2>7. AckHeld(n) /\ GraceQuiet(n)
      BY <1>1, <1>3, <2>3 DEF Told, AckHeld, GraceQuiet, HasRealContent
    <2>8. \A w \in Waits \ ({"recv"} \cup ws) : n.deadlines[w] \in {r.nz.deadlines[w], Off}
      BY <2>2
    <2>9. QED  BY <1>1, <2>2, <2>3, <2>4, <2>6, <2>7, <2>8, ObjectTold
  <1>4. QED  BY <1>2, <1>3

(* The graces a frame may start over. *)
Restarting(f) == {w \in Waits \ {"recv"} : Restarts(w, f)}

(* What a chat frame tells; it may arm the grace of an ack or of an empty final. *)
LEMMA HandleChatTold ==
  ASSUME NEW n0, NEW r, NEW f \in ChatFrame, Quiet(n0, r, Restarting(f))
  PROVE  Told(n0, HandleChat(r, f), Restarting(f))
  <1> DEFINE n == [r.nz EXCEPT !.lastDedupKey = {f}]
             fresh == [r EXCEPT !.nz.lastDedupKey = {f}]
             isFinal == f.state = "final"
             ws == Restarting(f)
  <1>1. r.nz \in Normalizer /\ r \in Results /\ Told(n0, r, ws)
    BY QuietText
  <1>2. /\ n \in Normalizer /\ n.finalized = r.nz.finalized /\ n.deadlines = r.nz.deadlines
        /\ n.text = r.nz.text /\ n.pendingAckText = r.nz.pendingAckText
        /\ n.recoveryAttempted = r.nz.recoveryAttempted /\ n.ownRunIds = r.nz.ownRunIds
        /\ n.mediaPaths = r.nz.mediaPaths /\ n.compactionPending = r.nz.compactionPending
    BY <1>1 DEF Normalizer
  <1>3. fresh = [r EXCEPT !.nz = n]
    BY <1>1 DEF Results
  <1>4. f.message \in Said /\ f.deltaText \in Said /\ isFinal \in BOOLEAN /\ f.stream = "chat"
    BY DEF ChatFrame
  <1>5. /\ IsPrivateAck(f.message) => "private_ack" \in ws
        /\ isFinal => "empty_final" \in ws
    BY <1>4 DEF Restarting, Restarts, SaidBy, Waits
  <1>6. HIDE DEF n, ws
  <1>7. Quiet(n0, fresh, ws)
    BY <1>2, <1>3, FieldQuiet DEF ws
  <1>8. HandleChat(r, f) =
          IF f \in r.nz.lastDedupKey THEN r
          ELSE IF f.message # <<>> THEN ApplyVisible(fresh, f.message, TRUE, isFinal)
          ELSE IF f.deltaText # <<>> THEN ApplyVisible(fresh, f.deltaText, FALSE, isFinal)
          ELSE IF isFinal THEN EmptyFinal(fresh)
          ELSE fresh
    BY DEF HandleChat
  <1>9. HIDE DEF fresh, isFinal
  <1>10. /\ f.message # <<>> => Told(n0, ApplyVisible(fresh, f.message, TRUE, isFinal), ws)
         /\ f.deltaText # <<>> => Told(n0, ApplyVisible(fresh, f.deltaText, FALSE, isFinal), ws)
    BY <1>4, <1>5, <1>7, ApplyVisibleTold
  <1>11. isFinal => Told(n0, EmptyFinal(fresh), ws)
    BY <1>5, <1>7, EmptyFinalTold
  <1>12. Told(n0, HandleChat(r, f), ws)
    BY <1>1, <1>7, <1>8, <1>10, <1>11 DEF Quiet
  <1>13. QED  BY <1>12 DEF ws

(* What an assistant frame tells; it may arm the grace of an ack. *)
LEMMA HandleAssistantTold ==
  ASSUME NEW n0, NEW r, NEW f \in AssistantFrame, Quiet(n0, r, Restarting(f))
  PROVE  Told(n0, HandleAssistant(r, f), Restarting(f))
  <1> DEFINE collected == CollectMedia(r, f.mediaUrls)
             ws == Restarting(f)
  <1>1. /\ f.text \in Said /\ f.delta \in Said /\ f.mediaUrls \in SUBSET MediaPaths
        /\ f.stream = "assistant"
    BY DEF AssistantFrame
  <1>2. IsPrivateAck(f.text) => "private_ack" \in ws
    BY <1>1 DEF Restarting, Restarts, SaidBy, Waits
  <1>3. HandleAssistant(r, f) =
          IF f.text # <<>> THEN ApplyVisible(collected, f.text, TRUE, FALSE)
          ELSE IF f.delta # <<>> THEN ApplyVisible(collected, f.delta, FALSE, FALSE)
          ELSE collected
    BY DEF HandleAssistant
  <1>4. HIDE DEF ws
  <1>5. Quiet(n0, collected, ws)
    BY <1>1, CollectQuiet DEF ws
  <1>6. HIDE DEF collected
  <1>7. /\ f.text # <<>> => Told(n0, ApplyVisible(collected, f.text, TRUE, FALSE), ws)
        /\ f.delta # <<>> => Told(n0, ApplyVisible(collected, f.delta, FALSE, FALSE), ws)
    BY <1>1, <1>2, <1>5, ApplyVisibleTold
  <1>8. Told(n0, HandleAssistant(r, f), ws)
    BY <1>3, <1>5, <1>7 DEF Quiet
  <1>9. QED  BY <1>8 DEF ws

(* What a frame of the message tool tells; the text it sends may be an ack. *)
LEMMA MessageToolTold ==
  ASSUME NEW n0, NEW r, NEW f \in MessageToolFrame, Quiet(n0, r, Restarting(f))
  PROVE  Told(n0, MessageTool(r, f), Restarting(f))
  <1> DEFINE e == [type |-> "tool.status", name |-> "message",
                   phase |-> f.phase, input |-> FALSE]
             card == Push(r, e)
             visible == MessageToolText(f.args)
             n == [card.nz EXCEPT !.hasVisibleToolText = TRUE]
             marked == [card EXCEPT !.nz.hasVisibleToolText = TRUE]
             ws == Restarting(f)
  <1>1. /\ f.phase \in {"start", "result"} /\ f.args \in ToolArgs
        /\ f.stream = "tool" /\ f.name = "message"
    BY DEF MessageToolFrame
  <1>2. visible \in Said /\ visible \in {<<>>, f.args.text}
    BY <1>1 DEF MessageToolText, ToolArgs, Said
  <1>3. visible # <<>> /\ IsPrivateAck(visible) => "private_ack" \in ws
    BY <1>1, <1>2 DEF Restarting, Restarts, SaidBy, Waits
  <1>4. e \in Event /\ e.type \notin TextTypes \cup {"message.final", "media"}
    BY <1>1 DEF Event, TextTypes
  <1>5. HIDE DEF e, ws, visible
  <1>6. Quiet(n0, card, ws)
    BY <1>4, PushQuiet DEF ws
  <1>7. card \in Results /\ card.nz \in Normalizer
    BY <1>6, QuietText
  <1>8. MessageTool(r, f) =
           IF f.phase = "start" /\ visible # <<>>
             THEN ApplyVisible(marked, visible, TRUE, FALSE) ELSE card
    BY DEF MessageTool, card, e, visible
  <1>9. HIDE DEF card
  <1>10. /\ n \in Normalizer /\ n.finalized = card.nz.finalized /\ n.deadlines = card.nz.deadlines
         /\ n.text = card.nz.text /\ n.pendingAckText = card.nz.pendingAckText
         /\ n.recoveryAttempted = card.nz.recoveryAttempted /\ n.ownRunIds = card.nz.ownRunIds
         /\ n.mediaPaths = card.nz.mediaPaths /\ n.compactionPending = card.nz.compactionPending
    BY <1>7 DEF Normalizer
  <1>11. marked = [card EXCEPT !.nz = n]
    BY <1>7 DEF Results
  <1>12. HIDE DEF n
  <1>13. Quiet(n0, marked, ws)
    BY <1>6, <1>10, <1>11, FieldQuiet
  <1>14. HIDE DEF marked
  <1>15. visible # <<>> => Told(n0, ApplyVisible(marked, visible, TRUE, FALSE), ws)
    BY <1>2, <1>3, <1>13, ApplyVisibleTold
  <1>16. Told(n0, MessageTool(r, f), ws)
    BY <1>6, <1>8, <1>15 DEF Quiet
  <1>17. QED  BY <1>16 DEF ws

(* What a frame of another tool tells: its card. *)
LEMMA OtherToolTold ==
  ASSUME NEW n0, NEW r, NEW f \in OtherToolFrame, NEW ws, Quiet(n0, r, ws)
  PROVE  Told(n0, OtherTool(r, f), ws)
  <1> DEFINE started == [r.nz EXCEPT !.toolArgs = @ \cup {f.call}]
             ended == [r.nz EXCEPT !.toolArgs = @ \ {f.call}]
             e == [type |-> "tool.status", name |-> "other", phase |-> "completed",
                   input |-> f.call \in r.nz.toolArgs]
  <1>1. r.nz \in Normalizer /\ r \in Results /\ f.call \in ToolCalls
    BY QuietText DEF OtherToolFrame
  <1>2. \A n \in {started, ended} :
          /\ n \in Normalizer /\ n.finalized = r.nz.finalized /\ n.deadlines = r.nz.deadlines
          /\ n.text = r.nz.text /\ n.pendingAckText = r.nz.pendingAckText
          /\ n.recoveryAttempted = r.nz.recoveryAttempted /\ n.ownRunIds = r.nz.ownRunIds
          /\ n.mediaPaths = r.nz.mediaPaths /\ n.compactionPending = r.nz.compactionPending
    BY <1>1 DEF Normalizer
  <1>3. e \in Event /\ e.type \notin TextTypes \cup {"message.final", "media"}
    BY DEF Event, TextTypes
  <1>4. OtherTool(r, f) = IF f.phase = "start" THEN [r EXCEPT !.nz = started]
                          ELSE Push([r EXCEPT !.nz = ended], e)
    BY <1>1 DEF OtherTool, Results
  <1>5. HIDE DEF started, ended, e
  <1>6. Quiet(n0, [r EXCEPT !.nz = started], ws) /\ Quiet(n0, [r EXCEPT !.nz = ended], ws)
    BY <1>2, FieldQuiet
  <1>7. Quiet(n0, Push([r EXCEPT !.nz = ended], e), ws)
    BY <1>3, <1>6, PushQuiet
  <1>8. QED  BY <1>4, <1>6, <1>7 DEF Quiet

(* What a tool frame tells, the media of its result included. *)
LEMMA HandleToolTold ==
  ASSUME NEW n0, NEW r, NEW f \in MessageToolFrame \cup OtherToolFrame,
         Quiet(n0, r, Restarting(f))
  PROVE  Told(n0, HandleTool(r, f), Restarting(f))
  <1>1. f.result \in SUBSET MediaPaths
    BY DEF MessageToolFrame, OtherToolFrame
  <1>2. CASE f \in MessageToolFrame
    <2>1. f.name = "message"
      BY <1>2 DEF MessageToolFrame
    <2>2. QED  BY <1>1, <1>2, <2>1, MessageToolTold, CollectTold DEF HandleTool
  <1>3. CASE f \in OtherToolFrame
    <2>1. f.name = "other"
      BY <1>3 DEF OtherToolFrame
    <2>2. QED  BY <1>1, <1>3, <2>1, OtherToolTold, CollectTold DEF HandleTool
  <1>4. QED  BY <1>2, <1>3

(* Arming the silence budget changes that deadline alone. *)
LEMMA ArmRecvFields ==
  ASSUME NEW n \in Normalizer
  PROVE  /\ ArmRecv(n).text = n.text /\ ArmRecv(n).pendingAckText = n.pendingAckText
         /\ ArmRecv(n).recoveryAttempted = n.recoveryAttempted
         /\ ArmRecv(n).ownRunIds = n.ownRunIds /\ ArmRecv(n).mediaPaths = n.mediaPaths
         /\ ArmRecv(n).compactionPending = n.compactionPending
         /\ \A w \in Waits \ {"recv"} : ArmRecv(n).deadlines[w] = n.deadlines[w]
  BY DEF ArmRecv, Arm, Normalizer, Waits

(* A lifecycle frame that does not abandon the turn. *)
LEMMA HandleLifecycleTold ==
  ASSUME NEW n0, NEW r, NEW f \in LifecycleFrame, f.phase # "abandoned",
         Quiet(n0, r, Restarting(f))
  PROVE  Told(n0, HandleLifecycle(r, f), Restarting(f))
  <1> DEFINE ws == Restarting(f)
  <1>1. /\ r.nz \in Normalizer /\ r \in Results /\ Matched(r.nz) /\ Told(n0, r, ws)
        /\ ~r.nz.finalized /\ Finals(r.ev) = {} /\ AckHeld(r.nz) /\ GraceQuiet(r.nz)
    BY QuietText DEF Sound, Told
  <1>2. f.phase \in {"start", "end", "error"} /\ f.stream = "lifecycle"
    BY DEF LifecycleFrame
  <1>3. CASE f.phase = "error"
    BY <1>1, <1>3, FinalizeTold DEF HandleLifecycle
  <1>4. CASE f.phase = "end"
    <2> DEFINE n == Arm(r.nz, "lifecycle_end", LIFECYCLE_END_GRACE)
               e == [type |-> "run.status", status |-> "working"]
    <2>1. /\ LIFECYCLE_END_GRACE \in Nat /\ "lifecycle_end" \in Waits
          /\ {"recv", "empty_final", "private_ack"} = Waits \ {"lifecycle_end"}
      BY NormalizerAssumption DEF Waits
    <2>2. "lifecycle_end" \in ws
      BY <1>2, <1>4 DEF Restarting, Restarts, Waits
    <2>3. /\ n \in Normalizer /\ n.finalized = r.nz.finalized
          /\ \A v \in Waits \ {"lifecycle_end"} : n.deadlines[v] = r.nz.deadlines[v]
      BY <1>1, <2>1, ArmTyped
    <2>4. /\ n.pendingAckText = r.nz.pendingAckText /\ n.text = r.nz.text
          /\ n.recoveryAttempted = r.nz.recoveryAttempted
          /\ n.ownRunIds = r.nz.ownRunIds /\ n.mediaPaths = r.nz.mediaPaths
          /\ n.compactionPending = r.nz.compactionPending
      BY <1>1 DEF Arm, Normalizer
    <2>5. HandleLifecycle(r, f) = Push([r EXCEPT !.nz = n], e)
      BY <1>1, <1>4 DEF HandleLifecycle, Results
    <2>6. e \in Event /\ e.type \notin TextTypes \cup {"message.final", "media"}
      BY DEF Event, TextTypes
    <2>7. HIDE DEF n, e, ws
    <2>8. Matched(n) /\ AckHeld(n) /\ GraceQuiet(n)
      BY <1>1, <2>1, <2>3, <2>4 DEF Matched, Armed, AckHeld, GraceQuiet
    <2>9. \A w \in Waits \ ({"recv"} \cup ws) : n.deadlines[w] \in {r.nz.deadlines[w], Off}
      BY <2>2, <2>3
    <2>10. Told(n0, [r EXCEPT !.nz = n], ws)
      BY <1>1, <2>3, <2>4, <2>8, <2>9, ObjectTold
    <2>11. Told(n0, HandleLifecycle(r, f), ws)
      BY <2>5, <2>6, <2>10, PushTold
    <2>12. QED  BY <2>11 DEF ws
  <1>5. CASE f.phase = "start"
    <2> DEFINE m == [r.nz EXCEPT !.compactionPending = FALSE]
               restarted == IF r.nz.compactionPending THEN ArmRecv(m) ELSE r.nz
               n == ClearWait(restarted, "lifecycle_end")
               e == [type |-> "run.status", status |-> "running"]
    <2>1. /\ m \in Normalizer /\ m.finalized = r.nz.finalized /\ m.deadlines = r.nz.deadlines
          /\ m.text = r.nz.text /\ m.pendingAckText = r.nz.pendingAckText
          /\ m.recoveryAttempted = r.nz.recoveryAttempted /\ m.ownRunIds = r.nz.ownRunIds
          /\ m.mediaPaths = r.nz.mediaPaths /\ m.compactionPending = FALSE
      BY <1>1 DEF Normalizer
    <2>2. n \in Normalizer /\ ~n.finalized /\ Matched(n)
      BY <1>1, RestartMatches
    <2>3. HandleLifecycle(r, f) = Push([r EXCEPT !.nz = n], e)
      BY <1>1, <1>5 DEF HandleLifecycle, Results
    <2>4. e \in Event /\ e.type \notin TextTypes \cup {"message.final", "media"}
      BY DEF Event, TextTypes
    <2>5. HIDE DEF m
    <2>6. ArmRecv(m) \in Normalizer
      BY <1>1, <2>1, ArmRecvMatches
    <2>7. /\ restarted \in Normalizer
          /\ restarted.text = r.nz.text /\ restarted.pendingAckText = r.nz.pendingAckText
          /\ restarted.recoveryAttempted = r.nz.recoveryAttempted
          /\ restarted.ownRunIds = r.nz.ownRunIds /\ restarted.mediaPaths = r.nz.mediaPaths
          /\ restarted.compactionPending = FALSE
          /\ \A w \in Waits \ {"recv"} : restarted.deadlines[w] = r.nz.deadlines[w]
      BY <1>1, <2>1, <2>6, ArmRecvFields DEF Normalizer
    <2>8. HIDE DEF restarted
    <2>9. /\ n.text = r.nz.text /\ n.pendingAckText = r.nz.pendingAckText
          /\ n.recoveryAttempted = r.nz.recoveryAttempted
          /\ n.ownRunIds = r.nz.ownRunIds /\ n.mediaPaths = r.nz.mediaPaths
          /\ n.compactionPending = FALSE
      BY <2>7 DEF ClearWait, Normalizer
    <2>10. /\ n.deadlines["lifecycle_end"] = Off
           /\ \A w \in Waits \ {"recv", "lifecycle_end"} : n.deadlines[w] = r.nz.deadlines[w]
      BY <2>7 DEF ClearWait, Normalizer, Waits
    <2>11. HIDE DEF n, e
    <2>12. AckHeld(n) /\ GraceQuiet(n)
      BY <1>1, <2>9, <2>10 DEF AckHeld, GraceQuiet, Armed, Waits
    <2>13. \A w \in Waits \ ({"recv"} \cup ws) : n.deadlines[w] \in {r.nz.deadlines[w], Off}
      BY <2>10
    <2> HIDE DEF ws
    <2>14. n.finalized = r.nz.finalized
      BY <1>1, <2>2 DEF Normalizer
    <2>15. Told(n0, [r EXCEPT !.nz = n], ws)
      BY <1>1, <2>2, <2>9, <2>12, <2>13, <2>14, ObjectTold
    <2>16. Told(n0, HandleLifecycle(r, f), ws)
      BY <2>3, <2>4, <2>15, PushTold
    <2>17. QED  BY <2>16 DEF ws
  <1>6. QED  BY <1>2, <1>3, <1>4, <1>5

(* What a frame tells, whatever its stream, unless it abandons the turn. *)
LEMMA DispatchTold ==
  ASSUME NEW n0, NEW r, NEW f \in Frame, f.stream # "unattributable", ~Abandons(f),
         Quiet(n0, r, Restarting(f))
  PROVE  Told(n0, Dispatch(r, f), Restarting(f))
  <1> DEFINE ws == Restarting(f)
  <1>1. r.nz \in Normalizer /\ r \in Results
    BY QuietText
  <1>2. CASE f.stream = "chat"
    <2>1. f \in ChatFrame /\ Dispatch(r, f) = HandleChat(r, f)
      BY <1>2, FrameStreams DEF Dispatch
    <2>2. QED  BY <2>1, HandleChatTold
  <1>3. CASE f.stream = "assistant"
    <2>1. f \in AssistantFrame /\ Dispatch(r, f) = HandleAssistant(r, f)
      BY <1>3, FrameStreams DEF Dispatch
    <2>2. QED  BY <2>1, HandleAssistantTold
  <1>4. CASE f.stream = "tool"
    <2>1. f \in MessageToolFrame \cup OtherToolFrame /\ Dispatch(r, f) = HandleTool(r, f)
      BY <1>4, FrameStreams DEF Dispatch
    <2>2. QED  BY <2>1, HandleToolTold
  <1>5. CASE f.stream = "lifecycle"
    <2>1. /\ f \in LifecycleFrame /\ f.phase # "abandoned"
          /\ Dispatch(r, f) = HandleLifecycle(r, f)
      BY <1>5, FrameStreams DEF Dispatch, Abandons
    <2>2. QED  BY <2>1, HandleLifecycleTold
  <1>6. CASE f.stream = "item"
    <2> DEFINE n == [r.nz EXCEPT !.sawMessageToolItem = @ \/ f.messageTool]
    <2>1. f.messageTool \in BOOLEAN
      BY <1>6, FrameStreams DEF ItemFrame
    <2>2. /\ n \in Normalizer /\ n.finalized = r.nz.finalized /\ n.deadlines = r.nz.deadlines
          /\ n.text = r.nz.text /\ n.pendingAckText = r.nz.pendingAckText
          /\ n.recoveryAttempted = r.nz.recoveryAttempted /\ n.ownRunIds = r.nz.ownRunIds
          /\ n.mediaPaths = r.nz.mediaPaths /\ n.compactionPending = r.nz.compactionPending
      BY <1>1, <2>1 DEF Normalizer
    <2>3. Dispatch(r, f) = [r EXCEPT !.nz = n]
      BY <1>1, <1>6 DEF Dispatch, Results
    <2>4. HIDE DEF n
    <2>5. QED  BY <2>2, <2>3, FieldQuiet DEF Quiet
  <1>7. CASE f.stream = "provenance"
    <2> DEFINE e == [type |-> "provenance", run |-> f.run]
    <2>1. e \in Event /\ e.type \notin TextTypes \cup {"message.final", "media"}
      BY FrameStreams DEF Event, TextTypes
    <2>2. Dispatch(r, f) = IF f.valid THEN Push(r, e) ELSE r
      BY <1>7 DEF Dispatch
    <2>3. HIDE DEF e
    <2>4. QED  BY <2>1, <2>2, PushQuiet DEF Quiet
  <1>8. QED  BY <1>2, <1>3, <1>4, <1>5, <1>6, <1>7, FrameStreams

(* What the handlers that started from n0 have told when they are done: the   *)
(* answer of a turn they closed is the text of the stream, sanitized at once,  *)
(* or the held ack of a stream that is empty.                                *)
Batch(n0, r, ws) ==
  /\ Sound(r)
  /\ AckHeld(r.nz) /\ GraceQuiet(r.nz)
  /\ r.nz.recoveryAttempted = n0.recoveryAttempted
  /\ r.nz.ownRunIds = n0.ownRunIds
  /\ FilesOf(r.ev) \cap n0.mediaPaths = {}
  /\ FilesOf(r.ev) \cup n0.mediaPaths \subseteq r.nz.mediaPaths
  /\ \A w \in Waits \ ({"recv"} \cup ws) : r.nz.deadlines[w] \in {n0.deadlines[w], Off}
  /\ ~NamesTwice(r.ev)
  /\ r.nz.compactionPending => n0.compactionPending
  /\ ~r.nz.finalized => StreamAfter(Pieces(n0.text), r.ev) = Pieces(r.nz.text)
  /\ \A i \in Finals(r.ev) :
       \/ /\ r.ev[i].text = Sanitized(r.nz.text)
          /\ StreamAfter(Pieces(n0.text), r.ev) = Pieces(r.nz.text)
       \/ StreamAfter(Pieces(n0.text), r.ev) = <<>> /\ IsPrivateAck(r.ev[i].text)

(* What the handlers of one frame tell is a batch. *)
LEMMA ToldIsBatch ==
  ASSUME NEW n0, NEW r, NEW ws, Told(n0, r, ws)
  PROVE  Batch(n0, r, ws)
  <1> DEFINE stream == StreamAfter(Pieces(n0.text), r.ev)
             pending == r.nz.pendingAckText
  <1>1. /\ stream = Pieces(r.nz.text) /\ r.nz.text \in Text
        /\ pending = <<>> \/ IsPrivateAck(pending)
        /\ \A i \in Finals(r.ev) : r.ev[i].text = Sanitized(AnswerText(r.nz))
    BY DEF Told, AckHeld, Sound, Results, Normalizer
  <1>2. r.nz.text = <<>> => stream = <<>>
    BY <1>1, PiecesTyped
  <1>3. Sanitized(pending) = pending
    BY <1>1, AckSanitized
  <1>4. AnswerText(r.nz) = IF r.nz.text = <<>> THEN pending ELSE r.nz.text
    BY DEF AnswerText
  <1>5. HIDE DEF stream, pending
  <1>6. \A i \in Finals(r.ev) : \/ r.ev[i].text = Sanitized(r.nz.text)
                                \/ stream = <<>> /\ IsPrivateAck(r.ev[i].text)
    BY <1>1, <1>2, <1>3, <1>4
  <1>7. QED  BY <1>1, <1>6 DEF Told, Batch, stream

(* An open turn, as the handlers find it. *)
Ready(n) == n \in Normalizer /\ ~n.finalized /\ Matched(n) /\ AckHeld(n) /\ GraceQuiet(n)

(* The batch of an open turn starts quiet. *)
LEMMA ResultQuiet ==
  ASSUME NEW n, Ready(n), NEW ws
  PROVE  Quiet(n, Result(n), ws)
  <1>1. Sound(Result(n)) /\ Result(n).nz = n /\ Result(n).ev = <<>>
    BY ResultSound DEF Ready, Result
  <1>2. StreamAfter(Pieces(n.text), <<>>) = Pieces(n.text)
    BY NoEvents, SilentStream
  <1>3. QED  BY <1>1, <1>2, NoEvents DEF Quiet, Told, Ready

(* What is told of the object with its budget re-armed is told of the object. *)
LEMMA ArmedIsTold ==
  ASSUME NEW n \in Normalizer, NEW r, NEW ws, Told(ArmRecv(n), r, ws)
  PROVE  Told(n, r, ws)
  <1> DEFINE m == ArmRecv(n)
  <1>1. /\ m.text = n.text /\ m.recoveryAttempted = n.recoveryAttempted
        /\ m.ownRunIds = n.ownRunIds /\ m.mediaPaths = n.mediaPaths
        /\ m.compactionPending = n.compactionPending
        /\ \A w \in Waits \ {"recv"} : m.deadlines[w] = n.deadlines[w]
    BY ArmRecvFields
  <1>2. HIDE DEF m
  <1>3. Told(m, r, ws)
    BY DEF m
  <1>4. \A w \in Waits \ ({"recv"} \cup ws) : r.nz.deadlines[w] \in {n.deadlines[w], Off}
    BY <1>1, <1>3 DEF Told
  <1>5. QED  BY <1>1, <1>3, <1>4 DEF Told

(* The dispatch of a frame that is let in starts from a ready object.        *)
LEMMA FeedDispatches ==
  ASSUME NEW n, Ready(n), NEW f \in Frame, Admits(n, f)
  PROVE  /\ Ready(ArmRecv(Admitted(n, f)))
         /\ Feed(n, f) = Dispatch(Result(ArmRecv(Admitted(n, f))), f)
  <1> DEFINE a == Admitted(n, f)
             m == ArmRecv(a)
  <1>1. /\ a \in Normalizer /\ a.finalized = n.finalized /\ a.deadlines = n.deadlines
        /\ a.text = n.text /\ a.pendingAckText = n.pendingAckText
        /\ n \in Normalizer /\ ~n.finalized
    BY AdmittedFields DEF Ready
  <1>2. Feed(n, f) = Dispatch(Result(m), f)
    BY DEF Feed, Admitted
  <1>3. HIDE DEF a
  <1>4. /\ m \in Normalizer /\ m.finalized = n.finalized /\ Matched(m)
        /\ m.text = n.text /\ m.pendingAckText = n.pendingAckText
        /\ \A w \in Waits \ {"recv"} : m.deadlines[w] = n.deadlines[w]
    BY <1>1, ArmRecvMatches, ArmRecvFields
  <1>5. HIDE DEF m
  <1>6. AckHeld(m) /\ GraceQuiet(m)
    BY <1>4 DEF Ready, AckHeld, GraceQuiet, Armed, Waits
  <1>7. Ready(m)
    BY <1>1, <1>4, <1>6 DEF Ready
  <1>8. QED  BY <1>2, <1>7 DEF m, a

(* A frame that is let in tells a batch. *)
LEMMA FeedBatch ==
  ASSUME NEW n, Ready(n), NEW f \in Frame, Admits(n, f), ~Abandons(f)
  PROVE  Batch(Admitted(n, f), Feed(n, f), Restarting(f))
  <1> DEFINE a == Admitted(n, f)
             m == ArmRecv(a)
             r == Dispatch(Result(m), f)
  <1>1. Ready(m) /\ Feed(n, f) = r /\ a \in Normalizer
    BY FeedDispatches, AdmittedFields DEF Ready
  <1>2. f.stream # "unattributable"
    BY DEF Admits
  <1>3. HIDE DEF a
  <1>4. Told(m, r, Restarting(f))
    BY <1>1, <1>2, ResultQuiet, DispatchTold
  <1>5. HIDE DEF r
  <1>6. Told(a, r, Restarting(f))
    BY <1>1, <1>4, ArmedIsTold
  <1>7. QED  BY <1>1, <1>6, ToldIsBatch DEF a

(* A frame that is not let in leaves the object and tells nothing.            *)
LEMMA DroppedBatch ==
  ASSUME NEW n, Ready(n), NEW f \in Frame, ~Admits(n, f)
  PROVE  /\ Admitted(n, f) = n /\ Feed(n, f).ev = <<>>
         /\ Batch(n, Feed(n, f), {})
  <1>1. Admitted(n, f) = n /\ Feed(n, f) = Result(n) /\ Result(n).ev = <<>>
    BY DEF Admitted, Feed, Result
  <1>2. QED  BY <1>1, ResultQuiet, QuietText, ToldIsBatch

(* A turn abandoned to compaction starts over: nothing shown, held or filed,  *)
(* and no grace.                                                             *)
LEMMA AbandonedReset ==
  ASSUME NEW n, Ready(n), NEW f \in Frame, Admits(n, f), Abandons(f)
  PROVE  LET r == Feed(n, f)
         IN /\ Sound(r) /\ ~r.nz.finalized /\ r.ev # <<>>
            /\ AckHeld(r.nz) /\ GraceQuiet(r.nz)
            /\ r.nz.recoveryAttempted = n.recoveryAttempted
            /\ FilesOf(r.ev) = {} /\ ~NamesTwice(r.ev)
            /\ \A w \in Waits \ {"recv"} : r.nz.deadlines[w] = Off
  <1> DEFINE m == ArmRecv(Admitted(n, f))
             c == [m EXCEPT !.compactionPending = TRUE, !.text = <<>>,
                            !.hasSnapshot = FALSE, !.hasVisibleToolText = FALSE,
                            !.pendingAckText = <<>>, !.mediaPaths = {},
                            !.lastDedupKey = {},
                            !.deadlines = [@ EXCEPT !["empty_final"] = Off,
                                                    !["private_ack"] = Off,
                                                    !["lifecycle_end"] = Off]]
             o == [Result(m) EXCEPT !.nz = ResetForCompaction(m)]
             e == [type |-> "run.status", status |-> "compacting"]
             r == Push(o, e)
  <1>1. /\ Ready(m) /\ Feed(n, f) = Dispatch(Result(m), f)
        /\ m.recoveryAttempted = n.recoveryAttempted
    BY FeedDispatches, AdmittedFields, ArmRecvFields DEF Ready
  <1>2. Feed(n, f) = r
    BY <1>1 DEF Dispatch, HandleLifecycle, Abandons, Result
  <1>3. /\ c \in Normalizer /\ c.text = <<>> /\ c.pendingAckText = <<>>
        /\ c.recoveryAttempted = m.recoveryAttempted
        /\ \A w \in Waits \ {"recv"} : c.deadlines[w] = Off
    <2> DEFINE d == [m.deadlines EXCEPT !["empty_final"] = Off, !["private_ack"] = Off,
                                        !["lifecycle_end"] = Off]
    <2>1. m \in Normalizer /\ <<>> \in Text
      BY <1>1 DEF Ready, Text
    <2>2. d \in [Waits -> Nat \cup {Off}] /\ \A w \in Waits \ {"recv"} : d[w] = Off
      BY <2>1 DEF Normalizer, Waits
    <2>3. c = [m EXCEPT !.compactionPending = TRUE, !.text = <<>>,
                        !.hasSnapshot = FALSE, !.hasVisibleToolText = FALSE,
                        !.pendingAckText = <<>>, !.mediaPaths = {},
                        !.lastDedupKey = {}, !.deadlines = d]
      BY <2>1 DEF Normalizer
    <2>4. HIDE DEF d
    <2>5. QED  BY <2>1, <2>2, <2>3 DEF Normalizer
  <1>4. ResetForCompaction(m) = ArmRecv(c)
    BY DEF ResetForCompaction
  <1>5. /\ Sound(Result(m)) /\ Result(m).nz = m /\ Result(m).ev = <<>>
        /\ m \in Normalizer /\ ~m.finalized
    BY <1>1, ResultSound DEF Ready, Result
  <1>6. HIDE DEF c, m
  <1>7. /\ ArmRecv(c).text = <<>> /\ ArmRecv(c).pendingAckText = <<>>
        /\ ArmRecv(c).recoveryAttempted = n.recoveryAttempted
        /\ \A w \in Waits \ {"recv"} : ArmRecv(c).deadlines[w] = Off
    BY <1>1, <1>3, ArmRecvFields
  <1>8. /\ ResetForCompaction(m) \in Normalizer /\ ~ResetForCompaction(m).finalized
        /\ Matched(ResetForCompaction(m))
    BY <1>5, ResetMatches
  <1>9. ResetForCompaction(m).finalized = m.finalized
    BY <1>5, <1>8 DEF Normalizer
  <1>10. Sound(o) /\ o.nz = ArmRecv(c) /\ o.ev = <<>>
    BY <1>4, <1>5, <1>8, <1>9, ObjectSound
  <1>11. e \in Event /\ e.type = "run.status"
    BY DEF Event
  <1>12. HIDE DEF o, e
  <1>13. Sound(r) /\ r.nz = ArmRecv(c) /\ r.ev = Append(<<>>, e)
    <2>1. Sound(r) /\ r.nz = o.nz
      BY <1>10, <1>11, PushSound
    <2>2. r.ev = Append(o.ev, e)
      BY <1>10 DEF Push, Sound, Results
    <2>3. QED  BY <1>10, <2>1, <2>2
  <1>14. HIDE DEF r
  <1>15. <<>> \in Seq(Event) /\ r.ev # <<>>
    BY <1>13
  <1>16. Events(r.ev, "media") = {}
    <2>1. e.type # "media"
      BY <1>11
    <2>2. DOMAIN r.ev = {1} /\ r.ev[1] = e
      BY <1>11, <1>13
    <2>3. QED  BY <2>1, <2>2 DEF Events
  <1>17. FilesOf(r.ev) = {} /\ ~NamesTwice(r.ev)
    BY <1>16 DEF FilesOf, NamesTwice
  <1>18. AckHeld(r.nz) /\ GraceQuiet(r.nz)
    BY <1>7, <1>13 DEF AckHeld, GraceQuiet
  <1>19. ~r.nz.finalized
    BY <1>4, <1>8, <1>13
  <1>20. QED  BY <1>2, <1>7, <1>13, <1>15, <1>17, <1>18, <1>19

(* Closing a turn tells no text, and files nothing.                          *)
LEMMA FinalizeSilent ==
  ASSUME NEW r, Sound(r), NEW status \in {"final", "error", "aborted"},
         TextEvents(r.ev) = {}
  PROVE  TextEvents(Finalize(r, status).ev) = {}
  <1>1. CASE r.nz.finalized
    BY <1>1 DEF Finalize
  <1>2. CASE ~r.nz.finalized
    <2> DEFINE final == [type |-> "message.final", text |-> Sanitized(AnswerText(r.nz)),
                         error |-> status = "error"]
               run == [type |-> "run.status", status |-> status]
               all == r.ev \o <<final, run>>
    <2>1. r.ev \in Seq(Event) /\ r.nz \in Normalizer
      BY DEF Sound, Results
    <2>2. final \in Event /\ final.type = "message.final"
      <3>1. Sanitized(AnswerText(r.nz)) \in Text
        BY <2>1, AnswerTextTyped, ChunksCleaned, SanitizedTyped DEF Text
      <3>2. QED  BY <3>1 DEF Event
    <2>3. run \in Event /\ run.type = "run.status"
      BY DEF Event
    <2>4. Finalize(r, status).ev = all
      BY <1>2 DEF Finalize, TerminalPair
    <2>5. HIDE DEF final, run
    <2>6. /\ DOMAIN all = (DOMAIN r.ev) \cup {Len(r.ev) + 1, Len(r.ev) + 2}
          /\ \A i \in DOMAIN r.ev : all[i] = r.ev[i]
          /\ all[Len(r.ev) + 1] = final /\ all[Len(r.ev) + 2] = run
      BY <2>1, <2>2, <2>3, PairAppended
    <2>7. HIDE DEF all
    <2>8. \A i \in DOMAIN all : all[i].type \notin TextTypes
      <3>1. \A i \in DOMAIN r.ev : r.ev[i].type \notin TextTypes
        BY DEF TextEvents, Events, TextTypes
      <3>2. final.type \notin TextTypes /\ run.type \notin TextTypes
        BY <2>2, <2>3 DEF TextTypes
      <3>3. QED  BY <2>6, <3>1, <3>2
    <2>9. QED  BY <2>4, <2>8 DEF TextEvents, Events, TextTypes
  <1>3. QED  BY <1>1, <1>2

(* Closing an open turn outright tells its answer and nothing else. *)
LEMMA FinalizeResultTold ==
  ASSUME NEW n, Ready(n), NEW status \in {"final", "error", "aborted"}
  PROVE  /\ Told(n, Finalize(Result(n), status), {})
         /\ TextEvents(Finalize(Result(n), status).ev) = {}
         /\ Finalize(Result(n), status).nz.text = n.text
         /\ Finalize(Result(n), status).nz.finalized
  <1> DEFINE r == Finalize(Result(n), status)
  <1>1. Quiet(n, Result(n), {})
    BY ResultQuiet
  <1>2. /\ Told(n, Result(n), {}) /\ Sound(Result(n)) /\ TextEvents(Result(n).ev) = {}
    BY <1>1, QuietText DEF Quiet
  <1>3. Told(n, r, {}) /\ TextEvents(r.ev) = {} /\ r.nz.finalized
        /\ r.nz.text = Result(n).nz.text
    BY <1>2, FinalizeTold, FinalizeSilent, FinalizeSound
  <1>4. HIDE DEF r
  <1>5. QED  BY <1>3 DEF r, Result

(* The timer closes the turn with its text, or with the ack it held.         *)
LEMMA TickBatch ==
  ASSUME NEW n, Ready(n)
  PROVE  Batch(n, Tick(n), {})
  <1> DEFINE answered == [n EXCEPT !.text = AnswerText(n)]
             r == Finalize(Result(answered), "final")
  <1>1. n \in Normalizer /\ ~n.finalized /\ Matched(n) /\ AckHeld(n) /\ GraceQuiet(n)
    BY DEF Ready
  <1>2. CASE Expired(n, "private_ack")
    <2>1. /\ answered \in Normalizer /\ answered.finalized = n.finalized
          /\ answered.deadlines = n.deadlines /\ answered.text = AnswerText(n)
          /\ answered.pendingAckText = n.pendingAckText
          /\ answered.recoveryAttempted = n.recoveryAttempted
          /\ answered.ownRunIds = n.ownRunIds /\ answered.mediaPaths = n.mediaPaths
          /\ answered.compactionPending = n.compactionPending
      BY <1>1, AnswerTextTyped DEF Normalizer
    <2>2. n.text = <<>> \/ IsPrivateAck(n.text)
      BY <1>1, <1>2 DEF GraceQuiet, Expired, Armed, Off
    <2>3. Tick(n) = r
      BY <1>1, <1>2 DEF Tick
    <2>4. HIDE DEF answered
    <2>5. AckHeld(answered) /\ Matched(answered)
      BY <1>1, <2>1 DEF AckHeld, Matched, Idle, Armed
    <2>6. GraceQuiet(answered)
      BY <1>1, <2>1, <2>2 DEF GraceQuiet, AnswerText, AckHeld
    <2>7. Ready(answered)
      BY <1>1, <2>1, <2>5, <2>6 DEF Ready
    <2>8. /\ Told(answered, r, {}) /\ TextEvents(r.ev) = {}
          /\ r.nz.text = answered.text /\ r.nz.finalized
      BY <2>7, FinalizeResultTold
    <2>9. HIDE DEF r
    <2>10. StreamAfter(Pieces(n.text), r.ev) = Pieces(n.text)
      BY <2>8, SilentStream
    <2>11. \A i \in Finals(r.ev) :
             \/ r.ev[i].text = Sanitized(r.nz.text) /\ r.nz.text = n.text
             \/ Pieces(n.text) = <<>> /\ IsPrivateAck(r.ev[i].text)
      <3>1. \A i \in Finals(r.ev) : r.ev[i].text = Sanitized(AnswerText(r.nz))
        BY <2>8 DEF Told
      <3>2. n.text # <<>> => r.nz.text = n.text /\ AnswerText(r.nz) = n.text
        BY <2>1, <2>8 DEF AnswerText
      <3>3. ASSUME n.text = <<>>
            PROVE  /\ Pieces(n.text) = <<>>
                   /\ \/ IsPrivateAck(AnswerText(r.nz))
                      \/ AnswerText(r.nz) = <<>> /\ r.nz.text = <<>>
        <4>1. Pieces(n.text) = <<>>
          BY <1>1, <3>3, PiecesTyped DEF Normalizer
        <4>2. r.nz.text = n.pendingAckText /\ AckHeld(r.nz)
          BY <2>1, <2>8, <3>3 DEF AnswerText, Told
        <4>3. QED  BY <1>1, <4>1, <4>2 DEF AnswerText, AckHeld
      <3>4. \A i \in Finals(r.ev) : IsPrivateAck(AnswerText(r.nz)) => IsPrivateAck(r.ev[i].text)
        BY <3>1, AckSanitized
      <3>5. QED  BY <3>1, <3>2, <3>3, <3>4
    <2>12. Batch(n, r, {})
      BY <2>1, <2>8, <2>10, <2>11 DEF Told, Batch
    <2>13. QED  BY <2>3, <2>12
  <1>3. CASE ~Expired(n, "private_ack") /\ Due(n)
    <2>1. Tick(n) = Finalize(Result(n), "final")
      BY <1>1, <1>3 DEF Tick
    <2>2. QED  BY <2>1, FinalizeResultTold, ToldIsBatch
  <1>4. CASE ~Expired(n, "private_ack") /\ ~Due(n)
    <2>1. Tick(n) = Result(n)
      BY <1>1, <1>4 DEF Tick
    <2>2. QED  BY <2>1, ResultQuiet, QuietText, ToldIsBatch
  <1>5. QED  BY <1>2, <1>3, <1>4

(* The close of the connection tells the answer of the open turn. *)
LEMMA EndTurnBatch ==
  ASSUME NEW n, Ready(n)
  PROVE  Batch(n, EndTurn(n, "aborted"), {})
  BY FinalizeResultTold, ToldIsBatch DEF EndTurn

(* A recovered reply is real content: even one that reads like an ack closes  *)
(* the turn, and arms no grace.                                              *)
LEMMA RecoverBatch ==
  ASSUME NEW n, Ready(n), NEW said \in Said
  PROVE  Batch(n, RecoverVisibleText(n, said), {})
  <1> DEFINE m == [n EXCEPT !.hasVisibleToolText = TRUE]
             r == [Result(n) EXCEPT !.nz = m]
  <1>1. n \in Normalizer /\ ~n.finalized
    BY DEF Ready
  <1>2. Quiet(n, Result(n), {}) /\ Result(n).nz = n
    BY ResultQuiet DEF Result
  <1>3. CASE said = <<>>
    BY <1>2, <1>3, QuietText, ToldIsBatch DEF RecoverVisibleText
  <1>4. CASE said # <<>>
    <2>1. /\ m \in Normalizer /\ m.finalized = n.finalized /\ m.deadlines = n.deadlines
          /\ m.text = n.text /\ m.pendingAckText = n.pendingAckText
          /\ m.recoveryAttempted = n.recoveryAttempted /\ m.ownRunIds = n.ownRunIds
          /\ m.mediaPaths = n.mediaPaths /\ m.compactionPending = n.compactionPending
          /\ m.hasVisibleToolText
      BY <1>1 DEF Normalizer
    <2> HIDE DEF m
    <2>2. r = Result(m) /\ r.nz = m
      BY DEF Result
    <2>3. RecoverVisibleText(n, said) = ApplyVisible(r, said, TRUE, TRUE)
      BY <1>1, <1>4, <2>2 DEF RecoverVisibleText, m
    <2>4. Quiet(n, r, {})
      BY <1>2, <2>1, FieldQuiet
    <2>5. HIDE DEF r
    <2>6. Told(n, r, {}) /\ ~r.nz.finalized
      BY <2>4, QuietText
    <2>7. CASE IsPrivateAck(said)
      <3>1. ApplyVisible(r, said, TRUE, TRUE) = Finalize(r, "final")
        BY <2>1, <2>2, <2>6, <2>7 DEF ApplyVisible, HoldAck, HasRealContent
      <3>2. QED  BY <2>3, <2>6, <3>1, FinalizeTold, ToldIsBatch
    <2>8. CASE ~IsPrivateAck(said)
      <3>1. Told(n, ApplyVisible(r, said, TRUE, TRUE), {})
        BY <1>4, <2>4, <2>8, ApplyVisibleTold
      <3>2. QED  BY <2>3, <3>1, ToldIsBatch
    <2>9. QED  BY <2>7, <2>8
  <1>5. QED  BY <1>3, <1>4

-----------------------------------------------------------------------------
(* The record of the turn and the object it is a record of *)

(* The windows of the acked run's own end are still closed. *)
Alone(t) == t.ack # NoRun /\ ~t.followOn

TurnOf(n, t) ==
  /\ AckHeld(n) /\ GraceQuiet(n)
  /\ t.recoveries = IF n.recoveryAttempted THEN 1 ELSE 0
  /\ Alone(t) => /\ t.contributors \subseteq {t.ack, NoRun}
                 /\ n.ownRunIds = {t.ack}
                 /\ ~Armed(n, "lifecycle_end") /\ ~n.compactionPending
  /\ ~t.filedTwice
  /\ t.files \subseteq n.mediaPaths
  /\ ~n.finalized /\ ~t.abandoned => t.stream = Pieces(n.text)
  /\ n.finalized /\ ~t.abandoned =>
       \/ t.answer = Sanitized(n.text) /\ t.stream = Pieces(n.text)
       \/ t.stream = <<>> /\ IsPrivateAck(t.answer)

TurnInv == TurnOf(nz, turn) /\ ("this" \in fetching => nz.recoveryAttempted)

(* What a batch makes of the record, field by field. *)
LEMMA AppliedFields ==
  ASSUME NEW t \in TurnRecord, NEW ev
  PROVE  LET u == Applied(t, ev)
         IN /\ u.ack = t.ack /\ u.contributors = t.contributors /\ u.followOn = t.followOn
            /\ u.abandoned = t.abandoned /\ u.recoveries = t.recoveries
            /\ u.stream = StreamAfter(t.stream, ev) /\ u.files = t.files \cup FilesOf(ev)
            /\ u.filedTwice = (t.filedTwice \/ FilesOf(ev) \cap t.files # {} \/ NamesTwice(ev))
            /\ u.answer = IF Finals(ev) = {} THEN t.answer ELSE ev[First(Finals(ev))].text
  BY DEF Applied, TurnRecord, Finals, Events, First

(* What a batch tells keeps the record true of the object.                   *)
LEMMA AppliedTurn ==
  ASSUME NEW n, NEW t \in TurnRecord, TurnOf(n, t), ~n.finalized,
         NEW r, NEW ws, Batch(n, r, ws), Alone(t) => "lifecycle_end" \notin ws
  PROVE  TurnOf(r.nz, Applied(t, r.ev))
  <1> DEFINE u == Applied(t, r.ev)
  <1>1. /\ u.ack = t.ack /\ u.contributors = t.contributors /\ u.followOn = t.followOn
        /\ u.abandoned = t.abandoned /\ u.recoveries = t.recoveries
        /\ u.stream = StreamAfter(t.stream, r.ev) /\ u.files = t.files \cup FilesOf(r.ev)
        /\ u.filedTwice = (t.filedTwice \/ FilesOf(r.ev) \cap t.files # {} \/ NamesTwice(r.ev))
        /\ u.answer = IF Finals(r.ev) = {} THEN t.answer ELSE r.ev[First(Finals(r.ev))].text
    BY AppliedFields
  <1>2. HIDE DEF u
  <1>3. AckHeld(r.nz) /\ GraceQuiet(r.nz) /\ ClosedOnce(r)
    BY DEF Batch, Sound
  <1>4. u.recoveries = IF r.nz.recoveryAttempted THEN 1 ELSE 0
    BY <1>1 DEF Batch, TurnOf
  <1>5. ASSUME Alone(u)
        PROVE  /\ u.contributors \subseteq {u.ack, NoRun}
               /\ r.nz.ownRunIds = {u.ack}
               /\ ~Armed(r.nz, "lifecycle_end") /\ ~r.nz.compactionPending
    <2>1. Alone(t)
      BY <1>1, <1>5 DEF Alone
    <2>2. "lifecycle_end" \in Waits \ ({"recv"} \cup ws)
      BY <2>1 DEF Waits
    <2>3. r.nz.deadlines["lifecycle_end"] \in {n.deadlines["lifecycle_end"], Off}
      BY <2>2 DEF Batch
    <2>4. QED  BY <1>1, <2>1, <2>3 DEF TurnOf, Batch, Armed
  <1>6. ~u.filedTwice /\ u.files \subseteq r.nz.mediaPaths
    BY <1>1 DEF TurnOf, Batch
  <1>7. ~r.nz.finalized /\ ~u.abandoned => u.stream = Pieces(r.nz.text)
    BY <1>1 DEF TurnOf, Batch
  <1>8. ASSUME r.nz.finalized, ~u.abandoned
        PROVE  \/ u.answer = Sanitized(r.nz.text) /\ u.stream = Pieces(r.nz.text)
               \/ u.stream = <<>> /\ IsPrivateAck(u.answer)
    <2>1. t.stream = Pieces(n.text)
      BY <1>1, <1>8 DEF TurnOf
    <2>2. First(Finals(r.ev)) \in Finals(r.ev) /\ Finals(r.ev) # {}
      BY <1>3, <1>8, FirstIsMember DEF ClosedOnce
    <2>3. \/ /\ r.ev[First(Finals(r.ev))].text = Sanitized(r.nz.text)
             /\ StreamAfter(Pieces(n.text), r.ev) = Pieces(r.nz.text)
          \/ /\ StreamAfter(Pieces(n.text), r.ev) = <<>>
             /\ IsPrivateAck(r.ev[First(Finals(r.ev))].text)
      BY <2>2 DEF Batch
    <2>4. QED  BY <1>1, <2>1, <2>2, <2>3
  <1>9. TurnOf(r.nz, u)
    BY <1>3, <1>4, <1>5, <1>6, <1>7, <1>8 DEF TurnOf
  <1>10. QED  BY <1>9 DEF u

(* Frames of a closed turn tell nothing that its record holds of its text. *)
LEMMA LateTurn ==
  ASSUME NEW n, NEW t \in TurnRecord, TurnOf(n, t), n.finalized,
         NEW r, NEW ws, Late(n, r, ws), ws \subseteq {"lifecycle_end"},
         Alone(t) => "lifecycle_end" \notin ws
  PROVE  TurnOf(r.nz, Applied(t, r.ev))
  <1> DEFINE u == Applied(t, r.ev)
  <1>1. /\ u.ack = t.ack /\ u.contributors = t.contributors /\ u.followOn = t.followOn
        /\ u.abandoned = t.abandoned /\ u.recoveries = t.recoveries
        /\ u.stream = StreamAfter(t.stream, r.ev) /\ u.files = t.files \cup FilesOf(r.ev)
        /\ u.filedTwice = (t.filedTwice \/ FilesOf(r.ev) \cap t.files # {} \/ NamesTwice(r.ev))
        /\ u.answer = IF Finals(r.ev) = {} THEN t.answer ELSE r.ev[First(Finals(r.ev))].text
    BY AppliedFields
  <1>2. HIDE DEF u
  <1>3. u.stream = t.stream /\ u.answer = t.answer
    BY <1>1, SilentStream DEF Late
  <1>4. AckHeld(r.nz) /\ GraceQuiet(r.nz)
    <2>1. "private_ack" \in Waits \ ws /\ "empty_final" \in Waits \ ws
      BY DEF Waits
    <2>2. /\ r.nz.deadlines["private_ack"] \in {n.deadlines["private_ack"], Off}
          /\ r.nz.deadlines["empty_final"] \in {n.deadlines["empty_final"], Off}
      BY <2>1 DEF Late
    <2>3. QED  BY <2>2 DEF Late, TurnOf, AckHeld, GraceQuiet, Armed
  <1>5. u.recoveries = IF r.nz.recoveryAttempted THEN 1 ELSE 0
    BY <1>1 DEF Late, TurnOf
  <1>6. ASSUME Alone(u)
        PROVE  /\ u.contributors \subseteq {u.ack, NoRun}
               /\ r.nz.ownRunIds = {u.ack}
               /\ ~Armed(r.nz, "lifecycle_end") /\ ~r.nz.compactionPending
    <2>1. Alone(t)
      BY <1>1, <1>6 DEF Alone
    <2>2. "lifecycle_end" \in Waits \ ws
      BY <2>1 DEF Waits
    <2>3. r.nz.deadlines["lifecycle_end"] \in {n.deadlines["lifecycle_end"], Off}
      BY <2>2 DEF Late
    <2>4. QED  BY <1>1, <2>1, <2>3 DEF TurnOf, Late, Armed
  <1>7. ~u.filedTwice /\ u.files \subseteq r.nz.mediaPaths
    BY <1>1 DEF TurnOf, Late
  <1>8. r.nz.finalized /\ r.nz.text = n.text
    BY DEF Late
  <1>9. TurnOf(r.nz, u)
    BY <1>1, <1>3, <1>4, <1>5, <1>6, <1>7, <1>8 DEF TurnOf
  <1>10. QED  BY <1>9 DEF u

(* Applying a batch that is empty to a closed turn leaves its record true.   *)
LEMMA ClosedTurn ==
  ASSUME NEW n, NEW t \in TurnRecord, TurnOf(n, t), NEW ev, ev = <<>>
  PROVE  TurnOf(n, Applied(t, ev))
  <1> DEFINE u == Applied(t, ev)
  <1>1. \A type : Events(ev, type) = {}
    BY DEF Events
  <1>2. /\ FilesOf(ev) = {} /\ StreamAfter(t.stream, ev) = t.stream /\ Finals(ev) = {}
        /\ ~NamesTwice(ev)
    BY <1>1, NoEvents DEF StreamAfter
  <1>3. /\ u.ack = t.ack /\ u.contributors = t.contributors /\ u.followOn = t.followOn
        /\ u.abandoned = t.abandoned /\ u.recoveries = t.recoveries
        /\ u.stream = t.stream /\ u.files = t.files /\ u.answer = t.answer
        /\ ~u.filedTwice
    <2>1. /\ u.ack = t.ack /\ u.contributors = t.contributors /\ u.followOn = t.followOn
          /\ u.abandoned = t.abandoned /\ u.recoveries = t.recoveries
          /\ u.stream = StreamAfter(t.stream, ev) /\ u.files = t.files \cup FilesOf(ev)
          /\ u.filedTwice = (t.filedTwice \/ FilesOf(ev) \cap t.files # {} \/ NamesTwice(ev))
          /\ u.answer = IF Finals(ev) = {} THEN t.answer ELSE ev[First(Finals(ev))].text
      BY AppliedFields
    <2>2. HIDE DEF u
    <2>3. QED  BY <1>2, <2>1 DEF TurnOf
  <1>4. HIDE DEF u
  <1>5. TurnOf(n, u)
    BY <1>3 DEF TurnOf, Alone
  <1>6. QED  BY <1>5 DEF u

(* A tick of a closed turn clears its deadlines and tells nothing. *)
LEMMA ClearedTurn ==
  ASSUME NEW n \in Normalizer, NEW t \in TurnRecord, TurnOf(n, t), n.finalized
  PROVE  /\ TurnOf(Tick(n).nz, Applied(t, Tick(n).ev))
         /\ \A w \in Waits : Tick(n).nz.deadlines[w] = Off
  <1> DEFINE m == [n EXCEPT !.deadlines = NoDeadlines]
  <1>1. Tick(n).nz = m /\ Tick(n).ev = <<>>
    BY TickLate DEF Result
  <1>2. \A w \in Waits : NoDeadlines[w] = Off
    BY DEF NoDeadlines
  <1>3. /\ m.recoveryAttempted = n.recoveryAttempted /\ m.finalized = n.finalized
        /\ m.deadlines = NoDeadlines /\ m.text = n.text
        /\ m.pendingAckText = n.pendingAckText /\ m.mediaPaths = n.mediaPaths
        /\ m.ownRunIds = n.ownRunIds /\ m.compactionPending = n.compactionPending
    BY DEF Normalizer
  <1>4. HIDE DEF m
  <1>5. TurnOf(m, t)
    BY <1>2, <1>3 DEF TurnOf, AckHeld, GraceQuiet, Armed, Waits
  <1>6. QED  BY <1>1, <1>2, <1>3, <1>5, ClosedTurn

(* While only the acked run's frames are let in, a frame that is let in and   *)
(* leaves it so neither ends nor abandons the run.                           *)
LEMMA AloneFrame ==
  ASSUME NEW n, NEW t \in TurnRecord, TurnOf(n, t), NEW f \in Frame, NEW ev,
         Admits(n, f), Alone(Noted(t, f, ev))
  PROVE  /\ Alone(t) /\ ~ForeignRun(n, f) /\ f.run \in {t.ack, NoRun}
         /\ ~Abandons(f) /\ "lifecycle_end" \notin Restarting(f)
  <1>1. Alone(t) /\ ~(/\ f.run \in {t.ack, NoRun} /\ f.stream = "lifecycle"
                      /\ f.phase \in {"end", "abandoned"})
    BY DEF Alone, Noted, TurnRecord
  <1>2. n.ownRunIds = {t.ack} /\ ~Armed(n, "lifecycle_end") /\ ~n.compactionPending
    BY <1>1 DEF TurnOf
  <1>3. ~ForeignRun(n, f)
    BY <1>2 DEF Admits, FollowOnOpen
  <1>4. f.run \in {t.ack, NoRun}
    BY <1>2, <1>3 DEF ForeignRun
  <1>5. QED  BY <1>1, <1>3, <1>4 DEF Abandons, Restarting, Restarts

(* What a frame's own marks make of the record, field by field. *)
LEMMA NotedFields ==
  ASSUME NEW t \in TurnRecord, NEW f \in Frame, NEW ev
  PROVE  LET u == Noted(t, f, ev)
         IN /\ u \in TurnRecord
            /\ u.ack = t.ack /\ u.recoveries = t.recoveries /\ u.filedTwice = t.filedTwice
            /\ u.stream = t.stream /\ u.answer = t.answer
            /\ u.contributors = IF ev = <<>> THEN t.contributors
                                ELSE t.contributors \cup {f.run}
            /\ t.followOn => u.followOn
            /\ u.abandoned <=> (t.abandoned \/ (ev # <<>> /\ Abandons(f)))
            /\ u.files = IF ev # <<>> /\ Abandons(f) THEN {} ELSE t.files
  <1> DEFINE u == Noted(t, f, ev)
  <1>1. u \in TurnRecord
    BY NotedTyped
  <1>2. /\ u.ack = t.ack /\ u.recoveries = t.recoveries /\ u.filedTwice = t.filedTwice
        /\ u.stream = t.stream /\ u.answer = t.answer
        /\ t.followOn => u.followOn
    BY DEF Noted, TurnRecord
  <1>3. u.abandoned <=> (t.abandoned \/ (ev # <<>> /\ Abandons(f)))
    BY DEF Noted, TurnRecord, Abandons
  <1>4. /\ u.contributors = IF ev = <<>> THEN t.contributors
                            ELSE t.contributors \cup {f.run}
        /\ u.files = IF ev # <<>> /\ Abandons(f) THEN {} ELSE t.files
    BY DEF Noted, TurnRecord, Abandons
  <1>5. QED  BY <1>1, <1>2, <1>3, <1>4

(* The marks of a frame that is let in are true of the object that let it in. *)
LEMMA NotedTurn ==
  ASSUME NEW n \in Normalizer, NEW t \in TurnRecord, TurnOf(n, t), NEW f \in Frame,
         NEW ev, Admits(n, f), ~Abandons(f)
  PROVE  /\ TurnOf(Admitted(n, f), Noted(t, f, ev))
         /\ Alone(Noted(t, f, ev)) => "lifecycle_end" \notin Restarting(f)
  <1> DEFINE u == Noted(t, f, ev)
             a == Admitted(n, f)
  <1>1. /\ u.ack = t.ack /\ u.recoveries = t.recoveries /\ u.filedTwice = t.filedTwice
        /\ u.stream = t.stream /\ u.answer = t.answer /\ u.files = t.files
        /\ u.contributors = IF ev = <<>> THEN t.contributors
                            ELSE t.contributors \cup {f.run}
        /\ u.abandoned <=> t.abandoned
    <2>1. /\ u \in TurnRecord
          /\ u.ack = t.ack /\ u.recoveries = t.recoveries /\ u.filedTwice = t.filedTwice
          /\ u.stream = t.stream /\ u.answer = t.answer
          /\ u.contributors = IF ev = <<>> THEN t.contributors
                              ELSE t.contributors \cup {f.run}
          /\ t.followOn => u.followOn
          /\ u.abandoned <=> (t.abandoned \/ (ev # <<>> /\ Abandons(f)))
          /\ u.files = IF ev # <<>> /\ Abandons(f) THEN {} ELSE t.files
      BY NotedFields, ZenonT(30)
    <2>2. HIDE DEF u
    <2>3. QED  BY <2>1
  <1>2. /\ a.finalized = n.finalized /\ a.deadlines = n.deadlines
        /\ a.text = n.text /\ a.pendingAckText = n.pendingAckText
        /\ a.recoveryAttempted = n.recoveryAttempted /\ a.mediaPaths = n.mediaPaths
        /\ a.compactionPending = n.compactionPending
        /\ ~ForeignRun(n, f) => a.ownRunIds = n.ownRunIds
    BY AdmittedFields
  <1>3. Alone(u) => /\ Alone(t) /\ ~ForeignRun(n, f) /\ f.run \in {t.ack, NoRun}
                    /\ "lifecycle_end" \notin Restarting(f)
    BY AloneFrame
  <1>4. HIDE DEF u, a
  <1>5. AckHeld(a) /\ GraceQuiet(a)
    BY <1>2 DEF TurnOf, AckHeld, GraceQuiet, Armed
  <1>6. Alone(u) => /\ u.contributors \subseteq {u.ack, NoRun}
                    /\ a.ownRunIds = {u.ack}
                    /\ ~Armed(a, "lifecycle_end") /\ ~a.compactionPending
    BY <1>1, <1>2, <1>3 DEF TurnOf, Armed
  <1>7. TurnOf(a, u)
    BY <1>1, <1>2, <1>5, <1>6 DEF TurnOf
  <1>8. QED  BY <1>3, <1>7 DEF u, a

(* A turn abandoned to compaction has nothing left to be compared. *)
LEMMA AbandonedTurn ==
  ASSUME NEW n, NEW t \in TurnRecord, TurnOf(n, t), NEW f \in Frame,
         Admits(n, f), Abandons(f), NEW r, r.ev # <<>>,
         AckHeld(r.nz), GraceQuiet(r.nz), r.nz.recoveryAttempted = n.recoveryAttempted,
         FilesOf(r.ev) = {}, ~NamesTwice(r.ev)
  PROVE  TurnOf(r.nz, Applied(Noted(t, f, r.ev), r.ev))
  <1> DEFINE ev == r.ev
             u == Noted(t, f, ev)
             v == Applied(u, ev)
  <1>1. ev # <<>>
    OBVIOUS
  <1> HIDE DEF ev
  <1>2. /\ u \in TurnRecord /\ u.recoveries = t.recoveries
        /\ u.filedTwice = t.filedTwice /\ u.abandoned /\ u.files = {}
    <2>1. /\ u \in TurnRecord
          /\ u.ack = t.ack /\ u.recoveries = t.recoveries /\ u.filedTwice = t.filedTwice
          /\ u.stream = t.stream /\ u.answer = t.answer
          /\ u.contributors = IF ev = <<>> THEN t.contributors
                              ELSE t.contributors \cup {f.run}
          /\ t.followOn => u.followOn
          /\ u.abandoned <=> (t.abandoned \/ (ev # <<>> /\ Abandons(f)))
          /\ u.files = IF ev # <<>> /\ Abandons(f) THEN {} ELSE t.files
      BY NotedFields
    <2>2. HIDE DEF u
    <2>3. QED  BY <1>1, <2>1
  <1>3. ~Alone(u)
    BY AloneFrame
  <1>4. HIDE DEF u
  <1>5. /\ v.ack = u.ack /\ v.followOn = u.followOn
        /\ v.abandoned = u.abandoned /\ v.recoveries = u.recoveries
        /\ v.files = u.files \cup FilesOf(ev)
        /\ v.filedTwice = (u.filedTwice \/ FilesOf(ev) \cap u.files # {} \/ NamesTwice(ev))
    BY <1>2, AppliedFields
  <1>6. HIDE DEF v
  <1>7. ~Alone(v)
    BY <1>3, <1>5 DEF Alone
  <1>8. v.abandoned /\ v.files = {} /\ ~v.filedTwice
    BY <1>2, <1>5 DEF TurnOf, ev
  <1>9. v.recoveries = IF r.nz.recoveryAttempted THEN 1 ELSE 0
    BY <1>2, <1>5 DEF TurnOf
  <1>10. TurnOf(r.nz, v)
    BY <1>7, <1>8, <1>9 DEF TurnOf
  <1>11. QED  BY <1>10 DEF v, u, ev

(* A frame that is not let in marks nothing the record is read for. *)
LEMMA DroppedTurn ==
  ASSUME NEW n \in Normalizer, NEW t \in TurnRecord, TurnOf(n, t), NEW f \in Frame,
         ~Admits(n, f)
  PROVE  TurnOf(Feed(n, f).nz, Applied(Noted(t, f, Feed(n, f).ev), Feed(n, f).ev))
  <1> DEFINE u == Noted(t, f, <<>>)
  <1>1. Feed(n, f).nz = n /\ Feed(n, f).ev = <<>>
    BY DEF Feed, Result
  <1>2. /\ u \in TurnRecord
        /\ u.ack = t.ack /\ u.recoveries = t.recoveries /\ u.filedTwice = t.filedTwice
        /\ u.stream = t.stream /\ u.answer = t.answer
        /\ u.contributors = t.contributors /\ u.files = t.files
        /\ t.followOn => u.followOn
        /\ u.abandoned <=> t.abandoned
    BY NotedFields
  <1>3. HIDE DEF u
  <1>4. Alone(u) => Alone(t)
    BY <1>2 DEF Alone
  <1>5. TurnOf(n, u)
    BY <1>2, <1>4 DEF TurnOf
  <1>6. TurnOf(n, Applied(u, <<>>))
    BY <1>2, <1>5, ClosedTurn
  <1>7. QED  BY <1>1, <1>6 DEF u

(* A frame the turn is fed, open or closed, and what it tells, are recorded as *)
(* they are.                                                                  *)
LEMMA FeedTurn ==
  ASSUME NEW n \in Normalizer, ~n.finalized => Ready(n),
         NEW t \in TurnRecord, TurnOf(n, t), NEW f \in Frame
  PROVE  LET r == Feed(n, f) IN TurnOf(r.nz, Applied(Noted(t, f, r.ev), r.ev))
  <1> DEFINE r == Feed(n, f)
             u == Noted(t, f, r.ev)
             a == Admitted(n, f)
  <1>1. CASE ~Admits(n, f)
    BY <1>1, DroppedTurn
  <1>2. CASE Admits(n, f) /\ ~Abandons(f)
    <2>1. /\ TurnOf(a, u) /\ u \in TurnRecord /\ a.finalized = n.finalized
          /\ Alone(u) => "lifecycle_end" \notin Restarting(f)
      BY <1>2, NotedTurn, NotedFields, AdmittedFields
    <2>2. CASE ~n.finalized
      <3>1. Batch(a, r, Restarting(f))
        BY <1>2, <2>2, FeedBatch
      <3>2. HIDE DEF r, u, a
      <3>3. TurnOf(r.nz, Applied(u, r.ev))
        BY <2>1, <2>2, <3>1, AppliedTurn
      <3>4. QED  BY <3>3 DEF r, u
    <2>3. CASE n.finalized
      <3>1. Late(a, r, Ending(f))
        BY <1>2, <2>3, FeedLate
      <3>2. /\ Ending(f) \subseteq {"lifecycle_end"}
            /\ Ending(f) \subseteq Restarting(f)
        BY DEF Ending, Restarting, Restarts, Waits
      <3>3. HIDE DEF r, u, a
      <3>4. TurnOf(r.nz, Applied(u, r.ev))
        BY <2>1, <2>3, <3>1, <3>2, LateTurn
      <3>5. QED  BY <3>4 DEF r, u
    <2>4. QED  BY <2>2, <2>3
  <1>3. CASE Admits(n, f) /\ Abandons(f)
    <2>1. /\ r.ev # <<>> /\ AckHeld(r.nz) /\ GraceQuiet(r.nz)
          /\ r.nz.recoveryAttempted = n.recoveryAttempted
          /\ FilesOf(r.ev) = {} /\ ~NamesTwice(r.ev)
      <3>1. CASE ~n.finalized
        BY <1>3, <3>1, AbandonedReset
      <3>2. CASE n.finalized
        <4>1. Wiped(n, r)
          BY <1>3, <3>2, FeedLate
        <4>2. QED  BY <4>1 DEF Wiped, AckHeld, GraceQuiet
      <3>3. QED  BY <3>1, <3>2
    <2>2. HIDE DEF r
    <2>3. TurnOf(r.nz, Applied(u, r.ev))
      BY <1>3, <2>1, AbandonedTurn
    <2>4. QED  BY <2>3 DEF r
  <1>4. QED  BY <1>1, <1>2, <1>3

(* A frame leaves the recovery as it was, and every grace it is no reason to  *)
(* start over as it was or off.                                              *)
LEMMA FeedGraces ==
  ASSUME NEW n \in Normalizer, ~n.finalized => Ready(n), NEW f \in Frame
  PROVE  /\ Feed(n, f).nz.recoveryAttempted = n.recoveryAttempted
         /\ \A w \in Waits \ {"recv"} :
              ~Restarts(w, f) => Feed(n, f).nz.deadlines[w] \in {n.deadlines[w], Off}
  <1> DEFINE r == Feed(n, f)
             a == Admitted(n, f)
  <1>1. a.recoveryAttempted = n.recoveryAttempted /\ a.deadlines = n.deadlines
    BY AdmittedFields
  <1>2. CASE n.finalized
    <2>1. /\ r.nz.recoveryAttempted = n.recoveryAttempted
          /\ \A w \in Waits : \/ r.nz.deadlines[w] \in {n.deadlines[w], Off}
                              \/ w = "lifecycle_end" /\ Ending(f) # {} /\ r.ev # <<>>
      BY <1>2, FeedLate
    <2>2. \A w : w = "lifecycle_end" /\ Ending(f) # {} => Restarts(w, f)
      BY DEF Ending, Restarts
    <2>3. HIDE DEF r
    <2>4. QED  BY <2>1, <2>2 DEF r
  <1>3. CASE ~n.finalized /\ ~Admits(n, f)
    BY <1>3, DroppedBatch DEF Batch
  <1>4. CASE ~n.finalized /\ Admits(n, f) /\ ~Abandons(f)
    <2>1. Batch(a, r, Restarting(f))
      BY <1>4, FeedBatch
    <2>2. HIDE DEF a, r
    <2>3. /\ r.nz.recoveryAttempted = n.recoveryAttempted
          /\ \A w \in Waits \ ({"recv"} \cup Restarting(f)) :
               r.nz.deadlines[w] \in {n.deadlines[w], Off}
      BY <1>1, <2>1 DEF Batch
    <2>4. \A w \in Waits \ {"recv"} :
            ~Restarts(w, f) => w \in Waits \ ({"recv"} \cup Restarting(f))
      BY DEF Restarting
    <2>5. QED  BY <2>3, <2>4 DEF r
  <1>5. CASE ~n.finalized /\ Admits(n, f) /\ Abandons(f)
    BY <1>5, AbandonedReset
  <1>6. QED  BY <1>2, <1>3, <1>4, <1>5

(* A turn begins with nothing shown, held, filed or fetched, and no grace.    *)
Begun(n, ack) ==
  IF ack = NoRun THEN BeginTurn(n) ELSE NoteRunStarted(BeginTurn(n), ack)

Clean(m) ==
  /\ m.text = <<>> /\ m.pendingAckText = <<>> /\ m.mediaPaths = {}
  /\ m.recoveryAttempted = FALSE /\ m.compactionPending = FALSE
  /\ m.finalized = FALSE
  /\ \A w \in Waits \ {"recv"} : m.deadlines[w] = Off

(* Beginning a turn resets every field of the turn before. *)
LEMMA BeginTurnClean ==
  ASSUME NEW n, NEW ack \in RunIds \cup {NoRun}
  PROVE  Clean(Begun(n, ack)) /\ (ack # NoRun => Begun(n, ack).ownRunIds = {ack})
  <1> DEFINE new == [NewNormalizer EXCEPT !.finalized = FALSE]
             begun == ArmRecv(new)
             owned == [begun EXCEPT !.ownRunIds = @ \cup {ack}]
  <1>1. /\ new \in Normalizer /\ new.text = <<>> /\ new.pendingAckText = <<>>
        /\ new.mediaPaths = {} /\ new.recoveryAttempted = FALSE
        /\ new.compactionPending = FALSE /\ new.finalized = FALSE /\ new.ownRunIds = {}
        /\ \A w \in Waits \ {"recv"} : new.deadlines[w] = Off
    <2>1. <<>> \in Text /\ NoDeadlines \in [Waits -> Nat \cup {Off}]
      BY DEF Text, NoDeadlines
    <2>2. QED  BY <2>1 DEF Normalizer, NewNormalizer, NoDeadlines
  <1>2. Begun(n, ack) = IF ack = NoRun THEN begun ELSE ArmRecv(owned)
    BY DEF Begun, BeginTurn, NoteRunStarted
  <1>3. HIDE DEF new
  <1>4. /\ begun \in Normalizer /\ begun.text = <<>> /\ begun.pendingAckText = <<>>
        /\ begun.mediaPaths = {} /\ begun.recoveryAttempted = FALSE
        /\ begun.compactionPending = FALSE /\ begun.finalized = FALSE /\ begun.ownRunIds = {}
        /\ \A w \in Waits \ {"recv"} : begun.deadlines[w] = Off
    BY <1>1, ArmRecvMatches, ArmRecvFields
  <1>5. HIDE DEF begun
  <1>6. CASE ack = NoRun
    BY <1>2, <1>4, <1>6 DEF Clean
  <1>7. CASE ack # NoRun
    <2>1. /\ owned \in Normalizer /\ owned.text = <<>> /\ owned.pendingAckText = <<>>
          /\ owned.mediaPaths = {} /\ owned.recoveryAttempted = FALSE
          /\ owned.compactionPending = FALSE /\ owned.finalized = FALSE
          /\ owned.ownRunIds = {ack} /\ owned.deadlines = begun.deadlines
      BY <1>4, <1>7 DEF Normalizer
    <2>2. HIDE DEF owned
    <2>3. QED  BY <1>2, <1>4, <1>7, <2>1, ArmRecvMatches, ArmRecvFields DEF Clean
  <1>8. QED  BY <1>6, <1>7

-----------------------------------------------------------------------------
(* The record along a behaviour *)

(* The end of an iteration asks for the transcript at most once in a turn.    *)
LEMMA NextIterationTurn ==
  ASSUME NEW n \in Normalizer, NEW t \in TurnRecord, TurnOf(n, t),
         "this" \in fetching => n.recoveryAttempted, NextIteration(n, t)
  PROVE  TurnInv' /\ nz'.deadlines = n.deadlines
  <1> DEFINE m == MarkRecoveryAttempted(n)
             u == [t EXCEPT !.recoveries = @ + 1]
  <1>1. CASE WantsHistoryRecovery(n)
    <2>1. nz' = m /\ turn' = u /\ fetching' = fetching \cup {"this"}
      BY <1>1 DEF NextIteration
    <2>2. /\ m.recoveryAttempted = TRUE /\ m.finalized = n.finalized
          /\ m.deadlines = n.deadlines /\ m.text = n.text
          /\ m.pendingAckText = n.pendingAckText /\ m.mediaPaths = n.mediaPaths
          /\ m.ownRunIds = n.ownRunIds /\ m.compactionPending = n.compactionPending
      BY DEF MarkRecoveryAttempted, Normalizer
    <2>3. /\ u.ack = t.ack /\ u.contributors = t.contributors /\ u.followOn = t.followOn
          /\ u.abandoned = t.abandoned /\ u.stream = t.stream /\ u.files = t.files
          /\ u.filedTwice = t.filedTwice /\ u.answer = t.answer
          /\ u.recoveries = t.recoveries + 1
      BY DEF TurnRecord
    <2>4. t.recoveries = 0
      BY <1>1 DEF WantsHistoryRecovery, TurnOf
    <2>5. HIDE DEF m, u
    <2>6. TurnOf(m, u)
      BY <2>2, <2>3, <2>4 DEF TurnOf, AckHeld, GraceQuiet, Armed, Alone
    <2>7. QED  BY <2>1, <2>2, <2>6 DEF TurnInv
  <1>2. CASE ~WantsHistoryRecovery(n)
    <2>1. nz' = n /\ turn' = t /\ fetching' = fetching
      BY <1>2 DEF NextIteration
    <2>2. QED  BY <2>1 DEF TurnInv
  <1>3. QED  BY <1>1, <1>2

(* Nothing is shown of nothing. *)
LEMMA NothingPieces == Pieces(<<>>) = <<>> /\ Sanitized(<<>>) = <<>>
  <1>1. <<>> \in Text /\ <<>> \in Said
    BY DEF Text, Said
  <1>2. QED  BY <1>1, PiecesTyped, SaidPieces

(* The record of no turn is true of the new object. *)
LEMMA InitTurn == Init => TurnInv
  <1> SUFFICES ASSUME Init PROVE TurnInv
    OBVIOUS
  <1>1. /\ nz.pendingAckText = <<>> /\ nz.recoveryAttempted = FALSE /\ nz.finalized = TRUE
        /\ nz.text = <<>>
    BY DEF Init, NewNormalizer
  <1>2. /\ turn.ack = NoRun /\ turn.recoveries = 0 /\ turn.filedTwice = FALSE
        /\ turn.stream = <<>> /\ turn.answer = <<>> /\ turn.files = {}
    BY DEF Init, NewTurn
  <1>3. fetching = {}
    BY DEF Init
  <1>4. Pieces(<<>>) = <<>> /\ Sanitized(<<>>) = <<>>
    BY NothingPieces
  <1>5. QED  BY <1>1, <1>2, <1>3, <1>4 DEF TurnInv, TurnOf, AckHeld, GraceQuiet, Alone

(* What the two invariants say of a turn and of its record.                  *)
LEMMA OpenTurn ==
  ASSUME IInv, TurnInv
  PROVE  /\ nz \in Normalizer /\ turn \in TurnRecord /\ TurnOf(nz, turn)
         /\ "this" \in fetching => nz.recoveryAttempted
         /\ ~nz.finalized => Ready(nz)
  BY InvariantFacts DEF TurnInv, TurnOf, Ready

(* A turn that begins starts its record over. *)
LEMMA StartTurnTurn ==
  ASSUME NEW ack \in RunIds \cup {NoRun}, StartTurn(ack)
  PROVE  TurnInv' /\ \A w \in Waits \ {"recv"} : nz'.deadlines[w] = Off
  <1>1. /\ nz' = Begun(nz, ack)
        /\ turn' = NewTurn(ack)
        /\ "this" \notin fetching'
    BY DEF StartTurn, Begun
  <1>2. /\ nz'.text = <<>> /\ nz'.pendingAckText = <<>> /\ nz'.mediaPaths = {}
        /\ nz'.recoveryAttempted = FALSE /\ nz'.compactionPending = FALSE
        /\ nz'.finalized = FALSE
        /\ ack # NoRun => nz'.ownRunIds = {ack}
        /\ \A w \in Waits \ {"recv"} : nz'.deadlines[w] = Off
    <2>1. Clean(Begun(nz, ack)) /\ (ack # NoRun => Begun(nz, ack).ownRunIds = {ack})
      BY BeginTurnClean
    <2>2. Clean(nz') /\ (ack # NoRun => nz'.ownRunIds = {ack})
      BY <1>1, <2>1
    <2>3. QED  BY <2>2 DEF Clean
  <1>3. /\ turn'.ack = ack /\ turn'.contributors = {} /\ turn'.stream = <<>>
        /\ turn'.files = {} /\ turn'.filedTwice = FALSE /\ turn'.recoveries = 0
    BY <1>1 DEF NewTurn
  <1>4. TurnOf(nz', turn')
    BY <1>2, <1>3, NothingPieces DEF TurnOf, AckHeld, GraceQuiet, Alone, Armed, Waits
  <1>5. QED  BY <1>1, <1>2, <1>4 DEF TurnInv

(* A frame, fed or dropped, is recorded; the graces it restarts are its own. *)
LEMMA ReceiveTurn ==
  ASSUME IInv, TurnInv, NEW f \in Frames, Receive(f)
  PROVE  /\ TurnInv'
         /\ \A w \in Waits \ {"recv"} :
              ~Restarts(w, f) => nz'.deadlines[w] \in {nz.deadlines[w], Off}
  <1>1. /\ nz \in Normalizer /\ turn \in TurnRecord /\ TurnOf(nz, turn) /\ f \in Frame
        /\ "this" \in fetching => nz.recoveryAttempted
        /\ ~nz.finalized => Ready(nz)
    BY OpenTurn, TurnLoopAssumption
  <1>2. CASE ~active
    <2>1. NextIteration(nz, turn)
      BY <1>2 DEF Receive
    <2>2. QED  BY <1>1, <2>1, NextIterationTurn
  <1>3. CASE active
    <2> DEFINE r == Feed(nz, f)
               u == Applied(Noted(turn, f, r.ev), r.ev)
    <2>1. NextIteration(r.nz, u)
      BY <1>3 DEF Receive
    <2>2. r.nz \in Normalizer /\ u \in TurnRecord
      BY <1>1, FedTyped
    <2>3. TurnOf(r.nz, u)
      BY <1>1, FeedTurn
    <2>4. /\ r.nz.recoveryAttempted = nz.recoveryAttempted
          /\ \A w \in Waits \ {"recv"} :
               ~Restarts(w, f) => r.nz.deadlines[w] \in {nz.deadlines[w], Off}
      BY <1>1, FeedGraces
    <2>5. HIDE DEF r, u
    <2>6. TurnInv' /\ nz'.deadlines = r.nz.deadlines
      BY <1>1, <2>1, <2>2, <2>3, <2>4, NextIterationTurn
    <2>7. QED  BY <2>4, <2>6
  <1>4. QED  BY <1>2, <1>3 DEF Receive

(* A timer that fires is recorded; it restarts no grace. *)
LEMMA TimeoutTurn ==
  ASSUME IInv, TurnInv, Timeout
  PROVE  /\ TurnInv'
         /\ \A w \in Waits \ {"recv"} : nz'.deadlines[w] \in {nz.deadlines[w], Off}
  <1>1. /\ nz \in Normalizer /\ turn \in TurnRecord /\ TurnOf(nz, turn)
        /\ "this" \in fetching => nz.recoveryAttempted
        /\ ~nz.finalized => Ready(nz)
    BY OpenTurn
  <1>2. CASE ~active
    <2>1. NextIteration(nz, turn)
      BY <1>2 DEF Timeout
    <2>2. QED  BY <1>1, <2>1, NextIterationTurn
  <1>3. CASE active
    <2> DEFINE r == Tick(nz)
               u == Applied(turn, r.ev)
    <2>1. NextIteration(r.nz, u)
      BY <1>3 DEF Timeout
    <2>2. r.nz \in Normalizer /\ u \in TurnRecord
      BY TickedTyped
    <2>3. /\ TurnOf(r.nz, u) /\ r.nz.recoveryAttempted = nz.recoveryAttempted
          /\ \A w \in Waits \ {"recv"} : r.nz.deadlines[w] \in {nz.deadlines[w], Off}
      <3>1. CASE ~nz.finalized
        <4>1. Batch(nz, r, {})
          BY <1>1, <3>1, TickBatch
        <4>2. HIDE DEF r
        <4>3. TurnOf(r.nz, u)
          BY <1>1, <3>1, <4>1, AppliedTurn
        <4>4. QED  BY <4>1, <4>3 DEF Batch
      <3>2. CASE nz.finalized
        <4>1. r.nz.recoveryAttempted = nz.recoveryAttempted
          BY <1>1, <3>2, TickLate
        <4>2. QED  BY <1>1, <3>2, <4>1, ClearedTurn
      <3>3. QED  BY <3>1, <3>2
    <2>4. HIDE DEF r, u
    <2>5. TurnInv' /\ nz'.deadlines = r.nz.deadlines
      BY <1>1, <2>1, <2>2, <2>3, NextIterationTurn
    <2>6. QED  BY <2>3, <2>5
  <1>4. QED  BY <1>2, <1>3 DEF Timeout

(* A close is recorded; it restarts no grace. *)
LEMMA CloseTurn ==
  ASSUME IInv, TurnInv, Close
  PROVE  /\ TurnInv'
         /\ \A w \in Waits \ {"recv"} : nz'.deadlines[w] \in {nz.deadlines[w], Off}
  <1> DEFINE r == IF active THEN EndTurn(nz, "aborted") ELSE Result(nz)
  <1>1. /\ nz \in Normalizer /\ turn \in TurnRecord /\ TurnOf(nz, turn)
        /\ ~nz.finalized => Ready(nz)
    BY OpenTurn
  <1>2. nz' = r.nz /\ turn' = Applied(turn, r.ev) /\ fetching' = {}
    BY DEF Close
  <1>3. CASE ~active \/ nz.finalized
    <2>1. r.nz = nz /\ r.ev = <<>>
      BY <1>3 DEF EndTurn, Finalize, Result
    <2>2. HIDE DEF r
    <2>3. QED  BY <1>1, <1>2, <2>1, ClosedTurn DEF TurnInv
  <1>4. CASE active /\ ~nz.finalized
    <2>1. Batch(nz, r, {})
      BY <1>1, <1>4, EndTurnBatch
    <2>2. HIDE DEF r
    <2>3. TurnOf(r.nz, Applied(turn, r.ev))
      BY <1>1, <1>4, <2>1, AppliedTurn
    <2>4. \A w \in Waits \ {"recv"} : r.nz.deadlines[w] \in {nz.deadlines[w], Off}
      BY <2>1 DEF Batch
    <2>5. QED  BY <1>2, <2>3, <2>4 DEF TurnInv
  <1>5. QED  BY <1>3, <1>4

(* A late transcript is recorded; it restarts no grace. *)
LEMMA RecoveryAnswerTurn ==
  ASSUME IInv, TurnInv, NEW asker \in fetching, NEW said \in Recovered,
         RecoveryAnswer(asker, said)
  PROVE  /\ TurnInv'
         /\ \A w \in Waits \ {"recv"} : nz'.deadlines[w] \in {nz.deadlines[w], Off}
  <1> DEFINE r == IF active THEN RecoverVisibleText(nz, said) ELSE Result(nz)
  <1>1. /\ nz \in Normalizer /\ turn \in TurnRecord /\ TurnOf(nz, turn) /\ said \in Said
        /\ "this" \in fetching => nz.recoveryAttempted
        /\ ~nz.finalized => Ready(nz)
    BY OpenTurn, TurnLoopAssumption
  <1>2. nz' = r.nz /\ turn' = Applied(turn, r.ev) /\ fetching' = fetching \ {asker}
    BY DEF RecoveryAnswer
  <1>3. CASE ~active \/ nz.finalized
    <2>1. r.nz = nz /\ r.ev = <<>>
      BY <1>3 DEF RecoverVisibleText, Result
    <2>2. HIDE DEF r
    <2>3. QED  BY <1>1, <1>2, <2>1, ClosedTurn DEF TurnInv
  <1>4. CASE active /\ ~nz.finalized
    <2>1. Batch(nz, r, {})
      BY <1>1, <1>4, RecoverBatch
    <2>2. HIDE DEF r
    <2>3. TurnOf(r.nz, Applied(turn, r.ev))
      BY <1>1, <1>4, <2>1, AppliedTurn
    <2>4. /\ \A w \in Waits \ {"recv"} : r.nz.deadlines[w] \in {nz.deadlines[w], Off}
          /\ r.nz.recoveryAttempted = nz.recoveryAttempted
      BY <2>1 DEF Batch
    <2>5. QED  BY <1>1, <1>2, <2>3, <2>4 DEF TurnInv
  <1>5. QED  BY <1>3, <1>4

(* The write before a recovery's final touches neither object nor record. *)
LEMMA RecoveryWrittenTurn ==
  ASSUME TurnInv, NEW ok \in BOOLEAN, RecoveryWritten(ok)
  PROVE  TurnInv' /\ nz' = nz
  BY DEF RecoveryWritten, TurnInv

(* Time runs down every grace. *)
LEMMA ElapsesTurn ==
  ASSUME IInv, TurnInv, Elapses
  PROVE  /\ TurnInv'
         /\ \A w \in Waits \ {"recv"} : nz'.deadlines[w] <= nz.deadlines[w]
  <1> DEFINE later == [w \in Waits |-> Less(nz.deadlines[w])]
             m == [nz EXCEPT !.deadlines = later]
  <1>1. nz \in Normalizer /\ TurnOf(nz, turn) /\ ("this" \in fetching => nz.recoveryAttempted)
    BY OpenTurn
  <1>2. nz' = m /\ turn' = turn /\ fetching' = fetching
    BY DEF Elapses, Elapse
  <1>3. \A w \in Waits : /\ later[w] <= nz.deadlines[w]
                         /\ later[w] = Off <=> nz.deadlines[w] = Off
    BY <1>1 DEF Normalizer, Less, Off
  <1>4. HIDE DEF later
  <1>5. /\ m.recoveryAttempted = nz.recoveryAttempted /\ m.finalized = nz.finalized
        /\ m.deadlines = later /\ m.text = nz.text
        /\ m.pendingAckText = nz.pendingAckText /\ m.mediaPaths = nz.mediaPaths
        /\ m.ownRunIds = nz.ownRunIds /\ m.compactionPending = nz.compactionPending
    BY <1>1 DEF Normalizer
  <1>6. HIDE DEF m
  <1>7. TurnOf(m, turn)
    BY <1>1, <1>3, <1>5 DEF TurnOf, AckHeld, GraceQuiet, Armed, Waits
  <1>8. QED  BY <1>1, <1>2, <1>3, <1>5, <1>7 DEF TurnInv

(* Every step keeps the record true of the object. *)
LEMMA StepTurn == IInv /\ TurnInv /\ [Next]_vars => TurnInv'
  <1> SUFFICES ASSUME IInv, TurnInv, [Next]_vars PROVE TurnInv'
    OBVIOUS
  <1>1. ASSUME NEW ack \in RunIds \cup {NoRun}, StartTurn(ack) PROVE TurnInv'
    BY <1>1, StartTurnTurn
  <1>2. ASSUME NEW f \in Frames, Receive(f) PROVE TurnInv'
    BY <1>2, ReceiveTurn
  <1>3. CASE Timeout
    BY <1>3, TimeoutTurn
  <1>4. CASE Close
    BY <1>4, CloseTurn
  <1>5. ASSUME NEW asker \in fetching, NEW said \in Recovered, RecoveryAnswer(asker, said)
        PROVE TurnInv'
    BY <1>5, RecoveryAnswerTurn
  <1>6. ASSUME NEW ok \in BOOLEAN, RecoveryWritten(ok) PROVE TurnInv'
    BY <1>6, RecoveryWrittenTurn
  <1>7. CASE Elapses
    BY <1>7, ElapsesTurn
  <1>8. CASE UNCHANGED vars
    BY <1>8 DEF vars, TurnInv
  <1>9. QED  BY <1>1, <1>2, <1>3, <1>4, <1>5, <1>6, <1>7, <1>8 DEF Next

(* In every behaviour the record is true of the object: what the message has  *)
(* been shown is the normalizer's text, each piece sanitized as it came; what  *)
(* is attached is what it collected, and what was fetched is what it           *)
(* remembers.  A closed turn that frames still reach is no exception.          *)
THEOREM TurnInvariant == Spec => []TurnInv
  BY InitTurn, StepTurn, LoopInvariant, PTL DEF Spec

(* However often a turn comes back to a grace, its transcript is fetched once. *)
THEOREM RecoveredOnce == Spec => []RecoveryOnce
  <1>1. TurnInv => RecoveryOnce
    BY DEF TurnInv, TurnOf, RecoveryOnce
  <1>2. QED  BY <1>1, TurnInvariant, PTL

(* No frame of another run contributes to an acked turn before the turn's own *)
(* run has ended or was abandoned to compaction.                             *)
THEOREM BackgroundStaysOut == Spec => []BackgroundRunsStayOut
  <1>1. TurnInv => BackgroundRunsStayOut
    BY DEF TurnInv, TurnOf, Alone, BackgroundRunsStayOut
  <1>2. QED  BY <1>1, TurnInvariant, PTL

(* While a turn is held on a grace, no reply has been shown that the grace   *)
(* could cut short.                                                          *)
THEOREM GraceWithoutReply == Spec => []GraceMeansNoReply
  <1>1. IInv /\ TurnInv => GraceMeansNoReply
    <2> SUFFICES ASSUME IInv, TurnInv, ~turn.abandoned,
                        Armed(nz, "private_ack") \/ Armed(nz, "empty_final")
                 PROVE  turn.stream = <<>> \/ IsPrivateAck(turn.stream)
      BY DEF GraceMeansNoReply
    <2>1. ~nz.finalized
      BY DEF IInv, DeadlinesMatchTurn, Waits
    <2>2. turn.stream = Pieces(nz.text) /\ (nz.text = <<>> \/ IsPrivateAck(nz.text))
      BY <2>1 DEF TurnInv, TurnOf, GraceQuiet
    <2>3. nz.text \in Text
      BY DEF IInv, TypeOK, Normalizer
    <2>4. QED  BY <2>2, <2>3, PiecesTyped, SaidPieces
  <1>2. QED  BY <1>1, LoopInvariant, TurnInvariant, PTL

(* A file is attached to the message once, whoever names it again, in the same *)
(* frame or in another.                                                       *)
THEOREM FilesAttachedOnce == Spec => []EachFileOnce
  <1>1. TurnInv => EachFileOnce
    BY DEF TurnInv, TurnOf, EachFileOnce
  <1>2. QED  BY <1>1, TurnInvariant, PTL

(* A turn nobody abandoned closes with the text its message has been showing, *)
(* chunk by chunk, but for the paths that streaming broke into chunks; or,     *)
(* having shown none, with nothing or the ack it held.                         *)
THEOREM AnswerShown == Spec => []AnswerIsWhatWasShown
  <1>1. IInv /\ TurnInv => AnswerIsWhatWasShown
    <2> SUFFICES ASSUME IInv, TurnInv, nz.finalized, ~turn.abandoned,
                        ~(turn.stream = <<>> /\ IsPrivateAck(turn.answer))
                 PROVE  /\ Len(turn.answer) = Len(turn.stream)
                        /\ \A i \in DOMAIN turn.answer :
                             \/ turn.answer[i] = turn.stream[i]
                             \/ Len(nz.text) > 1 /\ InDirective(nz.text, i)
      BY DEF AnswerIsWhatWasShown
    <2>1. turn.answer = Sanitized(nz.text) /\ turn.stream = Pieces(nz.text)
      BY DEF TurnInv, TurnOf
    <2>2. nz.text \in Text
      BY DEF IInv, TypeOK, Normalizer
    <2>3. QED  BY <2>1, <2>2, SanitizedPieces
  <1>2. QED  BY <1>1, LoopInvariant, TurnInvariant, PTL

(* No step gives a running grace more time, but the frame that restarts it.  *)
GraceStep ==
  \A w \in Waits \ {"recv"} :
    0 <= nz.deadlines[w] /\ nz.deadlines[w] < nz'.deadlines[w] =>
      \E f \in Frames : Receive(f) /\ Restarts(w, f)

(* Of all steps only a frame can give a running grace more time. *)
LEMMA StepGraces == IInv /\ TurnInv /\ [Next]_vars => [GraceStep]_vars
  <1> SUFFICES ASSUME IInv, TurnInv, Next, NEW w \in Waits \ {"recv"},
                      0 <= nz.deadlines[w], nz.deadlines[w] < nz'.deadlines[w]
               PROVE  \E f \in Frames : Receive(f) /\ Restarts(w, f)
    BY DEF GraceStep
  <1>1. /\ nz.deadlines[w] \in Nat \cup {Off}
        /\ nz'.deadlines[w] # Off /\ nz'.deadlines[w] # nz.deadlines[w]
        /\ ~(nz'.deadlines[w] <= nz.deadlines[w])
    <2>1. nz.deadlines[w] \in Nat \cup {Off}
      BY OpenTurn DEF Normalizer
    <2>2. nz'.deadlines[w] \in Nat \cup {Off}
      <3>1. IInv'
        BY StepInvariant
      <3>2. nz' \in Normalizer
        BY <3>1 DEF IInv, TypeOK
      <3>3. QED  BY <3>2 DEF Normalizer
    <2>3. QED  BY <2>1, <2>2 DEF Off
  <1>2. ASSUME NEW ack \in RunIds \cup {NoRun}, StartTurn(ack) PROVE FALSE
    BY <1>1, <1>2, StartTurnTurn
  <1>3. ASSUME NEW f \in Frames, Receive(f) PROVE Restarts(w, f)
    BY <1>1, <1>3, ReceiveTurn
  <1>4. ASSUME Timeout PROVE FALSE
    BY <1>1, <1>4, TimeoutTurn
  <1>5. ASSUME Close PROVE FALSE
    BY <1>1, <1>5, CloseTurn
  <1>6. ASSUME NEW asker \in fetching, NEW said \in Recovered, RecoveryAnswer(asker, said)
        PROVE FALSE
    BY <1>1, <1>6, RecoveryAnswerTurn
  <1>7. ASSUME NEW ok \in BOOLEAN, RecoveryWritten(ok) PROVE FALSE
    BY <1>1, <1>7, RecoveryWrittenTurn
  <1>8. ASSUME Elapses PROVE FALSE
    BY <1>1, <1>8, ElapsesTurn
  <1>9. QED  BY <1>2, <1>3, <1>4, <1>5, <1>6, <1>7, <1>8 DEF Next

(* A running grace is never extended by an unrelated frame, a tick, a close   *)
(* or a late recovery.                                                       *)
THEOREM GracesKeepTime == Spec => GracesNotExtended
  <1>1. Spec => [][GraceStep]_vars
    BY StepGraces, LoopInvariant, TurnInvariant, PTL DEF Spec
  <1>2. QED  BY <1>1, PTL DEF GracesNotExtended, GraceStep
=============================================================================
