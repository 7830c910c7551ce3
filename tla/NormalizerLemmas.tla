-------------------------- MODULE NormalizerLemmas --------------------------
(***************************************************************************)
(* Lemmas about the operators of Normalizer, for every value of the          *)
(* constants: they serve the proofs about the loop of one session             *)
(* (TurnLoopProofs) and about its turns with every await (TurnPipelineProofs).*)
(*                                                                          *)
(* Every handler of the normalizer that finds the turn open maps a sound      *)
(* result to a sound result: the object is well typed, its deadlines match    *)
(* its turn, and the events pushed so far hold one final exactly when the     *)
(* turn is closed.  The lemmas say so operator by operator, bottom up.         *)
(***************************************************************************)
EXTENDS Normalizer, FiniteSetTheorems, SequenceTheorems, TLAPS

Event ==
  [type : {"message.snapshot", "message.delta"}, text : Text]
    \cup [type : {"media"}, items : SUBSET MediaPaths]
    \cup [type : {"message.final"}, text : Text, error : BOOLEAN]
    \cup [type : {"run.status"},
          status : {"final", "error", "aborted", "working", "running", "compacting"}]
    \cup [type : {"tool.status"}, name : {"message", "other"},
          phase : {"start", "result", "completed"}, input : BOOLEAN]
    \cup [type : {"provenance"}, run : RunIds \cup {NoRun}]

Results == [nz : Normalizer, ev : Seq(Event)]

Matched(n) == IF n.finalized THEN Idle(n) ELSE Armed(n, "recv")

Finals(ev) == {i \in DOMAIN ev : ev[i].type = "message.final"}

ClosedOnce(r) ==
  IF r.nz.finalized THEN \E i \in DOMAIN r.ev : Finals(r.ev) = {i}
                    ELSE Finals(r.ev) = {}

Sound(r) == r \in Results /\ Matched(r.nz) /\ ClosedOnce(r)

-----------------------------------------------------------------------------
(* Sanitized text *)

(* A set of chunks that has what is left of each. *)
CleanedIn(S) == \A c \in S : Cleaned[c].alone \in S /\ Cleaned[c].within \in S

(* What is left of any chunk is a chunk. *)
LEMMA ChunksCleaned == CleanedIn(Chunks)
  BY NormalizerAssumption DEF CleanedIn

(* Sanitizing a text changes chunks of it, and neither their number nor place. *)
LEMMA SanitizedTyped ==
  ASSUME NEW S, CleanedIn(S), NEW text \in Seq(S)
  PROVE  /\ Sanitized(text) \in Seq(S)
         /\ DOMAIN Sanitized(text) = DOMAIN text
         /\ Len(Sanitized(text)) = Len(text)
  <1> DEFINE n == Len(text)
             clean(i) == IF ~InDirective(text, i) THEN text[i]
                         ELSE IF Len(text) = 1 THEN Cleaned[text[i]].alone
                                               ELSE Cleaned[text[i]].within
  <1>1. n \in Nat /\ DOMAIN text = 1 .. n /\ \A i \in 1 .. n : text[i] \in S
    BY LenProperties
  <1>2. Sanitized(text) = [i \in 1 .. n |-> clean(i)]
    BY <1>1 DEF Sanitized
  <1>3. \A i \in 1 .. n : clean(i) \in S
    BY <1>1 DEF CleanedIn
  <1>4. HIDE DEF clean
  <1>5. [i \in 1 .. n |-> clean(i)] \in [1 .. n -> S]
    BY <1>3
  <1>6. [i \in 1 .. n |-> clean(i)] \in Seq(S)
    BY <1>1, <1>5, SeqDef
  <1>7. Len([i \in 1 .. n |-> clean(i)]) = n
    BY <1>1, <1>6, LenProperties
  <1>8. QED  BY <1>1, <1>2, <1>6, <1>7

(* A held ack is no path: nothing of it is cut. *)
LEMMA AckSanitized ==
  ASSUME NEW ack, ack = <<>> \/ IsPrivateAck(ack)
  PROVE  Sanitized(ack) = ack
  <1>1. CASE ack = <<>>
    BY <1>1 DEF Sanitized
  <1>2. CASE IsPrivateAck(ack)
    <2>1. PICK a \in AckChunks : ack = <<a>>
      BY <1>2 DEF IsPrivateAck
    <2>2. ~InDirective(ack, 1)
      <3> SUFFICES ASSUME NEW d \in Directives, NEW j \in 0 .. 1,
                          Occurs(d, ack, j), j < 1, 1 <= j + Len(d)
                   PROVE  FALSE
        BY <2>1 DEF InDirective
      <3>1. d \in Seq(Chunks) /\ d # <<>> /\ a \in Chunks
        BY NormalizerAssumption
      <3>2. j = 0 /\ Len(d) = 1 /\ DOMAIN d = 1 .. 1
        BY <2>1, <3>1, LenProperties DEF Occurs
      <3>3. d[1] = a
        BY <2>1, <3>2 DEF Occurs
      <3>4. d = <<a>>
        BY <3>1, <3>2, <3>3
      <3>5. QED  BY <3>4, NormalizerAssumption
    <2>3. DOMAIN ack = {1} /\ ack[1] = a
      BY <2>1
    <2>4. Sanitized(ack) = [i \in {1} |-> a]
      BY <2>2, <2>3 DEF Sanitized
    <2>5. QED  BY <2>1, <2>4
  <1>3. QED  BY <1>1, <1>2

-----------------------------------------------------------------------------
(* Deadlines *)

(* A wait armed on a well typed normalizer leaves it well typed. *)
LEMMA ArmTyped ==
  ASSUME NEW n \in Normalizer, NEW w \in Waits, NEW b \in Nat
  PROVE  /\ Arm(n, w, b) \in Normalizer
         /\ Arm(n, w, b).finalized = n.finalized
         /\ Armed(Arm(n, w, b), w)
         /\ \A v \in Waits \ {w} : Arm(n, w, b).deadlines[v] = n.deadlines[v]
  BY DEF Arm, Normalizer, Armed, Off

(* ArmRecv of an open turn arms its silence budget; it does nothing to a     *)
(* closed one.                                                               *)
LEMMA ArmRecvMatches ==
  ASSUME NEW n \in Normalizer, n.finalized => Idle(n)
  PROVE  /\ ArmRecv(n) \in Normalizer
         /\ ArmRecv(n).finalized = n.finalized
         /\ Matched(ArmRecv(n))
  <1>1. CASE n.finalized
    BY <1>1 DEF ArmRecv, Matched
  <1>2. CASE ~n.finalized
    <2>1. /\ BASE_RECV_TIMEOUT \in Nat
          /\ COMPACTION_RECV_TIMEOUT \in Nat
          /\ "recv" \in Waits
      BY NormalizerAssumption DEF Waits
    <2>2. CASE n.compactionPending
      BY <1>2, <2>1, <2>2, ArmTyped DEF ArmRecv, Matched
    <2>3. CASE ~n.compactionPending
      BY <1>2, <2>1, <2>3, ArmTyped DEF ArmRecv, Matched
    <2>4. QED  BY <2>2, <2>3
  <1>3. QED  BY <1>1, <1>2

-----------------------------------------------------------------------------
(* Events *)

(* Appending an event that is not a final leaves the finals where they are.  *)
LEMMA AppendKeepsFinals ==
  ASSUME NEW ev \in Seq(Event), NEW e \in Event, e.type # "message.final"
  PROVE  Append(ev, e) \in Seq(Event) /\ Finals(Append(ev, e)) = Finals(ev)
  <1>1. /\ Append(ev, e) \in Seq(Event)
        /\ Len(Append(ev, e)) = Len(ev) + 1
        /\ Append(ev, e)[Len(ev) + 1] = e
        /\ \A i \in 1 .. Len(ev) : Append(ev, e)[i] = ev[i]
        /\ DOMAIN Append(ev, e) = 1 .. Len(ev) + 1
        /\ DOMAIN ev = 1 .. Len(ev)
        /\ Len(ev) \in Nat
    OBVIOUS
  <1>2. \A i \in 1 .. Len(ev) + 1 : i \in 1 .. Len(ev) \/ i = Len(ev) + 1
    BY <1>1
  <1>3. 1 .. Len(ev) \subseteq 1 .. Len(ev) + 1
    BY <1>1
  <1>4. QED  BY <1>1, <1>2, <1>3 DEF Finals

(* Pushing an event that is not a final keeps a result sound.                *)
LEMMA PushSound ==
  ASSUME NEW r, Sound(r), NEW e \in Event, e.type # "message.final"
  PROVE  Sound(Push(r, e)) /\ Push(r, e).nz = r.nz
  <1>1. r \in Results /\ r.ev \in Seq(Event)
    BY DEF Sound, Results
  <1>2. /\ Push(r, e) \in Results
        /\ Push(r, e).nz = r.nz
        /\ Push(r, e).ev = Append(r.ev, e)
    BY <1>1, AppendKeepsFinals DEF Push, Results
  <1>3. Finals(Push(r, e).ev) = Finals(r.ev)
    BY <1>1, <1>2, AppendKeepsFinals
  <1>4. DOMAIN r.ev \subseteq DOMAIN Append(r.ev, e)
    BY <1>1
  <1>5. QED  BY <1>2, <1>3, <1>4 DEF Sound, ClosedOnce

(* A handler may change the object as long as the turn stays as it is and    *)
(* the deadlines match it.                                                   *)
LEMMA ObjectSound ==
  ASSUME NEW r, Sound(r), NEW n \in Normalizer,
         n.finalized = r.nz.finalized, Matched(n)
  PROVE  /\ Sound([r EXCEPT !.nz = n])
         /\ [r EXCEPT !.nz = n].nz = n
         /\ [r EXCEPT !.nz = n].ev = r.ev
  BY DEF Sound, Results, ClosedOnce

(* A turn starts its batch with no event.                                    *)
LEMMA ResultSound ==
  ASSUME NEW n \in Normalizer, ~n.finalized, Matched(n)
  PROVE  Sound(Result(n)) /\ Result(n).nz = n
  BY DEF Sound, Results, Result, ClosedOnce, Finals

(* The text a closing turn gets is a text.                                   *)
LEMMA AnswerTextTyped ==
  ASSUME NEW n \in Normalizer
  PROVE  AnswerText(n) \in Text /\ Sanitized(AnswerText(n)) \in Text
  BY SanitizedTyped, ChunksCleaned DEF AnswerText, Normalizer, Text

(* The terminal pair of an open turn: one final, then its status.            *)
LEMMA TerminalPairOnce ==
  ASSUME NEW ev \in Seq(Event), Finals(ev) = {}, NEW n \in Normalizer,
         NEW status \in {"final", "error", "aborted"}
  PROVE  /\ ev \o TerminalPair(n, status) \in Seq(Event)
         /\ Finals(ev \o TerminalPair(n, status)) = {Len(ev) + 1}
         /\ Len(ev) + 1 \in DOMAIN (ev \o TerminalPair(n, status))
  <1> DEFINE final == [type |-> "message.final", text |-> Sanitized(AnswerText(n)),
                       error |-> status = "error"]
             run == [type |-> "run.status", status |-> status]
             pair == <<final, run>>
             all == ev \o pair
  <1>1. final \in Event /\ final.type = "message.final"
    BY AnswerTextTyped DEF Event
  <1>2. run \in Event /\ run.type = "run.status"
    BY DEF Event
  <1>3. pair = TerminalPair(n, status)
    BY DEF TerminalPair
  <1>4. HIDE DEF final, run
  <1>5. /\ all \in Seq(Event)
        /\ Len(all) = Len(ev) + 2
        /\ all[Len(ev) + 1] = final
        /\ all[Len(ev) + 2] = run
        /\ \A i \in 1 .. Len(ev) : all[i] = ev[i]
        /\ DOMAIN all = 1 .. Len(ev) + 2
        /\ DOMAIN ev = 1 .. Len(ev)
        /\ Len(ev) \in Nat
    BY <1>1, <1>2
  <1>6. \A i \in 1 .. Len(ev) + 2 :
          i \in 1 .. Len(ev) \/ i = Len(ev) + 1 \/ i = Len(ev) + 2
    BY <1>5
  <1>7. Len(ev) + 1 \in 1 .. Len(ev) + 2
    BY <1>5
  <1>8. \A i \in 1 .. Len(ev) : ev[i].type # "message.final"
    BY <1>5 DEF Finals
  <1>9. Finals(all) = {Len(ev) + 1}
    BY <1>1, <1>2, <1>5, <1>6, <1>7, <1>8 DEF Finals
  <1>10. QED  BY <1>3, <1>5, <1>7, <1>9

(* Finalizing closes the turn, once.                                         *)
LEMMA FinalizeSound ==
  ASSUME NEW r, Sound(r), NEW status \in {"final", "error", "aborted"}
  PROVE  Sound(Finalize(r, status)) /\ Finalize(r, status).nz.finalized
  <1>1. CASE r.nz.finalized
    BY <1>1 DEF Finalize
  <1>2. CASE ~r.nz.finalized
    <2> DEFINE closed == [r.nz EXCEPT !.finalized = TRUE, !.compactionPending = FALSE,
                                      !.deadlines = NoDeadlines]
    <2>1. r.nz \in Normalizer /\ r.ev \in Seq(Event) /\ Finals(r.ev) = {}
      BY <1>2 DEF Sound, Results, ClosedOnce
    <2>2. closed \in Normalizer /\ closed.finalized /\ Idle(closed)
      BY <2>1 DEF Normalizer, NoDeadlines, Idle, Armed, Off
    <2>3. Finalize(r, status) = [nz |-> closed, ev |-> r.ev \o TerminalPair(r.nz, status)]
      BY <1>2 DEF Finalize
    <2>4. /\ Finalize(r, status).nz = closed
          /\ Finalize(r, status).ev = r.ev \o TerminalPair(r.nz, status)
      BY <1>2 DEF Finalize
    <2>5. HIDE DEF closed
    <2>6. /\ r.ev \o TerminalPair(r.nz, status) \in Seq(Event)
          /\ Finals(r.ev \o TerminalPair(r.nz, status)) = {Len(r.ev) + 1}
          /\ Len(r.ev) + 1 \in DOMAIN (r.ev \o TerminalPair(r.nz, status))
      BY <2>1, TerminalPairOnce
    <2>7. Finalize(r, status) \in Results
      BY <2>2, <2>3, <2>6 DEF Results
    <2>8. QED  BY <2>2, <2>4, <2>7, <2>6 DEF Sound, Matched, ClosedOnce
  <1>3. QED  BY <1>1, <1>2

-----------------------------------------------------------------------------
(* The visible text *)

(* What a frame says is a text; if it is not empty it starts with a chunk.   *)
LEMMA SaidIsText ==
  ASSUME NEW said \in Said
  PROVE  /\ said \in Text /\ Sanitized(said) \in Text
         /\ said # <<>> => Head(said) \in Chunks
  <1>1. said \in Seq(Chunks) /\ (said # <<>> => Head(said) \in Chunks)
    <2>1. CASE said = <<>>
      BY <2>1
    <2>2. CASE \E c \in Chunks : said = <<c>>
      BY <2>2
    <2>3. QED  BY <2>1, <2>2 DEF Said
  <1>2. Sanitized(said) \in Seq(Chunks)
    BY <1>1, SanitizedTyped, ChunksCleaned
  <1>3. QED  BY <1>1, <1>2 DEF Text

(* Collecting media pushes at most one media event.                          *)
LEMMA CollectMediaSound ==
  ASSUME NEW r, Sound(r), NEW paths \in SUBSET MediaPaths
  PROVE  /\ Sound(CollectMedia(r, paths))
         /\ CollectMedia(r, paths).nz.finalized = r.nz.finalized
  <1> DEFINE new == paths \ r.nz.mediaPaths
             n == [r.nz EXCEPT !.mediaPaths = @ \cup new]
             e == [type |-> "media", items |-> new]
  <1>1. CASE new = {}
    BY <1>1 DEF CollectMedia
  <1>2. CASE new # {}
    <2>1. r.nz \in Normalizer /\ r \in Results /\ Matched(r.nz)
      BY DEF Sound, Results
    <2>2. n \in Normalizer /\ n.finalized = r.nz.finalized /\ n.deadlines = r.nz.deadlines
      BY <2>1 DEF Normalizer
    <2>3. Matched(n)
      BY <2>1, <2>2 DEF Matched, Idle, Armed
    <2>4. e \in Event /\ e.type # "message.final"
      BY DEF Event
    <2>5. [r EXCEPT !.nz.mediaPaths = @ \cup new] = [r EXCEPT !.nz = n]
      BY <2>1 DEF Results
    <2>6. CollectMedia(r, paths) = Push([r EXCEPT !.nz = n], e)
      BY <1>2, <2>5 DEF CollectMedia
    <2>7. HIDE DEF n, e
    <2>8. Sound([r EXCEPT !.nz = n]) /\ [r EXCEPT !.nz = n].nz = n
      BY <2>2, <2>3, ObjectSound
    <2>9. QED  BY <2>2, <2>4, <2>6, <2>8, PushSound
  <1>3. QED  BY <1>1, <1>2

(* Holding an ack arms its grace beside the silence budget, or closes the    *)
(* turn with the reply it already has.                                       *)
LEMMA HoldAckSound ==
  ASSUME NEW r, Sound(r), ~r.nz.finalized, NEW ack \in Text, NEW isFinal \in BOOLEAN
  PROVE  Sound(HoldAck(r, ack, isFinal))
  <1> DEFINE held == [r.nz EXCEPT !.pendingAckText = ack]
             n == Arm(held, "private_ack", PRIVATE_ACK_GRACE)
  <1>1. r.nz \in Normalizer /\ r \in Results /\ Matched(r.nz)
    BY DEF Sound, Results
  <1>2. CASE HasRealContent(r.nz)
    BY <1>2, FinalizeSound DEF HoldAck
  <1>3. CASE ~HasRealContent(r.nz)
    <2>1. /\ held \in Normalizer
          /\ held.finalized = r.nz.finalized
          /\ held.deadlines = r.nz.deadlines
      BY <1>1 DEF Normalizer
    <2>2. /\ PRIVATE_ACK_GRACE \in Nat
          /\ "private_ack" \in Waits
          /\ "recv" \in Waits \ {"private_ack"}
      BY NormalizerAssumption DEF Waits
    <2>3. HIDE DEF held
    <2>4. /\ n \in Normalizer
          /\ n.finalized = r.nz.finalized
          /\ n.deadlines["recv"] = r.nz.deadlines["recv"]
      BY <2>1, <2>2, ArmTyped
    <2>5. Matched(n)
      BY <1>1, <2>4 DEF Matched, Armed
    <2>6. HoldAck(r, ack, isFinal) = [r EXCEPT !.nz = n]
      BY <1>1, <1>3 DEF HoldAck, Results, held
    <2>7. HIDE DEF n
    <2>8. QED  BY <2>4, <2>5, <2>6, ObjectSound
  <1>4. QED  BY <1>2, <1>3

(* Showing a text pushes it and its media, and closes the turn if it is final. *)
LEMMA ShowTextSound ==
  ASSUME NEW r, Sound(r), ~r.nz.finalized, NEW said \in Said, said # <<>>,
         NEW isSnapshot \in BOOLEAN, NEW isFinal \in BOOLEAN
  PROVE  Sound(ShowText(r, said, isSnapshot, isFinal))
  <1> DEFINE n == [r.nz EXCEPT !.text = IF isSnapshot THEN said ELSE @ \o said,
                            !.hasSnapshot = @ \/ isSnapshot,
                            !.pendingAckText = <<>>,
                            !.deadlines = [@ EXCEPT !["empty_final"] = Off,
                                                    !["private_ack"] = Off]]
             e == [type |-> IF isSnapshot THEN "message.snapshot" ELSE "message.delta",
                   text |-> Sanitized(said)]
             pushed == CollectMedia(Push([r EXCEPT !.nz = n], e), MediaIn[Head(said)])
  <1>1. r.nz \in Normalizer /\ r \in Results /\ Matched(r.nz)
    BY DEF Sound, Results
  <1>2. said \in Text /\ Sanitized(said) \in Text /\ MediaIn[Head(said)] \in SUBSET MediaPaths
    BY SaidIsText, NormalizerAssumption
  <1>3. /\ n \in Normalizer
        /\ n.finalized = r.nz.finalized
        /\ n.deadlines["recv"] = r.nz.deadlines["recv"]
    <2>1. r.nz.text \in Text /\ r.nz.text \o said \in Text /\ <<>> \in Text
      BY <1>1, <1>2 DEF Normalizer, Text
    <2>2. Off \in Nat \cup {Off}
      OBVIOUS
    <2>3. [r.nz.deadlines EXCEPT !["empty_final"] = Off, !["private_ack"] = Off]
            \in [Waits -> Nat \cup {Off}]
      BY <1>1, <2>2 DEF Normalizer, Waits
    <2>4. [r.nz.deadlines EXCEPT !["empty_final"] = Off, !["private_ack"] = Off]["recv"]
            = r.nz.deadlines["recv"]
      BY <1>1 DEF Normalizer, Waits
    <2>5. QED  BY <1>1, <1>2, <2>1, <2>3, <2>4 DEF Normalizer
  <1>4. Matched(n)
    BY <1>1, <1>3 DEF Matched, Armed
  <1>5. e \in Event /\ e.type # "message.final"
    BY <1>2 DEF Event
  <1>6. ShowText(r, said, isSnapshot, isFinal)
          = IF isFinal THEN Finalize(pushed, "final") ELSE pushed
    BY DEF ShowText
  <1>7. HIDE DEF n, e
  <1>8. Sound([r EXCEPT !.nz = n])
    BY <1>3, <1>4, ObjectSound
  <1>9. Sound(Push([r EXCEPT !.nz = n], e))
    BY <1>5, <1>8, PushSound
  <1>10. Sound(pushed)
    BY <1>2, <1>9, CollectMediaSound
  <1>11. QED  BY <1>6, <1>10, FinalizeSound

(* The visible-text state machine keeps a result sound, whatever it is told. *)
LEMMA ApplyVisibleSound ==
  ASSUME NEW r, Sound(r), NEW said \in Said, said # <<>>,
         NEW isSnapshot \in BOOLEAN, NEW isFinal \in BOOLEAN
  PROVE  Sound(ApplyVisible(r, said, isSnapshot, isFinal))
  BY SaidIsText, HoldAckSound, ShowTextSound DEF ApplyVisible

-----------------------------------------------------------------------------
(* The handlers *)

(* A handler may change what is neither the turn nor its deadlines.          *)
LEMMA FieldSound ==
  ASSUME NEW r, Sound(r), NEW n \in Normalizer,
         n.finalized = r.nz.finalized, n.deadlines = r.nz.deadlines
  PROVE  Sound([r EXCEPT !.nz = n]) /\ [r EXCEPT !.nz = n].nz = n
  <1>1. Matched(r.nz)
    BY DEF Sound
  <1>2. Matched(n)
    BY <1>1 DEF Matched, Idle, Armed
  <1>3. QED  BY <1>2, ObjectSound

(* A handler may arm another wait of an open turn.                           *)
LEMMA ArmSound ==
  ASSUME NEW r, Sound(r), ~r.nz.finalized, NEW w \in Waits \ {"recv"}, NEW b \in Nat
  PROVE  /\ Sound([r EXCEPT !.nz = Arm(@, w, b)])
         /\ [r EXCEPT !.nz = Arm(@, w, b)].nz.finalized = r.nz.finalized
  <1> DEFINE n == Arm(r.nz, w, b)
  <1>1. r.nz \in Normalizer /\ r \in Results /\ Matched(r.nz)
    BY DEF Sound, Results
  <1>2. "recv" \in Waits \ {w}
    BY DEF Waits
  <1>3. /\ n \in Normalizer
        /\ n.finalized = r.nz.finalized
        /\ n.deadlines["recv"] = r.nz.deadlines["recv"]
    BY <1>1, <1>2, ArmTyped
  <1>4. Matched(n)
    BY <1>1, <1>3 DEF Matched, Armed
  <1>5. [r EXCEPT !.nz = Arm(@, w, b)] = [r EXCEPT !.nz = n]
    BY <1>1 DEF Results
  <1>6. HIDE DEF n
  <1>7. QED  BY <1>3, <1>4, <1>5, ObjectSound

(* An empty final closes the turn or opens its grace.                        *)
LEMMA EmptyFinalSound ==
  ASSUME NEW r, Sound(r), ~r.nz.finalized
  PROVE  Sound(EmptyFinal(r))
  <1>1. EMPTY_FINAL_GRACE \in Nat /\ "empty_final" \in Waits \ {"recv"}
    BY NormalizerAssumption DEF Waits
  <1>2. CASE HasRealContent(r.nz)
    BY <1>2, FinalizeSound DEF EmptyFinal
  <1>3. CASE ~HasRealContent(r.nz)
    BY <1>1, <1>3, ArmSound DEF EmptyFinal
  <1>4. QED  BY <1>2, <1>3

(* A chat frame.                                                             *)
LEMMA HandleChatSound ==
  ASSUME NEW r, Sound(r), ~r.nz.finalized, NEW f \in ChatFrame
  PROVE  Sound(HandleChat(r, f))
  <1> DEFINE n == [r.nz EXCEPT !.lastDedupKey = {f}]
             fresh == [r EXCEPT !.nz.lastDedupKey = {f}]
             isFinal == f.state = "final"
  <1>1. r.nz \in Normalizer /\ r \in Results
    BY DEF Sound, Results
  <1>2. n \in Normalizer /\ n.finalized = r.nz.finalized /\ n.deadlines = r.nz.deadlines
    BY <1>1 DEF Normalizer
  <1>3. fresh = [r EXCEPT !.nz = n]
    BY <1>1 DEF Results
  <1>4. f.message \in Said /\ f.deltaText \in Said /\ isFinal \in BOOLEAN
    BY DEF ChatFrame
  <1>5. HIDE DEF n
  <1>6. Sound(fresh) /\ ~fresh.nz.finalized
    BY <1>2, <1>3, FieldSound
  <1>7. HandleChat(r, f) =
          IF f \in r.nz.lastDedupKey THEN r
          ELSE IF f.message # <<>> THEN ApplyVisible(fresh, f.message, TRUE, isFinal)
          ELSE IF f.deltaText # <<>> THEN ApplyVisible(fresh, f.deltaText, FALSE, isFinal)
          ELSE IF isFinal THEN EmptyFinal(fresh)
          ELSE fresh
    BY DEF HandleChat
  <1>8. HIDE DEF fresh, isFinal
  <1>9. /\ f.message # <<>> => Sound(ApplyVisible(fresh, f.message, TRUE, isFinal))
        /\ f.deltaText # <<>> => Sound(ApplyVisible(fresh, f.deltaText, FALSE, isFinal))
    BY <1>4, <1>6, ApplyVisibleSound
  <1>10. Sound(EmptyFinal(fresh))
    BY <1>6, EmptyFinalSound
  <1>11. QED  BY <1>6, <1>7, <1>9, <1>10

(* An assistant frame.                                                       *)
LEMMA HandleAssistantSound ==
  ASSUME NEW r, Sound(r), NEW f \in AssistantFrame
  PROVE  Sound(HandleAssistant(r, f))
  <1> DEFINE collected == CollectMedia(r, f.mediaUrls)
  <1>1. f.text \in Said /\ f.delta \in Said /\ f.mediaUrls \in SUBSET MediaPaths
    BY DEF AssistantFrame
  <1>2. Sound(collected)
    BY <1>1, CollectMediaSound
  <1>3. HandleAssistant(r, f) =
          IF f.text # <<>> THEN ApplyVisible(collected, f.text, TRUE, FALSE)
          ELSE IF f.delta # <<>> THEN ApplyVisible(collected, f.delta, FALSE, FALSE)
          ELSE collected
    BY DEF HandleAssistant
  <1>4. HIDE DEF collected
  <1>5. /\ f.text # <<>> => Sound(ApplyVisible(collected, f.text, TRUE, FALSE))
        /\ f.delta # <<>> => Sound(ApplyVisible(collected, f.delta, FALSE, FALSE))
    BY <1>1, <1>2, ApplyVisibleSound
  <1>6. QED  BY <1>2, <1>3, <1>5

(* A frame of the message tool.                                              *)
LEMMA MessageToolSound ==
  ASSUME NEW r, Sound(r), ~r.nz.finalized, NEW f \in MessageToolFrame
  PROVE  Sound(MessageTool(r, f))
  <1> DEFINE e == [type |-> "tool.status", name |-> "message",
                   phase |-> f.phase, input |-> FALSE]
             card == Push(r, e)
             visible == MessageToolText(f.args)
             n == [card.nz EXCEPT !.hasVisibleToolText = TRUE]
             marked == [card EXCEPT !.nz.hasVisibleToolText = TRUE]
  <1>1. f.phase \in {"start", "result"} /\ f.args \in ToolArgs
    BY DEF MessageToolFrame
  <1>2. visible \in Said
    BY <1>1 DEF MessageToolText, ToolArgs, Said
  <1>3. e \in Event /\ e.type # "message.final"
    BY <1>1 DEF Event
  <1>4. HIDE DEF e
  <1>5. Sound(card) /\ card.nz = r.nz
    BY <1>3, PushSound
  <1>6. card \in Results /\ card.nz \in Normalizer
    BY <1>5 DEF Sound, Results
  <1>7. HIDE DEF card
  <1>8. /\ n \in Normalizer
        /\ n.finalized = card.nz.finalized
        /\ n.deadlines = card.nz.deadlines
    BY <1>6 DEF Normalizer
  <1>9. marked = [card EXCEPT !.nz = n]
    BY <1>6 DEF Results
  <1>10. HIDE DEF n
  <1>11. Sound(marked)
    BY <1>5, <1>8, <1>9, FieldSound
  <1>12. MessageTool(r, f) =
           IF f.phase = "start" /\ visible # <<>>
             THEN ApplyVisible(marked, visible, TRUE, FALSE) ELSE card
    BY DEF MessageTool, card, e
  <1>13. HIDE DEF marked, visible
  <1>14. visible # <<>> => Sound(ApplyVisible(marked, visible, TRUE, FALSE))
    BY <1>2, <1>11, ApplyVisibleSound
  <1>15. QED  BY <1>5, <1>12, <1>14

(* A frame of another tool.                                                  *)
LEMMA OtherToolSound ==
  ASSUME NEW r, Sound(r), NEW f \in OtherToolFrame
  PROVE  Sound(OtherTool(r, f))
  <1> DEFINE started == [r.nz EXCEPT !.toolArgs = @ \cup {f.call}]
             ended == [r.nz EXCEPT !.toolArgs = @ \ {f.call}]
             e == [type |-> "tool.status", name |-> "other", phase |-> "completed",
                   input |-> f.call \in r.nz.toolArgs]
  <1>1. r.nz \in Normalizer /\ r \in Results /\ f.call \in ToolCalls
    BY DEF Sound, Results, OtherToolFrame
  <1>2. /\ started \in Normalizer
        /\ started.finalized = r.nz.finalized
        /\ started.deadlines = r.nz.deadlines
    BY <1>1 DEF Normalizer
  <1>3. /\ ended \in Normalizer
        /\ ended.finalized = r.nz.finalized
        /\ ended.deadlines = r.nz.deadlines
    BY <1>1 DEF Normalizer
  <1>4. e \in Event /\ e.type # "message.final"
    BY DEF Event
  <1>5. OtherTool(r, f) = IF f.phase = "start" THEN [r EXCEPT !.nz = started]
                          ELSE Push([r EXCEPT !.nz = ended], e)
    BY <1>1 DEF OtherTool, Results
  <1>6. HIDE DEF started, ended, e
  <1>7. Sound([r EXCEPT !.nz = started]) /\ Sound([r EXCEPT !.nz = ended])
    BY <1>2, <1>3, FieldSound
  <1>8. Sound(Push([r EXCEPT !.nz = ended], e))
    BY <1>4, <1>7, PushSound
  <1>9. QED  BY <1>5, <1>7, <1>8

(* A tool frame, then the media of its result.                               *)
LEMMA HandleToolSound ==
  ASSUME NEW r, Sound(r), ~r.nz.finalized, NEW f \in MessageToolFrame \cup OtherToolFrame
  PROVE  Sound(HandleTool(r, f))
  <1>1. f.result \in SUBSET MediaPaths
    BY DEF MessageToolFrame, OtherToolFrame
  <1>2. CASE f \in MessageToolFrame
    <2>1. f.name = "message"
      BY <1>2 DEF MessageToolFrame
    <2>2. QED  BY <1>1, <1>2, <2>1, MessageToolSound, CollectMediaSound DEF HandleTool
  <1>3. CASE f \in OtherToolFrame
    <2>1. f.name = "other"
      BY <1>3 DEF OtherToolFrame
    <2>2. QED  BY <1>1, <1>3, <2>1, OtherToolSound, CollectMediaSound DEF HandleTool
  <1>4. QED  BY <1>2, <1>3

(* A compaction reset re-arms the silence budget of the open turn.           *)
LEMMA ResetMatches ==
  ASSUME NEW n \in Normalizer, ~n.finalized
  PROVE  /\ ResetForCompaction(n) \in Normalizer
         /\ ~ResetForCompaction(n).finalized
         /\ Matched(ResetForCompaction(n))
  <1> DEFINE m == [n EXCEPT !.compactionPending = TRUE, !.text = <<>>,
                            !.hasSnapshot = FALSE, !.hasVisibleToolText = FALSE,
                            !.pendingAckText = <<>>, !.mediaPaths = {},
                            !.lastDedupKey = {},
                            !.deadlines = [@ EXCEPT !["empty_final"] = Off,
                                                    !["private_ack"] = Off,
                                                    !["lifecycle_end"] = Off]]
  <1>1. [n.deadlines EXCEPT !["empty_final"] = Off, !["private_ack"] = Off,
                            !["lifecycle_end"] = Off] \in [Waits -> Nat \cup {Off}]
    BY DEF Normalizer, Waits
  <1>2. <<>> \in Text
    BY DEF Text
  <1>3. m \in Normalizer /\ m.finalized = n.finalized
    BY <1>1, <1>2 DEF Normalizer
  <1>4. ResetForCompaction(n) = ArmRecv(m)
    BY DEF ResetForCompaction
  <1>5. HIDE DEF m
  <1>6. QED  BY <1>3, <1>4, ArmRecvMatches

(* The start of a run re-arms the budget after a compaction and calls off    *)
(* the grace of the run before.                                              *)
LEMMA RestartMatches ==
  ASSUME NEW n \in Normalizer, ~n.finalized, Matched(n), NEW restarted,
         restarted = IF n.compactionPending
                       THEN ArmRecv([n EXCEPT !.compactionPending = FALSE]) ELSE n
  PROVE  /\ ClearWait(restarted, "lifecycle_end") \in Normalizer
         /\ ~ClearWait(restarted, "lifecycle_end").finalized
         /\ Matched(ClearWait(restarted, "lifecycle_end"))
  <1> DEFINE m == [n EXCEPT !.compactionPending = FALSE]
             c == ClearWait(restarted, "lifecycle_end")
  <1>1. m \in Normalizer /\ m.finalized = n.finalized
    BY DEF Normalizer
  <1>2. HIDE DEF m
  <1>3. /\ ArmRecv(m) \in Normalizer
        /\ ArmRecv(m).finalized = m.finalized
        /\ Matched(ArmRecv(m))
    BY <1>1, ArmRecvMatches
  <1>4. restarted = IF n.compactionPending THEN ArmRecv(m) ELSE n
    BY DEF m
  <1>5. restarted \in Normalizer /\ ~restarted.finalized /\ Matched(restarted)
    BY <1>1, <1>3, <1>4
  <1>6. /\ c \in Normalizer
        /\ c.finalized = restarted.finalized
        /\ c.deadlines["recv"] = restarted.deadlines["recv"]
    BY <1>5 DEF ClearWait, Normalizer, Waits
  <1>7. QED  BY <1>5, <1>6 DEF Matched, Armed

(* A lifecycle frame.                                                        *)
LEMMA HandleLifecycleSound ==
  ASSUME NEW r, Sound(r), ~r.nz.finalized, NEW f \in LifecycleFrame
  PROVE  Sound(HandleLifecycle(r, f))
  <1>1. r.nz \in Normalizer /\ r \in Results /\ Matched(r.nz)
    BY DEF Sound, Results
  <1>2. f.phase \in {"start", "end", "abandoned", "error"}
    BY DEF LifecycleFrame
  <1>3. CASE f.phase = "error"
    BY <1>3, FinalizeSound DEF HandleLifecycle
  <1>4. CASE f.phase = "abandoned"
    <2> DEFINE n == ResetForCompaction(r.nz)
               e == [type |-> "run.status", status |-> "compacting"]
    <2>1. n \in Normalizer /\ n.finalized = r.nz.finalized /\ Matched(n)
      <3>1. r.nz.finalized = FALSE
        BY <1>1 DEF Normalizer
      <3>2. n \in Normalizer /\ ~n.finalized /\ Matched(n)
        BY <1>1, ResetMatches
      <3>3. n.finalized = FALSE
        BY <3>2 DEF Normalizer
      <3>4. QED  BY <3>1, <3>2, <3>3
    <2>2. e \in Event /\ e.type # "message.final"
      BY DEF Event
    <2>3. HandleLifecycle(r, f) = Push([r EXCEPT !.nz = n], e)
      BY <1>1, <1>4 DEF HandleLifecycle, Results
    <2>4. HIDE DEF n, e
    <2>5. Sound([r EXCEPT !.nz = n])
      BY <2>1, ObjectSound
    <2>6. QED  BY <2>2, <2>3, <2>5, PushSound
  <1>5. CASE f.phase = "end"
    <2> DEFINE armed == [r EXCEPT !.nz = Arm(@, "lifecycle_end", LIFECYCLE_END_GRACE)]
               e == [type |-> "run.status", status |-> "working"]
    <2>1. LIFECYCLE_END_GRACE \in Nat /\ "lifecycle_end" \in Waits \ {"recv"}
      BY NormalizerAssumption DEF Waits
    <2>2. e \in Event /\ e.type # "message.final"
      BY DEF Event
    <2>3. HandleLifecycle(r, f) = Push(armed, e)
      BY <1>5 DEF HandleLifecycle
    <2>4. Sound(armed)
      BY <2>1, ArmSound
    <2>5. HIDE DEF armed, e
    <2>6. QED  BY <2>2, <2>3, <2>4, PushSound
  <1>6. CASE f.phase = "start"
    <2> DEFINE restarted == IF r.nz.compactionPending
                              THEN ArmRecv([r.nz EXCEPT !.compactionPending = FALSE])
                              ELSE r.nz
               n == ClearWait(restarted, "lifecycle_end")
               e == [type |-> "run.status", status |-> "running"]
    <2>1. n \in Normalizer /\ n.finalized = r.nz.finalized /\ Matched(n)
      <3>1. r.nz.finalized = FALSE
        BY <1>1 DEF Normalizer
      <3>2. n \in Normalizer /\ ~n.finalized /\ Matched(n)
        BY <1>1, RestartMatches
      <3>3. n.finalized = FALSE
        BY <3>2 DEF Normalizer
      <3>4. QED  BY <3>1, <3>2, <3>3
    <2>2. e \in Event /\ e.type # "message.final"
      BY DEF Event
    <2>3. HandleLifecycle(r, f) = Push([r EXCEPT !.nz = n], e)
      BY <1>1, <1>6 DEF HandleLifecycle, Results
    <2>4. HIDE DEF n, e
    <2>5. Sound([r EXCEPT !.nz = n])
      BY <2>1, ObjectSound
    <2>6. QED  BY <2>2, <2>3, <2>5, PushSound
  <1>7. QED  BY <1>2, <1>3, <1>4, <1>5, <1>6

(* The stream of a frame says which frame it is.                             *)
LEMMA FrameStreams ==
  ASSUME NEW f \in Frame
  PROVE  /\ f.stream = "chat" => f \in ChatFrame
         /\ f.stream = "assistant" => f \in AssistantFrame
         /\ f.stream = "tool" => f \in MessageToolFrame \cup OtherToolFrame
         /\ f.stream = "lifecycle" => f \in LifecycleFrame
         /\ f.stream = "item" => f \in ItemFrame
         /\ f.stream = "provenance" => f \in ProvenanceFrame
         /\ f.stream \in {"chat", "assistant", "tool", "lifecycle", "item",
                           "provenance", "unattributable"}
         /\ f.run \in RunIds \cup {NoRun}
  BY DEF Frame, ChatFrame, AssistantFrame, MessageToolFrame, OtherToolFrame,
         LifecycleFrame, ItemFrame, ProvenanceFrame, UnattributableFrame

(* Every admitted frame keeps the result sound.                              *)
LEMMA DispatchSound ==
  ASSUME NEW r, Sound(r), ~r.nz.finalized, NEW f \in Frame, f.stream # "unattributable"
  PROVE  Sound(Dispatch(r, f))
  <1>1. CASE f.stream = "chat"
    BY <1>1, FrameStreams, HandleChatSound DEF Dispatch
  <1>2. CASE f.stream = "assistant"
    BY <1>2, FrameStreams, HandleAssistantSound DEF Dispatch
  <1>3. CASE f.stream = "tool"
    BY <1>3, FrameStreams, HandleToolSound DEF Dispatch
  <1>4. CASE f.stream = "lifecycle"
    BY <1>4, FrameStreams, HandleLifecycleSound DEF Dispatch
  <1>5. CASE f.stream = "item"
    <2> DEFINE n == [r.nz EXCEPT !.sawMessageToolItem = @ \/ f.messageTool]
    <2>1. r.nz \in Normalizer /\ r \in Results
      BY DEF Sound, Results
    <2>2. n \in Normalizer /\ n.finalized = r.nz.finalized /\ n.deadlines = r.nz.deadlines
      BY <2>1 DEF Normalizer
    <2>3. Dispatch(r, f) = [r EXCEPT !.nz = n]
      BY <1>5, <2>1 DEF Dispatch, Results
    <2>4. HIDE DEF n
    <2>5. QED  BY <2>2, <2>3, FieldSound
  <1>6. CASE f.stream = "provenance"
    <2> DEFINE e == [type |-> "provenance", run |-> f.run]
    <2>1. e \in Event /\ e.type # "message.final"
      BY FrameStreams DEF Event
    <2>2. Dispatch(r, f) = IF f.valid THEN Push(r, e) ELSE r
      BY <1>6 DEF Dispatch
    <2>3. HIDE DEF e
    <2>4. QED  BY <2>1, <2>2, PushSound
  <1>7. QED  BY <1>1, <1>2, <1>3, <1>4, <1>5, <1>6, FrameStreams

-----------------------------------------------------------------------------
(* The methods the run manager calls *)

(* A turn begins open, with its silence budget armed.                        *)
LEMMA BeginTurnMatches ==
  ASSUME NEW n, NEW run \in RunIds
  PROVE  /\ BeginTurn(n) \in Normalizer
         /\ ~BeginTurn(n).finalized
         /\ Matched(BeginTurn(n))
         /\ NoteRunStarted(BeginTurn(n), run) \in Normalizer
         /\ ~NoteRunStarted(BeginTurn(n), run).finalized
         /\ Matched(NoteRunStarted(BeginTurn(n), run))
  <1> DEFINE new == [NewNormalizer EXCEPT !.finalized = FALSE]
             begun == ArmRecv(new)
             owned == [begun EXCEPT !.ownRunIds = @ \cup {run}]
  <1>1. <<>> \in Text /\ NoDeadlines \in [Waits -> Nat \cup {Off}]
    BY DEF Text, NoDeadlines
  <1>2. new \in Normalizer /\ new.finalized = FALSE
    BY <1>1 DEF Normalizer, NewNormalizer
  <1>3. HIDE DEF new
  <1>4. begun \in Normalizer /\ begun.finalized = FALSE /\ Matched(begun)
    BY <1>2, ArmRecvMatches
  <1>5. BeginTurn(n) = begun
    BY DEF BeginTurn, new
  <1>6. HIDE DEF begun
  <1>7. owned \in Normalizer /\ owned.finalized = FALSE
    BY <1>4 DEF Normalizer
  <1>8. NoteRunStarted(BeginTurn(n), run) = ArmRecv(owned)
    BY <1>5 DEF NoteRunStarted
  <1>9. HIDE DEF owned
  <1>10. QED  BY <1>4, <1>5, <1>7, <1>8, ArmRecvMatches

(* A frame fed to an open turn.                                              *)
LEMMA FeedSound ==
  ASSUME NEW n \in Normalizer, ~n.finalized, Matched(n), NEW f \in Frame
  PROVE  Sound(Feed(n, f))
  <1>1. CASE ~Admits(n, f)
    BY <1>1, ResultSound DEF Feed
  <1>2. CASE Admits(n, f)
    <2> DEFINE admitted == IF ForeignRun(n, f)
                             THEN [n EXCEPT !.ownRunIds = @ \cup {f.run}] ELSE n
               armed == ArmRecv(admitted)
    <2>1. f.stream # "unattributable"
      BY <1>2 DEF Admits
    <2>2. ForeignRun(n, f) => f.run \in RunIds
      BY FrameStreams DEF ForeignRun
    <2>3. admitted \in Normalizer /\ admitted.finalized = n.finalized
      BY <2>2 DEF Normalizer
    <2>4. Feed(n, f) = Dispatch(Result(armed), f)
      BY <1>2 DEF Feed
    <2>5. HIDE DEF admitted
    <2>6. armed \in Normalizer /\ ~armed.finalized /\ Matched(armed)
      BY <2>3, ArmRecvMatches
    <2>7. HIDE DEF armed
    <2>8. Sound(Result(armed)) /\ ~Result(armed).nz.finalized
      BY <2>6, ResultSound
    <2>9. QED  BY <2>1, <2>4, <2>8, DispatchSound
  <1>3. QED  BY <1>1, <1>2

(* A timer of an open turn.                                                  *)
LEMMA TickSound ==
  ASSUME NEW n \in Normalizer, ~n.finalized, Matched(n)
  PROVE  Sound(Tick(n))
  <1> DEFINE answered == [n EXCEPT !.text = AnswerText(n)]
  <1>1. /\ answered \in Normalizer
        /\ answered.finalized = n.finalized
        /\ answered.deadlines = n.deadlines
    BY AnswerTextTyped DEF Normalizer
  <1>2. Tick(n) = IF Expired(n, "private_ack") THEN Finalize(Result(answered), "final")
                  ELSE IF Due(n) THEN Finalize(Result(n), "final")
                  ELSE Result(n)
    BY DEF Tick
  <1>3. HIDE DEF answered
  <1>4. Matched(answered)
    BY <1>1 DEF Matched, Armed
  <1>5. Sound(Result(answered)) /\ Sound(Result(n))
    BY <1>1, <1>4, ResultSound
  <1>6. QED  BY <1>2, <1>5, FinalizeSound

(* The close of an open turn.                                                *)
LEMMA EndTurnSound ==
  ASSUME NEW n \in Normalizer, ~n.finalized, Matched(n)
  PROVE  Sound(EndTurn(n, "aborted"))
  BY ResultSound, FinalizeSound DEF EndTurn

(* The answer of the transcript to an open turn.                             *)
LEMMA RecoverSound ==
  ASSUME NEW n \in Normalizer, ~n.finalized, Matched(n), NEW said \in Said
  PROVE  Sound(RecoverVisibleText(n, said))
  <1> DEFINE m == [n EXCEPT !.hasVisibleToolText = TRUE]
  <1>1. m \in Normalizer /\ m.finalized = n.finalized /\ m.deadlines = n.deadlines
    BY DEF Normalizer
  <1>2. RecoverVisibleText(n, said) =
          IF said = <<>> THEN Result(n) ELSE ApplyVisible(Result(m), said, TRUE, TRUE)
    BY DEF RecoverVisibleText
  <1>3. HIDE DEF m
  <1>4. Matched(m)
    BY <1>1 DEF Matched, Armed
  <1>5. Sound(Result(m)) /\ Sound(Result(n))
    BY <1>1, <1>4, ResultSound
  <1>6. QED  BY <1>2, <1>5, ApplyVisibleSound

(* The nearest deadline is one of the deadlines.                             *)
LEMMA NextTimeoutTyped ==
  ASSUME NEW n \in Normalizer
  PROVE  NextTimeout(n) \in Nat \cup {Off}
  <1> DEFINE times == {n.deadlines[w] : w \in {v \in Waits : Armed(n, v)}}
             nearest(t) == \A w \in Waits : Armed(n, w) => t <= n.deadlines[w]
  <1>1. CASE Idle(n)
    BY <1>1 DEF NextTimeout
  <1>2. CASE ~Idle(n)
    <2>1. \A w \in Waits : Armed(n, w) => n.deadlines[w] \in Nat
      BY DEF Normalizer, Armed
    <2>2. \E w \in Waits : Armed(n, w)
      BY <1>2 DEF Idle
    <2>3. \E w \in Waits : Armed(n, w) /\ nearest(n.deadlines[w])
      BY <2>1, <2>2 DEF Waits
    <2>4. \E t \in times : nearest(t)
      BY <2>3
    <2>5. NextTimeout(n) = CHOOSE t \in times : nearest(t)
      BY <1>2 DEF NextTimeout
    <2>6. (CHOOSE t \in times : nearest(t)) \in times
      BY <2>4
    <2>7. QED  BY <2>1, <2>5, <2>6
  <1>3. QED  BY <1>1, <1>2

(* Time passing neither arms nor clears a wait.                              *)
LEMMA ElapseMatches ==
  ASSUME NEW n \in Normalizer
  PROVE  /\ Elapse(n) \in Normalizer
         /\ Elapse(n).finalized = n.finalized
         /\ \A w \in Waits : Armed(Elapse(n), w) <=> Armed(n, w)
  <1> DEFINE later == [w \in Waits |-> Less(n.deadlines[w])]
  <1>1. n.deadlines \in [Waits -> Nat \cup {Off}]
    BY DEF Normalizer
  <1>2. \A w \in Waits : Less(n.deadlines[w]) \in Nat \cup {Off}
    BY <1>1 DEF Less, Off
  <1>3. /\ later \in [Waits -> Nat \cup {Off}]
        /\ \A w \in Waits : later[w] = Off <=> n.deadlines[w] = Off
    <2>1. later \in [Waits -> Nat \cup {Off}]
      BY <1>2
    <2>2. \A w \in Waits : Less(n.deadlines[w]) = Off <=> n.deadlines[w] = Off
      BY <1>1 DEF Less, Off
    <2>3. QED  BY <2>1, <2>2
  <1>4. Elapse(n) = [n EXCEPT !.deadlines = later]
    BY DEF Elapse
  <1>5. HIDE DEF later
  <1>6. /\ Elapse(n) \in Normalizer
        /\ Elapse(n).finalized = n.finalized
        /\ Elapse(n).deadlines = later
    BY <1>3, <1>4 DEF Normalizer
  <1>7. QED  BY <1>3, <1>6 DEF Armed

-----------------------------------------------------------------------------
(* What a batch may say *)

(* The events that leave a turn as it is, about the chunks S and the runs U. *)
Plain(S, U) ==
  [type : {"message.snapshot", "message.delta"}, text : Seq(S)]
    \cup [type : {"media"}, items : SUBSET MediaPaths]
    \cup [type : {"tool.status"}, name : {"message", "other"},
          phase : {"start", "result", "completed"}, input : BOOLEAN]
    \cup [type : {"provenance"}, run : U]

ClosingFinal(S) == [type : {"message.final"}, text : Seq(S), error : BOOLEAN]
ClosingStatus == [type : {"run.status"}, status : {"final", "error", "aborted"}]
OpenStatus == [type : {"run.status"}, status : {"working", "running", "compacting"}]

(* An object n0 became: it holds texts of S, cleaned or not, belongs to the    *)
(* same runs, and has its silence budget armed while its turn is open.        *)
Kept(n0, n, S) ==
  /\ CleanedIn(S)
  /\ n \in Normalizer
  /\ n.text \in Seq(S)
  /\ n.pendingAckText \in Seq(S)
  /\ n.ownRunIds = n0.ownRunIds
  /\ n.recoveryAttempted = n0.recoveryAttempted
  /\ ~n.finalized => Armed(n, "recv")

(* A result leaves the turn as it was, or closes it, or tells a status only.  *)
IsResult(r) == r = [nz |-> r.nz, ev |-> r.ev]

GoesOn(n0, r, S, U) ==
  /\ IsResult(r) /\ Kept(n0, r.nz, S)
  /\ r.nz.finalized = n0.finalized
  /\ r.ev \in Seq(Plain(S, U))

Ends(n0, r, S, U) ==
  /\ IsResult(r) /\ Kept(n0, r.nz, S)
  /\ ~n0.finalized /\ r.nz.finalized
  /\ \E p \in Seq(Plain(S, U)), e \in ClosingFinal(S), s \in ClosingStatus :
       r.ev = p \o <<e, s>>

Tells(n0, r, S) ==
  /\ IsResult(r) /\ Kept(n0, r.nz, S)
  /\ r.nz.finalized = n0.finalized
  /\ \E s \in OpenStatus : r.ev = <<s>>

Follows(n0, r, S, U) == GoesOn(n0, r, S, U) \/ Ends(n0, r, S, U)

(* A handler may push an event that leaves the turn as it is.                 *)
LEMMA PushGoesOn ==
  ASSUME NEW n0, NEW S, NEW U, NEW r, GoesOn(n0, r, S, U), NEW e \in Plain(S, U)
  PROVE  GoesOn(n0, Push(r, e), S, U) /\ Push(r, e).nz = r.nz
  <1>1. r.ev \in Seq(Plain(S, U)) /\ IsResult(r)
    BY DEF GoesOn
  <1>2. Append(r.ev, e) \in Seq(Plain(S, U))
    BY <1>1
  <1>3. Push(r, e) = [nz |-> r.nz, ev |-> Append(r.ev, e)]
    <2>1. PICK n, ev : r = [nz |-> n, ev |-> ev]
      BY <1>1 DEF IsResult
    <2>2. QED  BY <2>1 DEF Push
  <1>4. QED  BY <1>2, <1>3 DEF GoesOn, IsResult

(* A handler may change the object.                                           *)
LEMMA ObjectGoesOn ==
  ASSUME NEW n0, NEW S, NEW U, NEW r, GoesOn(n0, r, S, U), NEW n, Kept(n0, n, S),
         n.finalized = r.nz.finalized
  PROVE  GoesOn(n0, [r EXCEPT !.nz = n], S, U) /\ [r EXCEPT !.nz = n].nz = n
  <1>1. [r EXCEPT !.nz = n] = [nz |-> n, ev |-> r.ev]
    BY DEF GoesOn, IsResult
  <1>2. QED  BY <1>1 DEF GoesOn, IsResult

(* Only texts, graces and notes of an object change: it is kept.              *)
LEMMA FieldKept ==
  ASSUME NEW n0, NEW S, NEW n, Kept(n0, n, S), NEW m \in Normalizer,
         m.text \in Seq(S), m.pendingAckText \in Seq(S),
         m.ownRunIds = n.ownRunIds, m.recoveryAttempted = n.recoveryAttempted,
         m.finalized = n.finalized, m.deadlines["recv"] = n.deadlines["recv"]
  PROVE  Kept(n0, m, S)
  BY DEF Kept, Armed

(* A closed turn stays closed, an open one ends with its pair of events.      *)
LEMMA FinalizeFollows ==
  ASSUME NEW n0, NEW S, NEW U, NEW r, GoesOn(n0, r, S, U),
         NEW status \in {"final", "error", "aborted"}
  PROVE  /\ Follows(n0, Finalize(r, status), S, U)
         /\ Finalize(r, status).nz.finalized
  <1>1. CASE r.nz.finalized
    BY <1>1 DEF Finalize, Follows
  <1>2. CASE ~r.nz.finalized
    <2> DEFINE closed == [r.nz EXCEPT !.finalized = TRUE, !.compactionPending = FALSE,
                                      !.deadlines = NoDeadlines]
               e == [type |-> "message.final", text |-> Sanitized(AnswerText(r.nz)),
                     error |-> status = "error"]
               s == [type |-> "run.status", status |-> status]
    <2>1. r.nz \in Normalizer /\ r.nz.text \in Seq(S) /\ r.nz.pendingAckText \in Seq(S)
      BY DEF GoesOn, Kept
    <2>2. /\ closed \in Normalizer /\ closed.finalized
          /\ closed.text = r.nz.text /\ closed.pendingAckText = r.nz.pendingAckText
          /\ closed.ownRunIds = r.nz.ownRunIds
          /\ closed.recoveryAttempted = r.nz.recoveryAttempted
      BY <2>1 DEF Normalizer, NoDeadlines, Off
    <2>3. e \in ClosingFinal(S) /\ s \in ClosingStatus
      <3>1. AnswerText(r.nz) \in Seq(S) /\ CleanedIn(S)
        BY <2>1 DEF AnswerText, GoesOn, Kept
      <3>2. Sanitized(AnswerText(r.nz)) \in Seq(S)
        BY <3>1, SanitizedTyped
      <3>3. QED  BY <3>2 DEF ClosingFinal, ClosingStatus
    <2>4. Finalize(r, status) = [nz |-> closed, ev |-> r.ev \o <<e, s>>]
      BY <1>2 DEF Finalize, TerminalPair
    <2>5. HIDE DEF closed, e, s
    <2>6. /\ Finalize(r, status).nz = closed
          /\ Finalize(r, status).ev = r.ev \o <<e, s>>
          /\ IsResult(Finalize(r, status))
      BY <2>4 DEF IsResult
    <2>7. Kept(n0, closed, S)
      BY <2>1, <2>2 DEF GoesOn, Kept
    <2>8. r.ev \in Seq(Plain(S, U)) /\ ~n0.finalized
      BY <1>2 DEF GoesOn
    <2>9. QED  BY <2>2, <2>3, <2>6, <2>7, <2>8 DEF Ends, Follows
  <1>3. QED  BY <1>1, <1>2

(* Media: at most one event more. *)
LEMMA CollectMediaGoesOn ==
  ASSUME NEW n0, NEW S, NEW U, NEW r, GoesOn(n0, r, S, U), NEW paths \in SUBSET MediaPaths
  PROVE  GoesOn(n0, CollectMedia(r, paths), S, U)
  <1> DEFINE new == paths \ r.nz.mediaPaths
             n == [r.nz EXCEPT !.mediaPaths = @ \cup new]
             e == [type |-> "media", items |-> new]
  <1>1. CASE new = {}
    BY <1>1 DEF CollectMedia
  <1>2. CASE new # {}
    <2>1. r.nz \in Normalizer /\ Kept(n0, r.nz, S) /\ IsResult(r)
      BY DEF GoesOn, Kept
    <2>2. Kept(n0, n, S) /\ n.finalized = r.nz.finalized
      <3>1. /\ n \in Normalizer /\ n.finalized = r.nz.finalized
            /\ n.deadlines = r.nz.deadlines
            /\ n.text = r.nz.text /\ n.pendingAckText = r.nz.pendingAckText
            /\ n.ownRunIds = r.nz.ownRunIds
            /\ n.recoveryAttempted = r.nz.recoveryAttempted
        BY <2>1 DEF Normalizer
      <3>2. HIDE DEF n
      <3>3. QED  BY <2>1, <3>1, FieldKept DEF Kept
    <2>3. e \in Plain(S, U)
      BY DEF Plain
    <2>4. [r EXCEPT !.nz.mediaPaths = @ \cup new] = [r EXCEPT !.nz = n]
      BY <2>1 DEF IsResult
    <2>5. CollectMedia(r, paths) = Push([r EXCEPT !.nz = n], e)
      BY <1>2, <2>4 DEF CollectMedia
    <2>6. HIDE DEF n, e
    <2>7. GoesOn(n0, [r EXCEPT !.nz = n], S, U)
      BY <2>2, ObjectGoesOn
    <2>8. QED  BY <2>3, <2>5, <2>7, PushGoesOn
  <1>3. QED  BY <1>1, <1>2

(* Any wait but the silence budget may be armed. *)
LEMMA ArmGoesOn ==
  ASSUME NEW n0, NEW S, NEW U, NEW r, GoesOn(n0, r, S, U),
         NEW w \in Waits \ {"recv"}, NEW b \in Nat
  PROVE  /\ Kept(n0, Arm(r.nz, w, b), S)
         /\ Arm(r.nz, w, b).finalized = r.nz.finalized
         /\ GoesOn(n0, [r EXCEPT !.nz = Arm(@, w, b)], S, U)
  <1> DEFINE n == Arm(r.nz, w, b)
  <1>1. r.nz \in Normalizer /\ Kept(n0, r.nz, S) /\ IsResult(r)
    BY DEF GoesOn, Kept
  <1>2. /\ n \in Normalizer /\ n.finalized = r.nz.finalized
        /\ n.deadlines["recv"] = r.nz.deadlines["recv"]
        /\ n.text = r.nz.text /\ n.pendingAckText = r.nz.pendingAckText
        /\ n.ownRunIds = r.nz.ownRunIds
        /\ n.recoveryAttempted = r.nz.recoveryAttempted
    BY <1>1 DEF Arm, Normalizer, Waits
  <1>3. [r EXCEPT !.nz = Arm(@, w, b)] = [r EXCEPT !.nz = n]
    BY <1>1 DEF IsResult
  <1>4. HIDE DEF n
  <1>5. Kept(n0, n, S)
    BY <1>1, <1>2, FieldKept DEF Kept
  <1>6. QED  BY <1>2, <1>3, <1>5, ObjectGoesOn DEF n

(* An ack is held, or closes the turn with the reply it has. *)
LEMMA HoldAckFollows ==
  ASSUME NEW n0, NEW S, NEW U, NEW r, GoesOn(n0, r, S, U),
         NEW ack \in Text \cap Seq(S), NEW isFinal \in BOOLEAN
  PROVE  /\ Follows(n0, HoldAck(r, ack, isFinal), S, U)
         /\ ~isFinal => GoesOn(n0, HoldAck(r, ack, isFinal), S, U)
  <1> DEFINE held == [r.nz EXCEPT !.pendingAckText = ack]
             o == [r EXCEPT !.nz = held]
  <1>1. r.nz \in Normalizer /\ Kept(n0, r.nz, S) /\ IsResult(r)
    BY DEF GoesOn, Kept
  <1>2. CASE HasRealContent(r.nz)
    <2>1. Follows(n0, Finalize(r, "final"), S, U)
      BY FinalizeFollows
    <2>2. QED  BY <1>2, <2>1 DEF HoldAck, Follows
  <1>3. CASE ~HasRealContent(r.nz)
    <2>1. /\ held \in Normalizer /\ held.finalized = r.nz.finalized
          /\ held.deadlines = r.nz.deadlines
          /\ held.text = r.nz.text /\ held.pendingAckText = ack
          /\ held.ownRunIds = r.nz.ownRunIds
          /\ held.recoveryAttempted = r.nz.recoveryAttempted
      BY <1>1 DEF Normalizer
    <2>2. HIDE DEF held
    <2>3. Kept(n0, held, S)
      BY <1>1, <2>1, FieldKept DEF Kept
    <2>4. GoesOn(n0, o, S, U)
      BY <2>1, <2>3, ObjectGoesOn
    <2>5. PRIVATE_ACK_GRACE \in Nat /\ "private_ack" \in Waits \ {"recv"}
      BY NormalizerAssumption DEF Waits
    <2>6. HoldAck(r, ack, isFinal) =
            [o EXCEPT !.nz = Arm(@, "private_ack", PRIVATE_ACK_GRACE)]
      BY <1>1, <1>3 DEF HoldAck, IsResult, held
    <2>7. HIDE DEF o
    <2>8. QED  BY <2>4, <2>5, <2>6, ArmGoesOn DEF Follows
  <1>4. QED  BY <1>2, <1>3

(* A text is shown, and closes the turn when it is final. *)
LEMMA ShowTextFollows ==
  ASSUME NEW n0, NEW S, NEW U, NEW r, GoesOn(n0, r, S, U), S \subseteq Chunks,
         NEW said \in Said \cap Seq(S), said # <<>>,
         NEW isSnapshot \in BOOLEAN, NEW isFinal \in BOOLEAN
  PROVE  /\ Follows(n0, ShowText(r, said, isSnapshot, isFinal), S, U)
         /\ ~isFinal => GoesOn(n0, ShowText(r, said, isSnapshot, isFinal), S, U)
  <1> DEFINE n == [r.nz EXCEPT !.text = IF isSnapshot THEN said ELSE @ \o said,
                            !.hasSnapshot = @ \/ isSnapshot,
                            !.pendingAckText = <<>>,
                            !.deadlines = [@ EXCEPT !["empty_final"] = Off,
                                                    !["private_ack"] = Off]]
             e == [type |-> IF isSnapshot THEN "message.snapshot" ELSE "message.delta",
                   text |-> Sanitized(said)]
             pushed == CollectMedia(Push([r EXCEPT !.nz = n], e), MediaIn[Head(said)])
  <1>1. r.nz \in Normalizer /\ Kept(n0, r.nz, S) /\ r.nz.text \in Seq(S)
    BY DEF GoesOn, Kept
  <1>2. said \in Text /\ MediaIn[Head(said)] \in SUBSET MediaPaths
    BY SaidIsText, NormalizerAssumption
  <1>3. Kept(n0, n, S) /\ n.finalized = r.nz.finalized
    <2> DEFINE shown == IF isSnapshot THEN said ELSE r.nz.text \o said
               left == [r.nz.deadlines EXCEPT !["empty_final"] = Off,
                                              !["private_ack"] = Off]
    <2>1. shown \in Text /\ shown \in Seq(S) /\ <<>> \in Text /\ <<>> \in Seq(S)
      BY <1>1, <1>2 DEF Normalizer, Text
    <2>2. left \in [Waits -> Nat \cup {Off}] /\ left["recv"] = r.nz.deadlines["recv"]
      BY <1>1 DEF Normalizer, Waits
    <2>3. n = [r.nz EXCEPT !.text = shown, !.hasSnapshot = @ \/ isSnapshot,
                           !.pendingAckText = <<>>, !.deadlines = left]
      BY <1>1 DEF Normalizer
    <2>4. HIDE DEF shown, left
    <2>5. /\ n \in Normalizer /\ n.finalized = r.nz.finalized
          /\ n.deadlines = left /\ n.text = shown /\ n.pendingAckText = <<>>
          /\ n.ownRunIds = r.nz.ownRunIds
          /\ n.recoveryAttempted = r.nz.recoveryAttempted
      BY <1>1, <2>1, <2>2, <2>3 DEF Normalizer
    <2>6. HIDE DEF n
    <2>7. QED  BY <1>1, <2>1, <2>2, <2>5, FieldKept
  <1>4. e \in Plain(S, U)
    <2>1. said \in Seq(S) /\ CleanedIn(S)
      BY <1>1 DEF Kept
    <2>2. Sanitized(said) \in Seq(S)
      BY <2>1, SanitizedTyped
    <2>3. QED  BY <2>2 DEF Plain
  <1>5. ShowText(r, said, isSnapshot, isFinal)
          = IF isFinal THEN Finalize(pushed, "final") ELSE pushed
    BY DEF ShowText
  <1>6. HIDE DEF n, e
  <1>7. GoesOn(n0, Push([r EXCEPT !.nz = n], e), S, U)
    BY <1>3, <1>4, ObjectGoesOn, PushGoesOn
  <1>8. GoesOn(n0, pushed, S, U)
    BY <1>2, <1>7, CollectMediaGoesOn
  <1>9. HIDE DEF pushed
  <1>10. Follows(n0, Finalize(pushed, "final"), S, U)
    BY <1>8, FinalizeFollows
  <1>11. QED  BY <1>5, <1>8, <1>10 DEF Follows

(* The visible-text state machine; only a final text may close the turn. *)
LEMMA ApplyVisibleFollows ==
  ASSUME NEW n0, NEW S, NEW U, NEW r, GoesOn(n0, r, S, U), S \subseteq Chunks,
         NEW said \in Said \cap Seq(S), said # <<>>,
         NEW isSnapshot \in BOOLEAN, NEW isFinal \in BOOLEAN
  PROVE  /\ Follows(n0, ApplyVisible(r, said, isSnapshot, isFinal), S, U)
         /\ ~isFinal => GoesOn(n0, ApplyVisible(r, said, isSnapshot, isFinal), S, U)
  <1>1. said \in Text \cap Seq(S)
    BY SaidIsText
  <1>2. Follows(n0, r, S, U)
    BY DEF Follows
  <1>3. QED  BY <1>1, <1>2, HoldAckFollows, ShowTextFollows DEF ApplyVisible

(* A note that is neither a text, the turn nor its deadlines. *)
LEMMA NoteGoesOn ==
  ASSUME NEW n0, NEW S, NEW U, NEW r, GoesOn(n0, r, S, U), NEW n \in Normalizer,
         n.text = r.nz.text, n.pendingAckText = r.nz.pendingAckText,
         n.ownRunIds = r.nz.ownRunIds, n.recoveryAttempted = r.nz.recoveryAttempted,
         n.finalized = r.nz.finalized, n.deadlines = r.nz.deadlines
  PROVE  GoesOn(n0, [r EXCEPT !.nz = n], S, U) /\ [r EXCEPT !.nz = n].nz = n
  <1>1. Kept(n0, r.nz, S)
    BY DEF GoesOn
  <1>2. Kept(n0, n, S)
    BY <1>1, FieldKept DEF Kept
  <1>3. QED  BY <1>2, ObjectGoesOn

(* An empty final. *)
LEMMA EmptyFinalFollows ==
  ASSUME NEW n0, NEW S, NEW U, NEW r, GoesOn(n0, r, S, U)
  PROVE  Follows(n0, EmptyFinal(r), S, U)
  <1>1. EMPTY_FINAL_GRACE \in Nat /\ "empty_final" \in Waits \ {"recv"}
    BY NormalizerAssumption DEF Waits
  <1>2. Follows(n0, Finalize(r, "final"), S, U)
    BY FinalizeFollows
  <1>3. GoesOn(n0, [r EXCEPT !.nz = Arm(@, "empty_final", EMPTY_FINAL_GRACE)], S, U)
    BY <1>1, ArmGoesOn
  <1>4. QED  BY <1>2, <1>3 DEF EmptyFinal, Follows

(* A chat frame. *)
LEMMA HandleChatFollows ==
  ASSUME NEW n0, NEW S, NEW U, NEW r, GoesOn(n0, r, S, U), S \subseteq Chunks,
         NEW f \in ChatFrame, FrameText(f) \subseteq Seq(S)
  PROVE  Follows(n0, HandleChat(r, f), S, U)
  <1> DEFINE n == [r.nz EXCEPT !.lastDedupKey = {f}]
             fresh == [r EXCEPT !.nz.lastDedupKey = {f}]
             isFinal == f.state = "final"
  <1>1. r.nz \in Normalizer /\ IsResult(r)
    BY DEF GoesOn, Kept
  <1>2. /\ n \in Normalizer /\ n.finalized = r.nz.finalized
        /\ n.deadlines = r.nz.deadlines
        /\ n.text = r.nz.text /\ n.pendingAckText = r.nz.pendingAckText
        /\ n.ownRunIds = r.nz.ownRunIds
        /\ n.recoveryAttempted = r.nz.recoveryAttempted
    BY <1>1 DEF Normalizer
  <1>3. fresh = [r EXCEPT !.nz = n]
    BY <1>1 DEF IsResult
  <1>4. /\ f.message \in Said \cap Seq(S) /\ f.deltaText \in Said \cap Seq(S)
        /\ isFinal \in BOOLEAN
    BY DEF ChatFrame, FrameText
  <1>5. HIDE DEF n
  <1>6. GoesOn(n0, fresh, S, U)
    BY <1>2, <1>3, NoteGoesOn
  <1>7. HandleChat(r, f) =
          IF f \in r.nz.lastDedupKey THEN r
          ELSE IF f.message # <<>> THEN ApplyVisible(fresh, f.message, TRUE, isFinal)
          ELSE IF f.deltaText # <<>> THEN ApplyVisible(fresh, f.deltaText, FALSE, isFinal)
          ELSE IF isFinal THEN EmptyFinal(fresh)
          ELSE fresh
    BY DEF HandleChat
  <1>8. HIDE DEF fresh, isFinal
  <1>9. /\ f.message # <<>> => Follows(n0, ApplyVisible(fresh, f.message, TRUE, isFinal), S, U)
        /\ f.deltaText # <<>> =>
             Follows(n0, ApplyVisible(fresh, f.deltaText, FALSE, isFinal), S, U)
    BY <1>4, <1>6, ApplyVisibleFollows
  <1>10. Follows(n0, EmptyFinal(fresh), S, U)
    BY <1>6, EmptyFinalFollows
  <1>11. Follows(n0, r, S, U) /\ Follows(n0, fresh, S, U)
    BY <1>6 DEF Follows
  <1>12. QED  BY <1>7, <1>9, <1>10, <1>11

(* An assistant frame. *)
LEMMA HandleAssistantFollows ==
  ASSUME NEW n0, NEW S, NEW U, NEW r, GoesOn(n0, r, S, U), S \subseteq Chunks,
         NEW f \in AssistantFrame, FrameText(f) \subseteq Seq(S)
  PROVE  GoesOn(n0, HandleAssistant(r, f), S, U)
  <1> DEFINE collected == CollectMedia(r, f.mediaUrls)
  <1>1. /\ f.text \in Said \cap Seq(S) /\ f.delta \in Said \cap Seq(S)
        /\ f.mediaUrls \in SUBSET MediaPaths
    BY DEF AssistantFrame, FrameText
  <1>2. GoesOn(n0, collected, S, U)
    BY <1>1, CollectMediaGoesOn
  <1>3. HandleAssistant(r, f) =
          IF f.text # <<>> THEN ApplyVisible(collected, f.text, TRUE, FALSE)
          ELSE IF f.delta # <<>> THEN ApplyVisible(collected, f.delta, FALSE, FALSE)
          ELSE collected
    BY DEF HandleAssistant
  <1>4. HIDE DEF collected
  <1>5. /\ f.text # <<>> => GoesOn(n0, ApplyVisible(collected, f.text, TRUE, FALSE), S, U)
        /\ f.delta # <<>> => GoesOn(n0, ApplyVisible(collected, f.delta, FALSE, FALSE), S, U)
    BY <1>1, <1>2, ApplyVisibleFollows
  <1>6. QED  BY <1>2, <1>3, <1>5

(* A frame of the message tool. *)
LEMMA MessageToolFollows ==
  ASSUME NEW n0, NEW S, NEW U, NEW r, GoesOn(n0, r, S, U), S \subseteq Chunks,
         NEW f \in MessageToolFrame, FrameText(f) \subseteq Seq(S)
  PROVE  GoesOn(n0, MessageTool(r, f), S, U)
  <1> DEFINE e == [type |-> "tool.status", name |-> "message",
                   phase |-> f.phase, input |-> FALSE]
             card == Push(r, e)
             visible == MessageToolText(f.args)
             n == [card.nz EXCEPT !.hasVisibleToolText = TRUE]
             marked == [card EXCEPT !.nz.hasVisibleToolText = TRUE]
  <1>1. /\ f.phase \in {"start", "result"} /\ f.args \in ToolArgs
        /\ f.args.text \in Seq(S)
    BY DEF MessageToolFrame, FrameText
  <1>2. visible \in Said \cap Seq(S)
    <2>1. f.args.text \in Said /\ <<>> \in Said /\ <<>> \in Seq(S)
      BY <1>1 DEF ToolArgs, Said
    <2>2. QED  BY <1>1, <2>1 DEF MessageToolText
  <1>3. e \in Plain(S, U)
    BY <1>1 DEF Plain
  <1>4. HIDE DEF e
  <1>5. GoesOn(n0, card, S, U) /\ card.nz = r.nz
    BY <1>3, PushGoesOn
  <1>6. IsResult(card) /\ card.nz \in Normalizer
    BY <1>5 DEF GoesOn, Kept
  <1>7. HIDE DEF card
  <1>8. /\ n \in Normalizer /\ n.finalized = card.nz.finalized
        /\ n.deadlines = card.nz.deadlines
        /\ n.text = card.nz.text /\ n.pendingAckText = card.nz.pendingAckText
        /\ n.ownRunIds = card.nz.ownRunIds
        /\ n.recoveryAttempted = card.nz.recoveryAttempted
    BY <1>6 DEF Normalizer
  <1>9. marked = [card EXCEPT !.nz = n]
    BY <1>6 DEF IsResult
  <1>10. HIDE DEF n
  <1>11. GoesOn(n0, marked, S, U)
    BY <1>5, <1>8, <1>9, NoteGoesOn
  <1>12. MessageTool(r, f) =
           IF f.phase = "start" /\ visible # <<>>
             THEN ApplyVisible(marked, visible, TRUE, FALSE) ELSE card
    BY DEF MessageTool, card, e
  <1>13. HIDE DEF marked, visible
  <1>14. visible # <<>> => GoesOn(n0, ApplyVisible(marked, visible, TRUE, FALSE), S, U)
    BY <1>2, <1>11, ApplyVisibleFollows
  <1>15. QED  BY <1>5, <1>12, <1>14

(* A frame of another tool. *)
LEMMA OtherToolFollows ==
  ASSUME NEW n0, NEW S, NEW U, NEW r, GoesOn(n0, r, S, U), NEW f \in OtherToolFrame
  PROVE  GoesOn(n0, OtherTool(r, f), S, U)
  <1> DEFINE started == [r.nz EXCEPT !.toolArgs = @ \cup {f.call}]
             ended == [r.nz EXCEPT !.toolArgs = @ \ {f.call}]
             e == [type |-> "tool.status", name |-> "other", phase |-> "completed",
                   input |-> f.call \in r.nz.toolArgs]
  <1>1. r.nz \in Normalizer /\ IsResult(r) /\ f.call \in ToolCalls
    BY DEF GoesOn, Kept, OtherToolFrame
  <1>2. /\ started \in Normalizer /\ started.finalized = r.nz.finalized
        /\ started.deadlines = r.nz.deadlines
        /\ started.text = r.nz.text /\ started.pendingAckText = r.nz.pendingAckText
        /\ started.ownRunIds = r.nz.ownRunIds
        /\ started.recoveryAttempted = r.nz.recoveryAttempted
    BY <1>1 DEF Normalizer
  <1>3. /\ ended \in Normalizer /\ ended.finalized = r.nz.finalized
        /\ ended.deadlines = r.nz.deadlines
        /\ ended.text = r.nz.text /\ ended.pendingAckText = r.nz.pendingAckText
        /\ ended.ownRunIds = r.nz.ownRunIds
        /\ ended.recoveryAttempted = r.nz.recoveryAttempted
    BY <1>1 DEF Normalizer
  <1>4. e \in Plain(S, U)
    BY DEF Plain
  <1>5. OtherTool(r, f) = IF f.phase = "start" THEN [r EXCEPT !.nz = started]
                          ELSE Push([r EXCEPT !.nz = ended], e)
    BY <1>1 DEF OtherTool, IsResult
  <1>6. HIDE DEF started, ended, e
  <1>7. GoesOn(n0, [r EXCEPT !.nz = started], S, U) /\ GoesOn(n0, [r EXCEPT !.nz = ended], S, U)
    BY <1>2, <1>3, NoteGoesOn
  <1>8. GoesOn(n0, Push([r EXCEPT !.nz = ended], e), S, U)
    BY <1>4, <1>7, PushGoesOn
  <1>9. QED  BY <1>5, <1>7, <1>8

(* A tool frame, then the media of its result. *)
LEMMA HandleToolFollows ==
  ASSUME NEW n0, NEW S, NEW U, NEW r, GoesOn(n0, r, S, U), S \subseteq Chunks,
         NEW f \in MessageToolFrame \cup OtherToolFrame, FrameText(f) \subseteq Seq(S)
  PROVE  GoesOn(n0, HandleTool(r, f), S, U)
  <1>1. f.result \in SUBSET MediaPaths
    BY DEF MessageToolFrame, OtherToolFrame
  <1>2. CASE f \in MessageToolFrame
    <2>1. f.name = "message"
      BY <1>2 DEF MessageToolFrame
    <2>2. QED  BY <1>1, <1>2, <2>1, MessageToolFollows, CollectMediaGoesOn DEF HandleTool
  <1>3. CASE f \in OtherToolFrame
    <2>1. f.name = "other"
      BY <1>3 DEF OtherToolFrame
    <2>2. QED  BY <1>1, <1>3, <2>1, OtherToolFollows, CollectMediaGoesOn DEF HandleTool
  <1>4. QED  BY <1>2, <1>3

(* ArmRecv arms the silence budget of an open turn, and nothing else. *)
LEMMA ArmRecvKept ==
  ASSUME NEW n0, NEW S, CleanedIn(S), NEW n \in Normalizer,
         n.text \in Seq(S), n.pendingAckText \in Seq(S),
         n.ownRunIds = n0.ownRunIds, n.recoveryAttempted = n0.recoveryAttempted
  PROVE  Kept(n0, ArmRecv(n), S) /\ ArmRecv(n).finalized = n.finalized
  <1>1. CASE n.finalized
    BY <1>1 DEF ArmRecv, Kept
  <1>2. CASE ~n.finalized
    <2> DEFINE b == IF n.compactionPending THEN COMPACTION_RECV_TIMEOUT
                                           ELSE BASE_RECV_TIMEOUT
               m == Arm(n, "recv", b)
    <2>1. b \in Nat /\ "recv" \in Waits
      BY NormalizerAssumption DEF Waits
    <2>2. ArmRecv(n) = m
      BY <1>2 DEF ArmRecv
    <2>3. HIDE DEF b
    <2>4. /\ m \in Normalizer /\ m.finalized = n.finalized
          /\ m.deadlines["recv"] = b
          /\ m.text = n.text /\ m.pendingAckText = n.pendingAckText
          /\ m.ownRunIds = n.ownRunIds
          /\ m.recoveryAttempted = n.recoveryAttempted
      BY <2>1 DEF Arm, Normalizer
    <2>5. b # Off
      BY <2>1 DEF Off
    <2>6. QED  BY <2>2, <2>4, <2>5 DEF Kept, Armed
  <1>3. QED  BY <1>1, <1>2

(* A compaction reset forgets the texts. *)
LEMMA ResetKept ==
  ASSUME NEW n0, NEW S, NEW n, Kept(n0, n, S)
  PROVE  Kept(n0, ResetForCompaction(n), S) /\ ResetForCompaction(n).finalized = n.finalized
  <1> DEFINE left == [n.deadlines EXCEPT !["empty_final"] = Off, !["private_ack"] = Off,
                                         !["lifecycle_end"] = Off]
             m == [n EXCEPT !.compactionPending = TRUE, !.text = <<>>,
                            !.hasSnapshot = FALSE, !.hasVisibleToolText = FALSE,
                            !.pendingAckText = <<>>, !.mediaPaths = {},
                            !.lastDedupKey = {}, !.deadlines = left]
  <1>1. n \in Normalizer
    BY DEF Kept
  <1>2. left \in [Waits -> Nat \cup {Off}]
    BY <1>1 DEF Normalizer, Waits
  <1>3. <<>> \in Text /\ <<>> \in Seq(S)
    BY DEF Text
  <1>4. ResetForCompaction(n) = ArmRecv(m)
    BY <1>1 DEF ResetForCompaction, Normalizer
  <1>5. HIDE DEF left
  <1>6. /\ m \in Normalizer /\ m.finalized = n.finalized
        /\ m.text = <<>> /\ m.pendingAckText = <<>>
        /\ m.ownRunIds = n.ownRunIds /\ m.recoveryAttempted = n.recoveryAttempted
    BY <1>1, <1>2, <1>3 DEF Normalizer
  <1>7. HIDE DEF m
  <1>8. /\ n.ownRunIds = n0.ownRunIds /\ n.recoveryAttempted = n0.recoveryAttempted
        /\ CleanedIn(S)
    BY DEF Kept
  <1>9. Kept(n0, ArmRecv(m), S) /\ ArmRecv(m).finalized = m.finalized
    BY <1>3, <1>6, <1>8, ArmRecvKept
  <1>10. QED  BY <1>4, <1>6, <1>9

(* So does the start of a run, which may re-arm the budget. *)
LEMMA RestartKept ==
  ASSUME NEW n0, NEW S, NEW n, Kept(n0, n, S), NEW restarted,
         restarted = IF n.compactionPending
                       THEN ArmRecv([n EXCEPT !.compactionPending = FALSE]) ELSE n
  PROVE  /\ Kept(n0, ClearWait(restarted, "lifecycle_end"), S)
         /\ ClearWait(restarted, "lifecycle_end").finalized = n.finalized
  <1> DEFINE m == [n EXCEPT !.compactionPending = FALSE]
             c == ClearWait(restarted, "lifecycle_end")
  <1>1. n \in Normalizer
    BY DEF Kept
  <1>2. /\ m \in Normalizer /\ m.finalized = n.finalized
        /\ m.text = n.text /\ m.pendingAckText = n.pendingAckText
        /\ m.ownRunIds = n.ownRunIds /\ m.recoveryAttempted = n.recoveryAttempted
    BY <1>1 DEF Normalizer
  <1>3. restarted = IF n.compactionPending THEN ArmRecv(m) ELSE n
    OBVIOUS
  <1>4. HIDE DEF m
  <1>5. Kept(n0, ArmRecv(m), S) /\ ArmRecv(m).finalized = n.finalized
    BY <1>2, ArmRecvKept DEF Kept
  <1>6. Kept(n0, restarted, S) /\ restarted.finalized = n.finalized
    BY <1>3, <1>5
  <1>7. restarted \in Normalizer
    BY <1>6 DEF Kept
  <1>8. /\ c \in Normalizer /\ c.finalized = restarted.finalized
        /\ c.deadlines["recv"] = restarted.deadlines["recv"]
        /\ c.text = restarted.text /\ c.pendingAckText = restarted.pendingAckText
        /\ c.ownRunIds = restarted.ownRunIds
        /\ c.recoveryAttempted = restarted.recoveryAttempted
    BY <1>7 DEF ClearWait, Normalizer, Waits
  <1>9. HIDE DEF c
  <1>10. Kept(n0, c, S)
    BY ZenonT(30), <1>6, <1>8, FieldKept DEF Kept
  <1>11. QED  BY <1>6, <1>8, <1>10 DEF c

(* What the run manager gets from a call: a batch that leaves the turn as it  *)
(* is, one that closes it, which holds no report, or a status.                *)
Batches(n0, r, S, U) ==
  GoesOn(n0, r, S, U) \/ Ends(n0, r, S, {}) \/ Tells(n0, r, S)

(* A batch without reports is one about any runs. *)
LEMMA FollowsBatches ==
  ASSUME NEW n0, NEW S, NEW U, NEW r, Follows(n0, r, S, {})
  PROVE  Batches(n0, r, S, U)
  <1>1. Plain(S, {}) \subseteq Plain(S, U)
    BY DEF Plain
  <1>2. \A w \in Seq(Plain(S, {})) : w \in Seq(Plain(S, U))
    BY <1>1
  <1>3. QED  BY <1>2 DEF Follows, Batches, GoesOn

(* A status told of a changed object. *)
LEMMA StatusTells ==
  ASSUME NEW n0, NEW S, NEW n, Kept(n0, n, S), n.finalized = n0.finalized,
         NEW s \in OpenStatus, NEW r, r = [nz |-> n, ev |-> <<s>>]
  PROVE  Tells(n0, r, S)
  BY DEF Tells, IsResult

(* The one event of a batch, with a changed object. *)
LEMMA OneEvent ==
  ASSUME NEW n0, NEW n, NEW e
  PROVE  Push([Result(n0) EXCEPT !.nz = n], e) = [nz |-> n, ev |-> <<e>>]
  <1>1. [Result(n0) EXCEPT !.nz = n] = [nz |-> n, ev |-> <<>>]
    BY DEF Result
  <1>2. Append(<<>>, e) = <<e>>
    OBVIOUS
  <1>3. Push([nz |-> n, ev |-> <<>>], e) = [nz |-> n, ev |-> Append(<<>>, e)]
    BY DEF Push
  <1>4. QED  BY <1>1, <1>2, <1>3

(* A lifecycle frame. *)
LEMMA HandleLifecycleBatches ==
  ASSUME NEW n0, NEW S, NEW U, Kept(n0, n0, S), NEW f \in LifecycleFrame
  PROVE  Batches(n0, HandleLifecycle(Result(n0), f), S, U)
  <1> DEFINE r == Result(n0)
  <1>1. GoesOn(n0, r, S, U) /\ r.nz = n0 /\ r.ev = <<>> /\ r = [nz |-> n0, ev |-> <<>>]
    BY DEF Result, GoesOn, IsResult
  <1>2. f.phase \in {"start", "end", "abandoned", "error"}
    BY DEF LifecycleFrame
  <1>3. CASE f.phase = "error"
    <2>1. HandleLifecycle(r, f) = Finalize(r, "error")
      BY <1>3 DEF HandleLifecycle
    <2>2. GoesOn(n0, r, S, {})
      BY DEF Result, GoesOn, IsResult
    <2>3. QED  BY <2>1, <2>2, FinalizeFollows, FollowsBatches
  <1>4. CASE f.phase = "abandoned"
    <2> DEFINE n == ResetForCompaction(n0)
               e == [type |-> "run.status", status |-> "compacting"]
    <2>1. HandleLifecycle(r, f) = [nz |-> n, ev |-> <<e>>]
      <3>1. HandleLifecycle(r, f) = Push([r EXCEPT !.nz = n], e)
        BY <1>4 DEF HandleLifecycle, Result
      <3>2. HIDE DEF n, e
      <3>3. QED  BY <3>1, OneEvent
    <2>2. e \in OpenStatus
      BY DEF OpenStatus
    <2>3. HIDE DEF n, e, r
    <2>4. Kept(n0, n, S) /\ n.finalized = n0.finalized
      BY ResetKept DEF n
    <2>5. QED  BY <2>1, <2>2, <2>4, StatusTells DEF Batches, r
  <1>5. CASE f.phase = "end"
    <2> DEFINE n == Arm(n0, "lifecycle_end", LIFECYCLE_END_GRACE)
               e == [type |-> "run.status", status |-> "working"]
    <2>1. HandleLifecycle(r, f) = [nz |-> n, ev |-> <<e>>]
      <3>1. HandleLifecycle(r, f) = Push([r EXCEPT !.nz = n], e)
        BY <1>5 DEF HandleLifecycle, Result
      <3>2. HIDE DEF n, e
      <3>3. QED  BY <3>1, OneEvent
    <2>2. e \in OpenStatus
      BY DEF OpenStatus
    <2>3. LIFECYCLE_END_GRACE \in Nat /\ "lifecycle_end" \in Waits \ {"recv"}
      BY NormalizerAssumption DEF Waits
    <2>4. Kept(n0, n, S) /\ n.finalized = n0.finalized
      <3>1. n0 \in Normalizer
        BY DEF Kept
      <3>2. /\ n \in Normalizer /\ n.finalized = n0.finalized
            /\ n.deadlines["recv"] = n0.deadlines["recv"]
            /\ n.text = n0.text /\ n.pendingAckText = n0.pendingAckText
            /\ n.ownRunIds = n0.ownRunIds
            /\ n.recoveryAttempted = n0.recoveryAttempted
        BY <2>3, <3>1 DEF Arm, Normalizer, Waits
      <3>3. HIDE DEF n
      <3>4. n.text \in Seq(S) /\ n.pendingAckText \in Seq(S)
        BY <3>2 DEF Kept
      <3>5. QED  BY <3>2, <3>4, FieldKept
    <2>5. HIDE DEF n, e, r
    <2>6. QED  BY <2>1, <2>2, <2>4, StatusTells DEF Batches, r
  <1>6. CASE f.phase = "start"
    <2> DEFINE restarted == IF n0.compactionPending
                              THEN ArmRecv([n0 EXCEPT !.compactionPending = FALSE])
                              ELSE n0
               n == ClearWait(restarted, "lifecycle_end")
               e == [type |-> "run.status", status |-> "running"]
    <2>1. HandleLifecycle(r, f) = [nz |-> n, ev |-> <<e>>]
      <3>1. HandleLifecycle(r, f) = Push([r EXCEPT !.nz = n], e)
        BY <1>6 DEF HandleLifecycle, Result
      <3>2. HIDE DEF n, e
      <3>3. QED  BY <3>1, OneEvent
    <2>2. e \in OpenStatus
      BY DEF OpenStatus
    <2>3. HIDE DEF e, r
    <2>4. Kept(n0, n, S) /\ n.finalized = n0.finalized
      BY RestartKept
    <2>5. HIDE DEF n
    <2>6. QED  BY <2>1, <2>2, <2>4, StatusTells DEF Batches, r
  <1>7. QED  BY <1>2, <1>3, <1>4, <1>5, <1>6

(* Every admitted frame gives a batch about its own texts and run. *)
LEMMA DispatchBatches ==
  ASSUME NEW S, S \subseteq Chunks, NEW U, NEW n0, Kept(n0, n0, S),
         NEW f \in Frame, f.run \in U, FrameText(f) \subseteq Seq(S),
         f.stream # "unattributable"
  PROVE  Batches(n0, Dispatch(Result(n0), f), S, U)
  <1> DEFINE r == Result(n0)
  <1>1. /\ GoesOn(n0, r, S, U) /\ GoesOn(n0, r, S, {})
        /\ r.nz = n0 /\ IsResult(r)
    BY DEF Result, GoesOn, IsResult
  <1>2. HIDE DEF r
  <1>3. CASE f.stream = "chat"
    BY <1>1, <1>3, FrameStreams, HandleChatFollows, FollowsBatches DEF Dispatch, r
  <1>4. CASE f.stream = "assistant"
    BY <1>1, <1>4, FrameStreams, HandleAssistantFollows DEF Dispatch, Batches, r
  <1>5. CASE f.stream = "tool"
    BY <1>1, <1>5, FrameStreams, HandleToolFollows DEF Dispatch, Batches, r
  <1>6. CASE f.stream = "lifecycle"
    BY <1>6, FrameStreams, HandleLifecycleBatches DEF Dispatch, r
  <1>7. CASE f.stream = "item"
    <2> DEFINE n == [r.nz EXCEPT !.sawMessageToolItem = @ \/ f.messageTool]
    <2>1. r.nz \in Normalizer
      BY <1>1 DEF GoesOn, Kept
    <2>2. /\ n \in Normalizer /\ n.finalized = r.nz.finalized
          /\ n.deadlines = r.nz.deadlines
          /\ n.text = r.nz.text /\ n.pendingAckText = r.nz.pendingAckText
          /\ n.ownRunIds = r.nz.ownRunIds
          /\ n.recoveryAttempted = r.nz.recoveryAttempted
      BY <2>1 DEF Normalizer
    <2>3. Dispatch(r, f) = [r EXCEPT !.nz = n]
      BY <1>1, <1>7 DEF Dispatch, IsResult
    <2>4. HIDE DEF n
    <2>5. GoesOn(n0, [r EXCEPT !.nz = n], S, U)
      BY <1>1, <2>2, NoteGoesOn
    <2>6. QED  BY <2>3, <2>5 DEF Batches, r
  <1>8. CASE f.stream = "provenance"
    <2> DEFINE e == [type |-> "provenance", run |-> f.run]
    <2>1. e \in Plain(S, U)
      BY DEF Plain
    <2>2. Dispatch(r, f) = IF f.valid THEN Push(r, e) ELSE r
      BY <1>8 DEF Dispatch
    <2>3. HIDE DEF e
    <2>4. GoesOn(n0, Push(r, e), S, U)
      BY <1>1, <2>1, PushGoesOn
    <2>5. QED  BY <1>1, <2>2, <2>4 DEF Batches, r
  <1>9. QED  BY <1>3, <1>4, <1>5, <1>6, <1>7, <1>8, FrameStreams DEF r

-----------------------------------------------------------------------------
(* What the methods of the run manager give *)

(* A call that does nothing goes on. *)
LEMMA ResultGoesOn ==
  ASSUME NEW n0, NEW S, NEW U, NEW n, Kept(n0, n, S), n.finalized = n0.finalized
  PROVE  GoesOn(n0, Result(n), S, U) /\ Result(n).nz = n
  BY DEF Result, GoesOn, IsResult

(* A frame fed to an object: a foreign run that a grace admits becomes its own. *)
LEMMA FeedBatches ==
  ASSUME NEW S, S \subseteq Chunks, NEW U, NEW n, Kept(n, n, S), NEW f \in Frame,
         Admits(n, f) => f.run \in U /\ FrameText(f) \subseteq Seq(S)
  PROVE  \E m : /\ m.finalized = n.finalized
                /\ m.recoveryAttempted = n.recoveryAttempted
                /\ m.ownRunIds = n.ownRunIds \/ (ForeignRun(n, f) /\ Admits(n, f))
                /\ Batches(m, Feed(n, f), S, U)
  <1>1. CASE ~Admits(n, f)
    <2>1. Feed(n, f) = Result(n)
      BY <1>1 DEF Feed
    <2>2. GoesOn(n, Result(n), S, U)
      BY ResultGoesOn
    <2>3. QED  BY <2>1, <2>2 DEF Batches
  <1>2. CASE Admits(n, f)
    <2> DEFINE m == IF ForeignRun(n, f) THEN [n EXCEPT !.ownRunIds = @ \cup {f.run}] ELSE n
               armed == ArmRecv(m)
    <2>1. n \in Normalizer /\ n.text \in Seq(S) /\ n.pendingAckText \in Seq(S)
      BY DEF Kept
    <2>2. ForeignRun(n, f) => f.run \in RunIds
      BY FrameStreams DEF ForeignRun
    <2>3. /\ m \in Normalizer /\ m.finalized = n.finalized
          /\ m.text = n.text /\ m.pendingAckText = n.pendingAckText
          /\ m.recoveryAttempted = n.recoveryAttempted
          /\ ~ForeignRun(n, f) => m.ownRunIds = n.ownRunIds
      BY <2>1, <2>2 DEF Normalizer
    <2>4. Feed(n, f) = Dispatch(Result(armed), f)
      BY <1>2 DEF Feed
    <2>5. HIDE DEF m
    <2>6. /\ Kept(m, armed, S) /\ armed.finalized = m.finalized
      <3>1. CleanedIn(S)
        BY DEF Kept
      <3>2. QED  BY <2>1, <2>3, <3>1, ArmRecvKept
    <2>7. /\ Kept(armed, armed, S)
          /\ armed.ownRunIds = m.ownRunIds
          /\ armed.recoveryAttempted = m.recoveryAttempted
      BY <2>6 DEF Kept
    <2>8. HIDE DEF armed
    <2>9. f.stream # "unattributable" /\ f.run \in U /\ FrameText(f) \subseteq Seq(S)
      BY <1>2 DEF Admits
    <2>10. Batches(armed, Dispatch(Result(armed), f), S, U)
      BY <2>7, <2>9, DispatchBatches
    <2>11. armed.ownRunIds = n.ownRunIds \/ (ForeignRun(n, f) /\ Admits(n, f))
      BY <1>2, <2>3, <2>7
    <2>12. QED  BY <2>3, <2>4, <2>6, <2>7, <2>10, <2>11
  <1>3. QED  BY <1>1, <1>2

(* A timer of an object. *)
LEMMA TickBatches ==
  ASSUME NEW S, NEW U, NEW n, Kept(n, n, S)
  PROVE  Follows(n, Tick(n), S, U)
  <1> DEFINE answered == [n EXCEPT !.text = AnswerText(n)]
             quiet == [n EXCEPT !.deadlines = NoDeadlines]
  <1>1. n \in Normalizer /\ n.text \in Seq(S) /\ n.pendingAckText \in Seq(S)
    BY DEF Kept
  <1>2. GoesOn(n, Result(n), S, U)
    BY ResultGoesOn
  <1>3. CASE n.finalized
    <2>1. /\ quiet \in Normalizer /\ quiet.finalized = n.finalized
          /\ quiet.text = n.text /\ quiet.pendingAckText = n.pendingAckText
          /\ quiet.ownRunIds = n.ownRunIds
          /\ quiet.recoveryAttempted = n.recoveryAttempted
      BY <1>1 DEF Normalizer, NoDeadlines, Off
    <2>2. Tick(n) = Result(quiet)
      BY <1>3 DEF Tick
    <2>3. HIDE DEF quiet
    <2>4. Kept(n, quiet, S)
      BY <1>1, <1>3, <2>1 DEF Kept
    <2>5. GoesOn(n, Result(quiet), S, U)
      BY <2>1, <2>4, ResultGoesOn
    <2>6. QED  BY <2>2, <2>5 DEF Follows
  <1>4. CASE ~n.finalized
    <2>1. AnswerText(n) \in Text /\ AnswerText(n) \in Seq(S)
      BY <1>1, AnswerTextTyped DEF AnswerText
    <2>2. /\ answered \in Normalizer /\ answered.finalized = n.finalized
          /\ answered.deadlines = n.deadlines
          /\ answered.text = AnswerText(n)
          /\ answered.pendingAckText = n.pendingAckText
          /\ answered.ownRunIds = n.ownRunIds
          /\ answered.recoveryAttempted = n.recoveryAttempted
      BY <1>1, <2>1 DEF Normalizer
    <2>3. Tick(n) = IF Expired(n, "private_ack") THEN Finalize(Result(answered), "final")
                    ELSE IF Due(n) THEN Finalize(Result(n), "final")
                    ELSE Result(n)
      BY <1>4 DEF Tick
    <2>4. HIDE DEF answered
    <2>5. Kept(n, answered, S)
      BY <1>1, <2>1, <2>2, FieldKept
    <2>6. GoesOn(n, Result(answered), S, U)
      BY <2>2, <2>5, ResultGoesOn
    <2>7. /\ Follows(n, Finalize(Result(answered), "final"), S, U)
          /\ Follows(n, Finalize(Result(n), "final"), S, U)
      BY <1>2, <2>6, FinalizeFollows
    <2>8. QED  BY <1>2, <2>3, <2>7 DEF Follows
  <1>5. QED  BY <1>3, <1>4

(* The close of a turn. *)
LEMMA EndTurnBatches ==
  ASSUME NEW S, NEW U, NEW n, Kept(n, n, S)
  PROVE  Follows(n, EndTurn(n, "aborted"), S, U) /\ EndTurn(n, "aborted").nz.finalized
  <1>1. GoesOn(n, Result(n), S, U)
    BY ResultGoesOn
  <1>2. QED  BY <1>1, FinalizeFollows DEF EndTurn

(* The answer of the transcript. *)
LEMMA RecoverBatches ==
  ASSUME NEW S, S \subseteq Chunks, NEW U, NEW n, Kept(n, n, S), NEW said \in Said \cap Seq(S)
  PROVE  Follows(n, RecoverVisibleText(n, said), S, U)
  <1> DEFINE m == [n EXCEPT !.hasVisibleToolText = TRUE]
  <1>1. GoesOn(n, Result(n), S, U) /\ Result(n).nz = n
    BY ResultGoesOn
  <1>2. n \in Normalizer
    BY DEF Kept
  <1>3. /\ m \in Normalizer /\ m.finalized = n.finalized /\ m.deadlines = n.deadlines
        /\ m.text = n.text /\ m.pendingAckText = n.pendingAckText
        /\ m.ownRunIds = n.ownRunIds /\ m.recoveryAttempted = n.recoveryAttempted
    BY <1>2 DEF Normalizer
  <1>4. RecoverVisibleText(n, said) =
          IF n.finalized \/ said = <<>> THEN Result(n)
          ELSE ApplyVisible(Result(m), said, TRUE, TRUE)
    BY DEF RecoverVisibleText
  <1>5. HIDE DEF m
  <1>6. Kept(n, m, S)
    BY <1>3, FieldKept DEF Kept
  <1>7. GoesOn(n, Result(m), S, U)
    BY <1>3, <1>6, ResultGoesOn
  <1>8. said # <<>> => Follows(n, ApplyVisible(Result(m), said, TRUE, TRUE), S, U)
    BY <1>7, ApplyVisibleFollows
  <1>9. QED  BY <1>1, <1>4, <1>8 DEF Follows

(* A turn begins open, without a text, for the run its ack named, if any. *)
LEMMA BeginsKept ==
  ASSUME NEW n, NEW named \in RunIds \cup {NoRun}, NEW S, CleanedIn(S)
  PROVE  LET b == IF named = NoRun THEN BeginTurn(n)
                  ELSE NoteRunStarted(BeginTurn(n), named)
         IN /\ Kept(b, b, S) /\ ~b.finalized
            /\ b.ownRunIds = {named} \cap RunIds /\ b.recoveryAttempted = FALSE
  <1> DEFINE new == [NewNormalizer EXCEPT !.finalized = FALSE]
             begun == ArmRecv(new)
             owned == [begun EXCEPT !.ownRunIds = @ \cup {named}]
             b == ArmRecv(owned)
  <1>1. <<>> \in Text /\ <<>> \in Seq(S) /\ NoDeadlines \in [Waits -> Nat \cup {Off}]
    BY DEF Text, NoDeadlines
  <1>2. /\ new \in Normalizer /\ new.finalized = FALSE
        /\ new.text = <<>> /\ new.pendingAckText = <<>>
        /\ new.ownRunIds = {} /\ new.recoveryAttempted = FALSE
    BY <1>1 DEF Normalizer, NewNormalizer
  <1>3. HIDE DEF new
  <1>4. Kept(new, begun, S) /\ begun.finalized = FALSE
    BY <1>1, <1>2, ArmRecvKept, ZenonT(30)
  <1>5. /\ begun \in Normalizer /\ begun.ownRunIds = {}
        /\ begun.text \in Seq(S) /\ begun.pendingAckText \in Seq(S)
        /\ begun.recoveryAttempted = FALSE
    BY <1>2, <1>4 DEF Kept
  <1>6. BeginTurn(n) = begun
    BY DEF BeginTurn, new
  <1>7. Kept(begun, begun, S)
    BY <1>2, <1>4 DEF Kept
  <1>8. HIDE DEF begun
  <1>9. CASE named = NoRun
    BY <1>4, <1>5, <1>6, <1>7, <1>9, NormalizerAssumption
  <1>10. CASE named \in RunIds
    <2>1. /\ owned \in Normalizer /\ owned.finalized = FALSE
          /\ owned.text \in Seq(S) /\ owned.pendingAckText \in Seq(S)
          /\ owned.ownRunIds = {named} /\ owned.recoveryAttempted = FALSE
      BY <1>4, <1>5, <1>10 DEF Normalizer
    <2>2. NoteRunStarted(BeginTurn(n), named) = b
      BY <1>6 DEF NoteRunStarted
    <2>3. HIDE DEF owned
    <2>4. Kept(owned, b, S) /\ b.finalized = FALSE
      BY <2>1, ArmRecvKept
    <2>5. Kept(b, b, S) /\ b.ownRunIds = {named} /\ b.recoveryAttempted = FALSE
      BY <2>1, <2>4 DEF Kept
    <2>6. HIDE DEF b
    <2>7. named # NoRun /\ {named} \cap RunIds = {named}
      BY <1>10, NormalizerAssumption
    <2>8. QED  BY <2>2, <2>4, <2>5, <2>7
  <1>11. QED  BY <1>9, <1>10

(* The attempt of a recovery is a note. *)
LEMMA MarkKept ==
  ASSUME NEW S, NEW n, Kept(n, n, S)
  PROVE  LET m == MarkRecoveryAttempted(n)
         IN /\ Kept(m, m, S) /\ m.finalized = n.finalized
            /\ m.ownRunIds = n.ownRunIds /\ m.recoveryAttempted = TRUE
  <1> DEFINE m == MarkRecoveryAttempted(n)
  <1>1. n \in Normalizer
    BY DEF Kept
  <1>2. /\ m \in Normalizer /\ m.finalized = n.finalized /\ m.deadlines = n.deadlines
        /\ m.text = n.text /\ m.pendingAckText = n.pendingAckText
        /\ m.ownRunIds = n.ownRunIds /\ m.recoveryAttempted = TRUE
    BY <1>1 DEF MarkRecoveryAttempted, Normalizer
  <1>3. HIDE DEF m
  <1>4. Kept(m, m, S)
    BY <1>2 DEF Kept, Armed
  <1>5. QED  BY <1>2, <1>4 DEF m

(* Time passing neither arms nor clears a wait. *)
LEMMA ElapseKept ==
  ASSUME NEW S, NEW n, Kept(n, n, S)
  PROVE  LET m == Elapse(n)
         IN /\ Kept(m, m, S) /\ m.finalized = n.finalized
            /\ m.ownRunIds = n.ownRunIds /\ m.recoveryAttempted = n.recoveryAttempted
  <1> DEFINE later == [w \in Waits |-> Less(n.deadlines[w])]
             m == [n EXCEPT !.deadlines = later]
  <1>1. n \in Normalizer /\ n.deadlines \in [Waits -> Nat \cup {Off}]
    BY DEF Kept, Normalizer
  <1>2. \A w \in Waits : /\ Less(n.deadlines[w]) \in Nat \cup {Off}
                         /\ Less(n.deadlines[w]) = Off <=> n.deadlines[w] = Off
    BY <1>1 DEF Less, Off
  <1>3. later \in [Waits -> Nat \cup {Off}] /\ (later["recv"] = Off <=> n.deadlines["recv"] = Off)
    BY <1>2 DEF Waits
  <1>4. Elapse(n) = m
    BY DEF Elapse
  <1>5. HIDE DEF later
  <1>6. /\ m \in Normalizer /\ m.finalized = n.finalized /\ m.deadlines = later
        /\ m.text = n.text /\ m.pendingAckText = n.pendingAckText
        /\ m.ownRunIds = n.ownRunIds /\ m.recoveryAttempted = n.recoveryAttempted
    BY <1>1, <1>3 DEF Normalizer
  <1>7. HIDE DEF m
  <1>8. Kept(m, m, S)
    BY <1>3, <1>6 DEF Kept, Armed
  <1>9. QED  BY <1>4, <1>6, <1>8
=============================================================================
