------------------------- MODULE TurnPipelineProofs -------------------------
(***************************************************************************)
(* Theorems about TurnPipeline, for any number of turns, any frames of their *)
(* runs and any order of the awaits.                                         *)
(*                                                                          *)
(* What a call of the normalizer gives is a batch (NormalizerLemmas): it goes *)
(* on, ends the turn, or tells a status.  The inductive invariant says where  *)
(* a batch can be by the time its writes are issued: PipeInv keeps the order  *)
(* of turns and tasks, and each further part carries one property.            *)
(*                                                                          *)
(* Every step is one of five kinds (StepKinds): it writes nothing (Rests),    *)
(* issues a batch (SomeApplies), has a write answered (Answered), begins a    *)
(* turn (BeginsTurn), or gets it its message or fails to (Starts).  A lemma   *)
(* named XRests, XApplies, XAnswered, XBegins or XStarted says that part X of *)
(* the invariant survives that kind.                                         *)
(***************************************************************************)
EXTENDS TurnPipeline, NormalizerLemmas, SequenceTheorems

(* What run k may say. *)
Own(k) == AckChunks \cup ({k} \cap Turns)

(* The run that a report names, if it does: any, or that of turn k.           *)
Runs == Turns \cup {NoRun}
RunsOf(k) == {k, NoRun}

(* The runs the normalizer owns in turn k: the one its ack named, if it did.  *)
OwnRuns(k) == IF ackRunId[k] = NoRun THEN {} ELSE {k}

(* The writes of a batch: its final, if it closes the turn, comes last, and    *)
(* such a batch reports nothing.                                              *)
Says(w, S, U, closing) ==
  /\ w \in Seq(Plain(S, U) \cup ClosingFinal(S))
  /\ \A i \in 1 .. Len(w) : w[i].type = "message.final" <=> closing /\ i = Len(w)
  /\ closing => w # <<>> /\ \A i \in 1 .. Len(w) : w[i].type # "provenance"

JobSays(j, S, U) == Says(j.writes, S, U, j.status # "none")

JobRecord ==
  [message : {NoMessage} \cup Turns,
   writes : Seq(Plain(Chunks, Runs) \cup ClosingFinal(Chunks)),
   status : {"none"} \cup Terminal]

(* A final issued to message k, and not yet answered.                         *)
Issued(t, k) ==
  /\ jobs[t].status # "none" /\ Len(jobs[t].writes) = 1 /\ jobs[t].message = k

Closed(k) == messages[k].finals > 0 \/ \E t \in Tasks : Issued(t, k)

(* State and tasks.                                                           *)
Typed ==
  /\ TypeOK
  /\ Kept(nz, nz, Chunks)
  /\ jobs \in [Tasks -> JobRecord]
  /\ \A t \in Tasks : JobSays(jobs[t], Chunks, Runs)

(* The tasks: the loop awaits its own writes before it reads on, a flush ends *)
(* its send, a recovery follows the one fetch of its turn.                    *)
TasksInOrder ==
  /\ loop = "racing" => ~Busy(Loop)
  /\ \A k \in Turns : Busy(Flush(k)) => send[k] = "flushing"
  /\ \A k \in Turns :
       /\ jobs[Flush(k)].status = "none"
       /\ \A i \in 1 .. Len(jobs[Flush(k)].writes) :
            jobs[Flush(k)].writes[i].type = "provenance"
  /\ \A k \in Turns : Busy(Recovery(k)) => fetch[k] = "done"
  /\ \A k \in Turns : fetch[k] # "none" =>
       k <= seen.turn /\ (k = seen.turn => nz.recoveryAttempted)

(* The turns begin, and get their messages, in the order of their sends.      *)
TurnsInOrder ==
  /\ sink.messageId <= seen.turn
  /\ seen.turn = NoMessage => nz.finalized /\ ~sink.active
  /\ \A k \in Turns : send[k] # "idle" => \A j \in Turns : j < k => send[j] # "idle"
  /\ \A k \in Turns : ackRunId[k] \in RunsOf(k)
  /\ \A k \in Turns : send[k] \in {"idle", "sent"} => seen.turn < k
  /\ \A k \in Turns : send[k] = "starting" => sink.messageId < k /\ k <= seen.turn
  /\ \A k \in Turns : send[k] \in {"idle", "sent", "starting"} => messages[k].status = "none"

(* A message exists before anything is written to it.                         *)
MessagesInOrder ==
  /\ sink.messageId # NoMessage => messages[sink.messageId].status # "none"
  /\ \A t \in Tasks : Busy(t) =>
       /\ jobs[t].message # NoMessage
       /\ messages[jobs[t].message].status # "none"
       /\ jobs[t].message <= sink.messageId /\ sink.messageId # NoMessage
  /\ \A k \in Turns : messages[k].status = "none" => messages[k] = NewMessage
  /\ \A k \in Turns : messages[k].finals > 0 <=> messages[k].status \in Terminal
  /\ \A k \in Turns : Closed(k) /\ k = seen.turn => ~sink.active

PipeInv == Typed /\ TasksInOrder /\ TurnsInOrder /\ MessagesInOrder

(* A final that is still to be issued hits the turn of now, or a message whose *)
(* turn was crossed.                                                          *)
PendingInv ==
  /\ seen.crossed \subseteq seen.overlapped
  /\ seen.misplaced = {} /\ (\E t \in Tasks : FinalPending(t)) =>
       \A k \in Turns : (k = sink.messageId \/ send[k] = "starting") /\ k # seen.turn
                           => k \in seen.crossed

OnceInv ==
  seen.misplaced = {} =>
    \A k \in Turns \ seen.crossed :
      /\ messages[k].finals <= 1
      /\ messages[k].finals = 1 => \A t \in Tasks : ~Issued(t, k)
      /\ \A t, u \in Tasks : Issued(t, k) /\ Issued(u, k) => t = u

DrivenInv ==
  \A k \in Turns \ (seen.misplaced \cup seen.overlapped \cup seen.failed) :
    /\ send[k] = "starting" =>
         /\ k = seen.turn /\ sink.active /\ ~nz.finalized
         /\ \A t \in Tasks : ~FinalPending(t)
    /\ messages[k].status = "streaming" =>
         \/ \E t \in Tasks : Issued(t, k)
         \/ /\ k = seen.turn /\ sink.messageId = k /\ sink.active
            /\ ~nz.finalized \/ \E t \in Tasks : FinalPending(t) /\ jobs[t].message = k

(* A run's reports: in the object's batches only its own, unless a frame of    *)
(* another strayed into the turn.                                             *)
ReportsInv ==
  /\ seen.turn \in Turns \ seen.strayed => nz.ownRunIds = OwnRuns(seen.turn)
  /\ seen.misplaced = {} =>
       /\ \A t \in Tasks : jobs[t].message \notin seen.strayed
                             => JobSays(jobs[t], Chunks, RunsOf(jobs[t].message))
       /\ \A k \in Turns \ seen.strayed : messages[k].reports \subseteq RunsOf(k)

Unmixed == seen.misplaced = {} /\ seen.overlapped = {} /\ ~seen.stale
TurnUnmixed == Unmixed /\ seen.turn \notin seen.strayed

TextInv ==
  Unmixed =>
    /\ seen.turn \notin seen.strayed => Kept(nz, nz, Own(seen.turn))
    /\ \A k \in Turns : fetch[k] = "asked" => k = seen.turn
    /\ \A t \in Tasks :
         /\ FinalPending(t) => jobs[t].message = seen.turn
         /\ Busy(t) /\ jobs[t].message \notin seen.strayed
              => JobSays(jobs[t], Own(jobs[t].message), Runs)
    /\ \A k \in Turns \ seen.strayed : messages[k].text \in Seq(Own(k))

(* Without a recovery only the loop ends a message, so it has nothing left to  *)
(* write to one that has ended.                                               *)
EndedInv ==
  seen.misplaced = {} /\ (\A k \in Turns : fetch[k] = "none") /\ Busy(Loop) =>
    /\ messages[jobs[Loop].message].status \notin Terminal
    /\ FinalPending(Loop) => messages[sink.messageId].status \notin Terminal

-----------------------------------------------------------------------------
(* Writes *)

(* An event that leaves the turn as it is, or closes it, by its type.         *)
LEMMA EventKinds ==
  ASSUME NEW S, NEW U
  PROVE  /\ \A e \in Plain(S, U) : e.type \notin {"message.final", "run.status"}
         /\ \A e \in ClosingFinal(S) : e.type = "message.final" /\ e.text \in Seq(S)
         /\ \A e \in Plain(S, U) :
              e.type \in {"message.delta", "message.snapshot"} => e.text \in Seq(S)
         /\ \A e \in Plain(S, U) : e.type = "provenance" => e.run \in U
         /\ \A e \in Plain(S, {}) : e.type # "provenance"
         /\ \A e \in OpenStatus \cup ClosingStatus : e.type = "run.status"
  BY DEF Plain, ClosingFinal, OpenStatus, ClosingStatus

(* No write says nothing.                                                     *)
LEMMA NothingSaid ==
  ASSUME NEW S, NEW U
  PROVE  Says(<<>>, S, U, FALSE)
  BY DEF Says

(* What is left of a batch after its first write.                             *)
LEMMA RestSaid ==
  ASSUME NEW S, NEW U, NEW c \in BOOLEAN, NEW w, Says(w, S, U, c), Len(w) > 1
  PROVE  /\ Says(Tail(w), S, U, c)
         /\ Len(Tail(w)) = Len(w) - 1
         /\ Head(w) \in Plain(S, U)
  <1> DEFINE E == Plain(S, U) \cup ClosingFinal(S)
  <1>1. w \in Seq(E) /\ Len(w) \in Nat /\ Len(w) > 1
    BY DEF Says
  <1>2. HIDE DEF E
  <1>3. /\ Tail(w) \in Seq(E)
        /\ Len(Tail(w)) = Len(w) - 1
        /\ \A i \in 1 .. Len(w) - 1 : Tail(w)[i] = w[i + 1]
        /\ Head(w) = w[1] /\ w[1] \in E
    BY <1>1
  <1>4. \A i \in 1 .. Len(w) - 1 : i + 1 \in 1 .. Len(w) /\ (i + 1 = Len(w) <=> i = Len(w) - 1)
    BY <1>1
  <1>5. Says(Tail(w), S, U, c)
    <2>1. \A i \in 1 .. Len(w) - 1 : Tail(w)[i].type = "message.final"
                                        <=> c /\ i = Len(w) - 1
      BY <1>3, <1>4 DEF Says
    <2>2. c => \A i \in 1 .. Len(w) - 1 : Tail(w)[i].type # "provenance"
      BY <1>3, <1>4 DEF Says
    <2>3. Tail(w) # <<>>
      <3>1. Len(Tail(w)) # 0
        BY <1>1, <1>3
      <3>2. Len(<<>>) = 0
        OBVIOUS
      <3>3. QED  BY <3>1, <3>2
    <2>4. QED  BY <1>3, <2>1, <2>2, <2>3 DEF Says, E
  <1>6. \A n \in Nat : n > 1 => 1 \in 1 .. n /\ 1 # n
    OBVIOUS
  <1>7. w[1].type # "message.final"
    BY <1>1, <1>6 DEF Says
  <1>8. Head(w) \in Plain(S, U)
    BY <1>3, <1>7, EventKinds DEF E
  <1>9. QED  BY <1>3, <1>5, <1>8

(* The last write of a batch is its final, if it has one.                     *)
LEMMA LastSaid ==
  ASSUME NEW S, NEW U, NEW c \in BOOLEAN, NEW w, Says(w, S, U, c), Len(w) = 1
  PROVE  /\ Tail(w) = <<>> /\ Head(w) = w[1]
         /\ c => Head(w) \in ClosingFinal(S)
         /\ ~c => Head(w) \in Plain(S, U)
  <1> DEFINE E == Plain(S, U) \cup ClosingFinal(S)
  <1>1. w \in Seq(E) /\ 1 \in 1 .. Len(w) /\ Len(w) = 1
    BY DEF Says
  <1>2. Head(w) = w[1] /\ w[1] \in E /\ Tail(w) = <<>>
    <2> HIDE DEF E
    <2>1. Head(w) = w[1] /\ w[1] \in E
      BY <1>1
    <2>2. Tail(w) \in Seq(E) /\ Len(Tail(w)) = 0
      BY <1>1
    <2>3. Tail(w) = <<>>
      BY <2>2, EmptySeq
    <2>4. QED  BY <2>1, <2>3
  <1>3. w[1].type = "message.final" <=> c
    BY <1>1 DEF Says
  <1>4. QED  BY <1>2, <1>3, EventKinds

(* What a batch becomes in the sink.                                          *)
LEMMA GoingOnSaid ==
  ASSUME NEW n0, NEW S, NEW U, NEW r, GoesOn(n0, r, S, U)
  PROVE  /\ Writes(r.ev) = r.ev /\ StatusOf(r.ev) = "none"
         /\ Says(Writes(r.ev), S, U, FALSE)
  <1>1. r.ev \in Seq(Plain(S, U))
    BY DEF GoesOn
  <1>2. \A i \in 1 .. Len(r.ev) :
          r.ev[i] \in Plain(S, U) /\ r.ev[i].type \notin {"message.final", "run.status"}
    BY <1>1, EventKinds
  <1>3. r.ev # <<>> => Len(r.ev) \in 1 .. Len(r.ev)
    BY <1>1
  <1>4. ~EndsInStatus(r.ev)
    BY <1>2, <1>3 DEF EndsInStatus
  <1>5. r.ev \in Seq(Plain(S, U) \cup ClosingFinal(S))
    BY <1>1
  <1>6. QED  BY <1>2, <1>4, <1>5 DEF Writes, StatusOf, Says

LEMMA TellingSaid ==
  ASSUME NEW n0, NEW S, NEW r, Tells(n0, r, S)
  PROVE  Writes(r.ev) = <<>> /\ StatusOf(r.ev) = "none"
  <1>1. PICK s \in OpenStatus : r.ev = <<s>>
    BY DEF Tells
  <1>2. EndsInStatus(r.ev) /\ Len(r.ev) = 1 /\ r.ev[Len(r.ev)] = s
    BY <1>1, EventKinds DEF EndsInStatus
  <1>3. s.status \in {"working", "running", "compacting"}
    BY DEF OpenStatus
  <1>4. DOMAIN TERMINAL_STATUS = {"final", "error", "aborted"}
    BY DEF TERMINAL_STATUS
  <1>5. s.status \notin DOMAIN TERMINAL_STATUS
    BY <1>3, <1>4
  <1>6. SubSeq(r.ev, 1, 0) = <<>>
    BY <1>1
  <1>7. QED  BY <1>2, <1>5, <1>6 DEF Writes, StatusOf

LEMMA EndingSaid ==
  ASSUME NEW n0, NEW S, NEW U, NEW r, Ends(n0, r, S, {})
  PROVE  /\ Writes(r.ev) # <<>> /\ StatusOf(r.ev) \in Terminal
         /\ Says(Writes(r.ev), S, U, TRUE)
  <1>1. PICK p \in Seq(Plain(S, {})), e \in ClosingFinal(S), s \in ClosingStatus :
          r.ev = p \o <<e, s>>
    BY DEF Ends
  <1> DEFINE w == p \o <<e>>
             E == Plain(S, U) \cup ClosingFinal(S)
  <1>2. Plain(S, {}) \subseteq Plain(S, U)
    BY DEF Plain
  <1>3. /\ Len(r.ev) = Len(p) + 2 /\ r.ev[Len(p) + 2] = s
        /\ r.ev[Len(p) + 1] = e
        /\ \A i \in 1 .. Len(p) : r.ev[i] = p[i]
        /\ Len(p) \in Nat /\ r.ev # <<>>
    BY <1>1
  <1>4. EndsInStatus(r.ev) /\ r.ev[Len(r.ev)] = s
    BY <1>3, EventKinds DEF EndsInStatus
  <1>5. p \in Seq(E) /\ e \in E
    BY <1>2 DEF E
  <1>6. HIDE DEF E
  <1>7. /\ w \in Seq(E) /\ Len(w) = Len(p) + 1 /\ w # <<>>
        /\ w[Len(p) + 1] = e
        /\ \A i \in 1 .. Len(p) : w[i] = p[i]
    BY <1>3, <1>5
  <1>8. SubSeq(r.ev, 1, Len(r.ev) - 1) = w
    <2>1. r.ev \in Seq(E \cup {s})
      BY <1>1, <1>5
    <2>2. /\ SubSeq(r.ev, 1, Len(p) + 1) \in Seq(E \cup {s})
          /\ Len(SubSeq(r.ev, 1, Len(p) + 1)) = Len(p) + 1
          /\ \A i \in 1 .. Len(p) + 1 : SubSeq(r.ev, 1, Len(p) + 1)[i] = r.ev[i]
      BY <1>3, <2>1
    <2>3. w \in Seq(E \cup {s})
      BY <1>7
    <2>4. \A i \in 1 .. Len(p) + 1 : w[i] = r.ev[i]
      BY <1>3, <1>7
    <2>5. SubSeq(r.ev, 1, Len(p) + 1) = w
      BY <1>7, <2>2, <2>3, <2>4
    <2>6. QED  BY <1>3, <2>5
  <1>9. Writes(r.ev) = w
    BY <1>4, <1>8 DEF Writes
  <1>10. /\ s.status \in {"final", "error", "aborted"}
         /\ DOMAIN TERMINAL_STATUS = {"final", "error", "aborted"}
         /\ \A x \in DOMAIN TERMINAL_STATUS : TERMINAL_STATUS[x] \in Terminal
    BY DEF ClosingStatus, TERMINAL_STATUS, Terminal
  <1>11. StatusOf(r.ev) \in Terminal
    BY <1>4, <1>10 DEF StatusOf
  <1>12. HIDE DEF w
  <1>13. \A i \in 1 .. Len(w) : (w[i].type = "message.final" <=> i = Len(w))
                                   /\ w[i].type # "provenance"
    <2>1. \A i \in 1 .. Len(p) : p[i] \in Plain(S, {})
      OBVIOUS
    <2>2. \A i \in 1 .. Len(w) : i \in 1 .. Len(p) \/ i = Len(p) + 1
      BY <1>3, <1>7
    <2>3. \A i \in 1 .. Len(p) : i # Len(p) + 1
      BY <1>3
    <2>4. e.type = "message.final"
      BY EventKinds
    <2>5. QED  BY <1>7, <2>1, <2>2, <2>3, <2>4, EventKinds
  <1>14. QED  BY <1>7, <1>9, <1>11, <1>13 DEF Says, E

-----------------------------------------------------------------------------
(* Issuing a write *)

SinkRecord ==
  [messageId : {NoMessage} \cup Turns, active : BOOLEAN,
   provenanceCount : 0 .. MAX_PROVENANCE_PARTS_PER_TURN]

(* No task has a job yet, and none is left after the last write.              *)
LEMMA NoJobTyped ==
  /\ NoJob \in JobRecord
  /\ NoJob.writes = <<>> /\ NoJob.status = "none" /\ NoJob.message = NoMessage
  /\ \A S, U : JobSays(NoJob, S, U)
  <1>1. /\ NoJob.writes = <<>> /\ NoJob.status = "none" /\ NoJob.message = NoMessage
        /\ NoJob = [message |-> NoMessage, writes |-> <<>>, status |-> "none"]
    BY DEF NoJob
  <1>2. NoJob \in JobRecord
    BY <1>1, EmptySeq DEF JobRecord
  <1>3. \A S, U : JobSays(NoJob, S, U)
    BY <1>1, NothingSaid DEF JobSays
  <1>4. QED  BY <1>1, <1>2, <1>3

(* The first write of a job: skipped with the job, issued to the message the  *)
(* job captured, or, for a final, issued to the message of now, with which    *)
(* the turn ends.                                                             *)
LEMMA IssueEffect ==
  ASSUME NEW s \in SinkRecord, NEW j \in JobRecord, JobSays(j, Chunks, Runs),
         NEW a, a = Issue(s, j)
  PROVE  /\ a.sink \in SinkRecord /\ a.sink.messageId = s.messageId
         /\ \/ /\ a.job = NoJob /\ a.sink = s
               /\ j.status = "none" \/ (Len(j.writes) = 1 /\ ~s.active)
            \/ /\ a.job = j /\ a.sink.active = s.active
               /\ j.writes # <<>> /\ (j.status = "none" \/ Len(j.writes) > 1)
            \/ /\ j.status # "none" /\ Len(j.writes) = 1 /\ s.active
               /\ a.job = [j EXCEPT !.message = s.messageId]
               /\ ~a.sink.active
  <1> DEFINE w == j.writes
  <1>1. /\ w \in Seq(Plain(Chunks, Runs) \cup ClosingFinal(Chunks)) /\ Len(w) \in Nat
        /\ (w = <<>> <=> Len(w) = 0)
        /\ w # <<>> => Head(w) = w[1] /\ 1 \in 1 .. Len(w)
    BY EmptySeq DEF JobRecord
  <1>2. /\ \A i \in 1 .. Len(w) : w[i].type = "message.final" <=> j.status # "none" /\ i = Len(w)
        /\ j.status # "none" => \A i \in 1 .. Len(w) : w[i].type # "provenance"
    BY DEF JobSays, Says
  <1>3. Unwritten(s).sink = s /\ Unwritten(s).job = NoJob
    BY DEF Unwritten
  <1>4. CASE w = <<>>
    <2>1. a = Unwritten(s)
      BY <1>4 DEF Issue
    <2>2. j.status = "none"
      BY <1>4 DEF JobSays, Says
    <2>3. QED  BY <1>3, <2>1, <2>2
  <1>5. CASE w # <<>> /\ Head(w).type = "message.final"
    <2>1. j.status # "none" /\ Len(w) = 1
      BY <1>1, <1>2, <1>5
    <2>2. a = FlushFinal(s, j)
      BY <1>5 DEF Issue
    <2>3. CASE ~s.active
      BY <1>3, <2>1, <2>2, <2>3 DEF FlushFinal
    <2>4. CASE s.active
      <3>1. /\ a.sink = [s EXCEPT !.active = FALSE]
            /\ a.job = [j EXCEPT !.message = s.messageId]
        BY <2>2, <2>4 DEF FlushFinal
      <3>2. /\ a.sink \in SinkRecord /\ a.sink.messageId = s.messageId
            /\ ~a.sink.active
        BY <3>1 DEF SinkRecord
      <3>3. QED  BY <2>1, <2>4, <3>1, <3>2
    <2>5. QED  BY <2>3, <2>4
  <1>6. CASE w # <<>> /\ Head(w).type = "provenance"
    <2>1. j.status = "none"
      BY <1>1, <1>2, <1>6
    <2>2. a = IssueReport(s, j)
      BY <1>6 DEF Issue
    <2>3. CASE s.provenanceCount >= MAX_PROVENANCE_PARTS_PER_TURN
      BY <1>3, <2>1, <2>2, <2>3 DEF IssueReport
    <2>4. CASE ~(s.provenanceCount >= MAX_PROVENANCE_PARTS_PER_TURN)
      <3>1. /\ a.sink = [s EXCEPT !.provenanceCount = @ + 1] /\ a.job = j
        BY <2>2, <2>4 DEF IssueReport
      <3>2. s.provenanceCount + 1 \in 0 .. MAX_PROVENANCE_PARTS_PER_TURN
        BY <2>4, TurnPipelineAssumption DEF SinkRecord
      <3>3. /\ a.sink \in SinkRecord /\ a.sink.messageId = s.messageId
            /\ a.sink.active = s.active
        BY <3>1, <3>2 DEF SinkRecord
      <3>4. QED  BY <1>6, <2>1, <3>1, <3>3
    <2>5. QED  BY <2>3, <2>4
  <1>7. CASE w # <<>> /\ Head(w).type \notin {"message.final", "provenance"}
    <2>1. a = [sink |-> s, job |-> j]
      BY <1>7 DEF Issue
    <2>2. j.status = "none" \/ Len(w) > 1
      BY <1>1, <1>2, <1>7
    <2>3. QED  BY <1>7, <2>1, <2>2
  <1>8. QED  BY <1>4, <1>5, <1>6, <1>7

-----------------------------------------------------------------------------
(* What a write does to a message *)

Message == [status : Statuses, text : Text, reports : SUBSET Runs, finals : Nat]

(* A write that is no final leaves its message as open or closed as it was.   *)
LEMMA PlainWritten ==
  ASSUME NEW S, S \subseteq Chunks, NEW U, U \subseteq Runs, NEW m \in Message,
         NEW e \in Plain(S, U), NEW st
  PROVE  LET after == Written(m, e, st)
         IN /\ after \in Message
            /\ after.status = m.status /\ after.finals = m.finals
            /\ m.text \in Seq(S) => after.text \in Seq(S)
            /\ after.reports \subseteq m.reports \cup U
            /\ e.type = "provenance" => after.text = m.text
  <1>1. /\ m.text \in Text /\ m.reports \subseteq Runs
        /\ m = [status |-> m.status, text |-> m.text, reports |-> m.reports,
                finals |-> m.finals]
    BY DEF Message
  <1>2. \A x : x \in Seq(S) => x \in Text
    BY DEF Text
  <1>3. CASE e.type = "message.delta"
    <2>1. Written(m, e, st) = [m EXCEPT !.text = @ \o e.text]
      BY <1>3 DEF Written
    <2>2. e.text \in Seq(S)
      BY <1>3, EventKinds
    <2>3. m.text \o e.text \in Text /\ (m.text \in Seq(S) => m.text \o e.text \in Seq(S))
      BY <1>1, <1>2, <2>2 DEF Text
    <2>4. QED  BY <1>1, <1>3, <2>1, <2>3 DEF Message
  <1>4. CASE e.type = "message.snapshot"
    <2>1. Written(m, e, st) = [m EXCEPT !.text = e.text]
      BY <1>4 DEF Written
    <2>2. e.text \in Seq(S) /\ e.text \in Text
      BY <1>2, <1>4, EventKinds
    <2>3. QED  BY <1>1, <1>4, <2>1, <2>2 DEF Message
  <1>5. CASE e.type = "provenance"
    <2>1. Written(m, e, st) = [m EXCEPT !.reports = @ \cup {e.run}]
      BY <1>5 DEF Written
    <2>2. e.run \in U
      BY <1>5, EventKinds
    <2>3. QED  BY <1>1, <1>5, <2>1, <2>2 DEF Message
  <1>6. CASE e.type \notin {"message.delta", "message.snapshot", "provenance"}
    <2>1. e.type # "message.final"
      BY EventKinds
    <2>2. Written(m, e, st) = m
      BY <1>6, <2>1 DEF Written
    <2>3. QED  BY <1>6, <2>2
  <1>7. QED  BY <1>3, <1>4, <1>5, <1>6

(* A final closes its message with the text it carries.                       *)
LEMMA FinalWritten ==
  ASSUME NEW S, S \subseteq Chunks, NEW m \in Message, NEW e \in ClosingFinal(S),
         NEW st \in Terminal
  PROVE  LET after == Written(m, e, st)
         IN /\ after \in Message
            /\ after.status = st /\ after.finals = m.finals + 1
            /\ after.text \in Seq(S)
            /\ after.reports = m.reports
  <1>1. e.type = "message.final" /\ e.text \in Seq(S)
    BY EventKinds
  <1>2. e.text \in Text
    BY <1>1 DEF Text
  <1>3. Written(m, e, st) = [m EXCEPT !.status = st, !.text = e.text, !.finals = @ + 1]
    BY <1>1 DEF Written
  <1>4. st \in Statuses
    BY DEF Statuses, Terminal
  <1>5. m.finals + 1 \in Nat /\ m.reports \subseteq Runs
    BY DEF Message
  <1>6. m = [status |-> m.status, text |-> m.text, reports |-> m.reports,
             finals |-> m.finals]
    BY DEF Message
  <1>7. Written(m, e, st) = [status |-> st, text |-> e.text, reports |-> m.reports,
                             finals |-> m.finals + 1]
    BY <1>3, <1>6
  <1>8. QED  BY <1>1, <1>2, <1>4, <1>5, <1>7 DEF Message

-----------------------------------------------------------------------------
(* What a step does, by its kind *)

(* The job of a task after a step that issues the first write of c: none, c    *)
(* itself, or the final of c on its way to the message of now.                *)
Quits(t) == jobs'[t] = NoJob /\ sink' = sink

Proceeds(t, c) ==
  /\ jobs'[t] = c /\ c.writes # <<>> /\ (c.status = "none" \/ Len(c.writes) > 1)
  /\ sink'.active = sink.active

Finishes(t, c) ==
  /\ c.status # "none" /\ Len(c.writes) = 1
  /\ sink.active /\ ~sink'.active
  /\ jobs'[t] = [c EXCEPT !.message = sink.messageId]

OnlyJob(t) ==
  /\ jobs' \in [Tasks -> JobRecord]
  /\ JobSays(jobs'[t], Chunks, Runs)
  /\ \A u \in Tasks \ {t} : jobs'[u] = jobs[u]
  /\ sink' \in SinkRecord /\ sink'.messageId = sink.messageId

Issues(t, c) ==
  /\ OnlyJob(t)
  /\ \/ Quits(t) /\ (c.status = "none" \/ (Len(c.writes) = 1 /\ ~sink.active))
     \/ Proceeds(t, c)
     \/ Finishes(t, c)

Drops(t) == OnlyJob(t) /\ Quits(t)

(* The object goes on as n, perhaps with a recovery asked for.                *)
Continues(n) ==
  /\ nz'.finalized = n.finalized /\ nz'.ownRunIds = n.ownRunIds
  /\ \A S \in SUBSET Chunks : Kept(n, n, S) => Kept(nz', nz', S)
  /\ n.recoveryAttempted => nz'.recoveryAttempted
  /\ fetch' \in [Turns -> {"none", "asked", "done"}]
  /\ \A k \in Turns :
       \/ fetch'[k] = fetch[k]
       \/ fetch[k] = "asked" /\ fetch'[k] = "done"
       \/ fetch[k] = "none" /\ k = seen.turn /\ nz'.recoveryAttempted

(* No send gets its ack or its message.                                       *)
SendsGoOn ==
  /\ ackRunId' = ackRunId
  /\ send' \in [Turns -> {"idle", "sent", "starting", "flushing", "done", "failed"}]
  /\ \A k \in Turns :
       \/ send'[k] = send[k]
       \/ /\ send[k] = "idle" /\ send'[k] = "sent"
          /\ \A j \in Turns : j < k => send[j] # "idle"
       \/ send[k] = "sent" /\ send'[k] = "failed"
       \/ /\ send[k] = "flushing" /\ send'[k] \in {"done", "failed"}
          /\ jobs'[Flush(k)].writes = <<>>

LoopGoesOn ==
  /\ stash' \in Seq(Turns) /\ Len(stash') <= MAX_PROVENANCE_PARTS_PER_TURN
  /\ loop' \in {"racing", "applying", "ended"}
  /\ race' \in Nat \cup {Off}
  /\ loop' = "racing" => jobs'[Loop].writes = <<>>

(* A step that touches no message and no job.                                 *)
Rests ==
  /\ Continues(nz) /\ SendsGoOn /\ LoopGoesOn
  /\ sink' = sink /\ jobs' = jobs /\ messages' = messages
  /\ seen' = [seen EXCEPT !.missed = seen'.missed] /\ seen'.missed \subseteq Turns

(* A step that applies a batch with the writes w and the status st, of which   *)
(* the object came out as n.                                                  *)
Applies(t, n, w, st) ==
  /\ t \in Tasks /\ ~Busy(t)
  /\ t = Loop \/ \E k \in Turns : t = Recovery(k) /\ fetch'[k] = "done"
  /\ w # <<>> => sink.active
  /\ st \in {"none"} \cup Terminal
  /\ Says(w, Chunks, Runs, st # "none")
  /\ Kept(n, n, Chunks) /\ n.recoveryAttempted = nz.recoveryAttempted
  /\ n.finalized <=> nz.finalized \/ st # "none"
  /\ st # "none" => ~nz.finalized
  /\ IF sink.messageId = NoMessage \/ w = <<>> THEN Drops(t)
     ELSE Issues(t, [message |-> sink.messageId, writes |-> w, status |-> st])
  /\ seen.turn \in Turns \ seen'.strayed =>
       n.ownRunIds = OwnRuns(seen.turn) /\ Says(w, Chunks, RunsOf(seen.turn), st # "none")
  /\ TurnUnmixed' =>
       Kept(n, n, Own(seen.turn)) /\ Says(w, Own(seen.turn), Runs, st # "none")
  /\ seen' = [seen EXCEPT !.misplaced = IF w = <<>> THEN @ ELSE @ \cup Homeless,
                          !.strayed = seen'.strayed]
  /\ seen'.strayed \subseteq Turns /\ seen.strayed \subseteq seen'.strayed
  /\ messages' = messages
  /\ Continues(n) /\ SendsGoOn /\ LoopGoesOn

(* A step that answers the first write of a task, or loses it.                *)
Answered(t, outcome) ==
  /\ t \in Tasks /\ Busy(t) /\ outcome \in {"answered", "refused", "lost"}
  /\ IF outcome = "answered" /\ Len(jobs[t].writes) > 1
       THEN Issues(t, [jobs[t] EXCEPT !.writes = Tail(@)]) ELSE Drops(t)
  /\ messages' = MessagesAfter(jobs[t], outcome)
  /\ seen' = MarkedWrite(jobs[t], outcome)
  /\ Continues(nz) /\ SendsGoOn /\ LoopGoesOn

-----------------------------------------------------------------------------
(* The kind of each step *)

(* Typed, with the names of its parts.                                        *)
LEMMA TypedParts ==
  ASSUME Typed
  PROVE  /\ nz \in Normalizer /\ nz.finalized \in BOOLEAN /\ Kept(nz, nz, Chunks)
         /\ sink \in SinkRecord /\ sink.active \in BOOLEAN
         /\ sink.messageId \in {NoMessage} \cup Turns
         /\ messages \in [Turns -> Message]
         /\ jobs \in [Tasks -> JobRecord] /\ \A t \in Tasks : JobSays(jobs[t], Chunks, Runs)
         /\ seen.turn \in {NoMessage} \cup Turns
         /\ MaxTurns \in Nat \ {0} /\ Turns \subseteq Nat \ {0} /\ NoMessage = 0
         /\ RunIds = Turns
  <1>1. /\ nz \in Normalizer /\ Kept(nz, nz, Chunks)
        /\ sink \in SinkRecord
        /\ messages \in [Turns -> Message]
        /\ jobs \in [Tasks -> JobRecord] /\ \A t \in Tasks : JobSays(jobs[t], Chunks, Runs)
    BY DEF Typed, TypeOK, SinkRecord, Message, Runs
  <1>2. nz.finalized \in BOOLEAN
    BY <1>1 DEF Normalizer
  <1>3. sink.active \in BOOLEAN /\ sink.messageId \in {NoMessage} \cup Turns
    BY <1>1 DEF SinkRecord
  <1>4. MaxTurns \in Nat \ {0} /\ Turns \subseteq Nat \ {0} /\ RunIds = Turns
    BY TurnPipelineAssumption DEF Turns
  <1>5. seen.turn \in {NoMessage} \cup Turns
    BY <1>4 DEF Typed, TypeOK, NoMessage, Turns
  <1>6. QED  BY <1>1, <1>2, <1>3, <1>4, <1>5 DEF NoMessage

(* What a batch becomes, whatever it is.                                      *)
LEMMA BatchSaid ==
  ASSUME NEW S, NEW U, NEW n0, n0.finalized \in BOOLEAN, NEW r, Batches(n0, r, S, U)
  PROVE  /\ StatusOf(r.ev) \in {"none"} \cup Terminal
         /\ Says(Writes(r.ev), S, U, StatusOf(r.ev) # "none")
         /\ Kept(r.nz, r.nz, S) /\ r.nz.ownRunIds = n0.ownRunIds
         /\ r.nz.recoveryAttempted = n0.recoveryAttempted
         /\ r.nz.finalized <=> n0.finalized \/ StatusOf(r.ev) # "none"
         /\ StatusOf(r.ev) # "none" => ~n0.finalized
  <1>1. /\ \A n : Kept(n0, n, S) => /\ Kept(n, n, S) /\ n.ownRunIds = n0.ownRunIds
                                    /\ n.recoveryAttempted = n0.recoveryAttempted
                                    /\ n.finalized \in BOOLEAN
        /\ "none" \notin Terminal
    BY DEF Kept, Terminal, Normalizer
  <1>2. CASE GoesOn(n0, r, S, U)
    <2>1. Kept(n0, r.nz, S) /\ r.nz.finalized = n0.finalized
      BY <1>2 DEF GoesOn
    <2>2. (StatusOf(r.ev) # "none") = FALSE /\ Says(Writes(r.ev), S, U, FALSE)
      BY <1>2, GoingOnSaid
    <2>3. QED  BY <1>1, <2>1, <2>2
  <1>3. CASE Ends(n0, r, S, {})
    <2>1. Kept(n0, r.nz, S) /\ r.nz.finalized /\ ~n0.finalized
      BY <1>3 DEF Ends
    <2>2. StatusOf(r.ev) \in Terminal /\ Says(Writes(r.ev), S, U, TRUE)
      BY <1>3, EndingSaid
    <2>3. (StatusOf(r.ev) # "none") = TRUE
      BY <1>1, <2>2
    <2>4. QED  BY <1>1, <2>1, <2>2, <2>3
  <1>4. CASE Tells(n0, r, S)
    <2>1. Kept(n0, r.nz, S) /\ r.nz.finalized = n0.finalized
      BY <1>4 DEF Tells
    <2>2. /\ (StatusOf(r.ev) # "none") = FALSE
          /\ Writes(r.ev) = <<>>
      BY <1>4, TellingSaid
    <2>3. Says(<<>>, S, U, FALSE)
      BY NothingSaid
    <2>4. QED  BY <1>1, <2>1, <2>2, <2>3
  <1>5. QED  BY <1>2, <1>3, <1>4 DEF Batches

(* A job issued, or dropped.                                                  *)
LEMMA JobIssued ==
  ASSUME Typed, NEW t \in Tasks, NEW c \in JobRecord, JobSays(c, Chunks, Runs),
         NEW a, a = Issue(sink, c),
         sink' = a.sink, jobs' = [jobs EXCEPT ![t] = a.job]
  PROVE  Issues(t, c)
  <1>1. sink \in SinkRecord /\ jobs \in [Tasks -> JobRecord]
        /\ sink.messageId \in {NoMessage} \cup Turns
    BY TypedParts
  <1>2. jobs'[t] = a.job /\ \A u \in Tasks \ {t} : jobs'[u] = jobs[u]
    BY <1>1
  <1>3. a.sink \in SinkRecord /\ a.sink.messageId = sink.messageId
    BY <1>1, IssueEffect
  <1>4. a.job \in JobRecord => jobs' \in [Tasks -> JobRecord]
    BY <1>1
  <1>5. CASE a.job = NoJob /\ a.sink = sink /\ (c.status = "none" \/ (Len(c.writes) = 1 /\ ~sink.active))
    BY <1>2, <1>3, <1>4, <1>5, NoJobTyped DEF Issues, OnlyJob, Quits
  <1>6. CASE /\ a.job = c /\ a.sink.active = sink.active
             /\ c.writes # <<>> /\ (c.status = "none" \/ Len(c.writes) > 1)
    BY <1>2, <1>3, <1>4, <1>6 DEF Issues, OnlyJob, Proceeds
  <1>7. CASE /\ c.status # "none" /\ Len(c.writes) = 1 /\ sink.active
             /\ a.job = [c EXCEPT !.message = sink.messageId]
             /\ ~a.sink.active
    <2>1. /\ a.job \in JobRecord /\ a.job.writes = c.writes /\ a.job.status = c.status
      BY <1>1, <1>7 DEF JobRecord
    <2>2. JobSays(a.job, Chunks, Runs)
      BY <2>1 DEF JobSays
    <2>3. QED  BY <1>2, <1>3, <1>4, <1>7, <2>1, <2>2 DEF Issues, OnlyJob, Finishes
  <1>8. QED  BY <1>1, <1>5, <1>6, <1>7, IssueEffect

LEMMA JobDropped ==
  ASSUME Typed, NEW t \in Tasks, sink' = sink, jobs' = [jobs EXCEPT ![t] = NoJob]
  PROVE  Drops(t)
  BY TypedParts, NoJobTyped DEF Drops, OnlyJob, Quits

(* A batch applied.                                                           *)
LEMMA BatchApplied ==
  ASSUME Typed, NEW t \in Tasks, NEW ev,
         StatusOf(ev) \in {"none"} \cup Terminal,
         Says(Writes(ev), Chunks, Runs, StatusOf(ev) # "none"),
         NEW a, a = Apply(sink, ev),
         sink' = a.sink, jobs' = [jobs EXCEPT ![t] = a.job]
  PROVE  IF sink.messageId = NoMessage \/ Writes(ev) = <<>> THEN Drops(t)
         ELSE Issues(t, [message |-> sink.messageId, writes |-> Writes(ev),
                         status |-> StatusOf(ev)])
  <1> DEFINE c == [message |-> sink.messageId, writes |-> Writes(ev), status |-> StatusOf(ev)]
  <1>1. CASE sink.messageId = NoMessage \/ Writes(ev) = <<>>
    <2>1. a.sink = sink /\ a.job = NoJob
      BY <1>1 DEF Apply, Unwritten
    <2>2. QED  BY <1>1, <2>1, JobDropped
  <1>2. CASE ~(sink.messageId = NoMessage \/ Writes(ev) = <<>>)
    <2>1. a = Issue(sink, c)
      BY <1>2 DEF Apply
    <2>2. c \in JobRecord
      BY TypedParts DEF JobRecord, Says
    <2>3. c.writes = Writes(ev) /\ c.status = StatusOf(ev)
      OBVIOUS
    <2>4. HIDE DEF c
    <2>5. JobSays(c, Chunks, Runs)
      BY <2>3 DEF JobSays
    <2>6. Issues(t, c)
      BY <2>1, <2>2, <2>5, JobIssued
    <2>7. QED  BY <1>2, <2>6 DEF c
  <1>3. QED  BY <1>1, <1>2

(* The bottom of an iteration.                                                *)
LEMMA IterateContinues ==
  ASSUME Typed, TasksInOrder, NEW n, Kept(n, n, Chunks),
         n.recoveryAttempted = nz.recoveryAttempted,
         seen.turn = NoMessage => n.finalized, Iterate(n)
  PROVE  Continues(n) /\ loop' = "racing" /\ race' \in Nat \cup {Off}
  <1>1. n \in Normalizer /\ race' = NextTimeout(n) /\ loop' = "racing"
    BY DEF Kept, Iterate
  <1>2. race' \in Nat \cup {Off}
    BY <1>1, NextTimeoutTyped
  <1>3. fetch \in [Turns -> {"none", "asked", "done"}] /\ seen.turn \in {NoMessage} \cup Turns
    BY TypedParts DEF Typed, TypeOK
  <1>4. CASE WantsHistoryRecovery(n)
    <2>1. nz' = MarkRecoveryAttempted(n) /\ fetch' = [fetch EXCEPT ![seen.turn] = "asked"]
      BY <1>4 DEF Iterate
    <2>2. /\ nz'.finalized = n.finalized /\ nz'.ownRunIds = n.ownRunIds
          /\ nz'.recoveryAttempted = TRUE
      BY <2>1, MarkKept
    <2>3. \A S \in SUBSET Chunks : Kept(n, n, S) => Kept(nz', nz', S)
      BY <2>1, MarkKept
    <2>4. ~n.finalized /\ ~n.recoveryAttempted
      BY <1>4 DEF WantsHistoryRecovery
    <2>5. seen.turn \in Turns
      BY <1>3, <2>4
    <2>6. fetch[seen.turn] = "none"
      BY <2>4, <2>5 DEF TasksInOrder
    <2>7. QED  BY <1>1, <1>2, <1>3, <2>1, <2>2, <2>3, <2>5, <2>6 DEF Continues
  <1>5. CASE ~WantsHistoryRecovery(n)
    <2>1. nz' = n /\ fetch' = fetch
      BY <1>5 DEF Iterate
    <2>2. QED  BY <1>1, <1>2, <1>3, <2>1 DEF Continues
  <1>6. QED  BY <1>4, <1>5

(* The object as it is, with fetches answered.                                *)
LEMMA SameContinues ==
  ASSUME Typed, NEW n, nz' = n, fetch' \in [Turns -> {"none", "asked", "done"}],
         \A k \in Turns : fetch'[k] = fetch[k] \/ (fetch[k] = "asked" /\ fetch'[k] = "done")
  PROVE  Continues(n)
  BY DEF Continues

LEMMA SameSends ==
  ASSUME Typed, send' = send, ackRunId' = ackRunId
  PROVE  SendsGoOn
  BY DEF Typed, TypeOK, SendsGoOn

(* An object that a batch comes from.                                         *)
Like(m) == m.finalized = nz.finalized /\ m.recoveryAttempted = nz.recoveryAttempted

(* What every call that applies a batch does.                                 *)
LEMMA BatchApplies ==
  ASSUME Typed, NEW t \in Tasks, ~Busy(t), NEW r,
         t = Loop \/ \E k \in Turns : t = Recovery(k) /\ fetch'[k] = "done",
         r.ev # <<>> => sink.active,
         \E m : Like(m) /\ Batches(m, r, Chunks, Runs),
         seen.turn \in Turns \ seen'.strayed =>
           \E m : /\ Like(m) /\ m.ownRunIds = OwnRuns(seen.turn)
                  /\ Batches(m, r, Chunks, RunsOf(seen.turn)),
         TurnUnmixed' => \E m : Like(m) /\ Batches(m, r, Own(seen.turn), Runs),
         NEW a, a = Apply(sink, r.ev),
         sink' = a.sink, jobs' = [jobs EXCEPT ![t] = a.job],
         seen' = [Marked(r.ev) EXCEPT !.strayed = seen'.strayed],
         seen'.strayed \subseteq Turns, seen.strayed \subseteq seen'.strayed,
         messages' = messages, Continues(r.nz), SendsGoOn, LoopGoesOn
  PROVE  Applies(t, r.nz, Writes(r.ev), StatusOf(r.ev))
  <1> DEFINE n == r.nz
             w == Writes(r.ev)
             st == StatusOf(r.ev)
  <1>1. nz.finalized \in BOOLEAN /\ \A m : Like(m) => m.finalized \in BOOLEAN
    BY TypedParts DEF Like
  <1>2. /\ st \in {"none"} \cup Terminal
        /\ Says(w, Chunks, Runs, st # "none")
        /\ Kept(n, n, Chunks) /\ n.recoveryAttempted = nz.recoveryAttempted
        /\ n.finalized <=> nz.finalized \/ st # "none"
        /\ st # "none" => ~nz.finalized
    <2>1. PICK m : Like(m) /\ Batches(m, r, Chunks, Runs)
      OBVIOUS
    <2>2. m.finalized \in BOOLEAN
      BY <1>1, <2>1
    <2>3. m.finalized = nz.finalized /\ m.recoveryAttempted = nz.recoveryAttempted
      BY <2>1 DEF Like
    <2>4. QED  BY <2>1, <2>2, <2>3, BatchSaid
  <1>3. seen.turn \in Turns \ seen'.strayed =>
          n.ownRunIds = OwnRuns(seen.turn) /\ Says(w, Chunks, RunsOf(seen.turn), st # "none")
    <2> SUFFICES ASSUME seen.turn \in Turns \ seen'.strayed
                 PROVE  n.ownRunIds = OwnRuns(seen.turn) /\ Says(w, Chunks, RunsOf(seen.turn), st # "none")
      OBVIOUS
    <2>1. PICK m : /\ Like(m) /\ m.ownRunIds = OwnRuns(seen.turn)
                   /\ Batches(m, r, Chunks, RunsOf(seen.turn))
      OBVIOUS
    <2>2. QED  BY <1>1, <2>1, BatchSaid
  <1>4. TurnUnmixed' => Kept(n, n, Own(seen.turn)) /\ Says(w, Own(seen.turn), Runs, st # "none")
    BY <1>1, BatchSaid
  <1>5. w # <<>> => sink.active
    BY DEF Writes, EndsInStatus
  <1>6. IF sink.messageId = NoMessage \/ w = <<>> THEN Drops(t)
        ELSE Issues(t, [message |-> sink.messageId, writes |-> w, status |-> st])
    BY <1>2, BatchApplied
  <1>7. seen' = [seen EXCEPT !.misplaced = IF w = <<>> THEN @ ELSE @ \cup Homeless,
                             !.strayed = seen'.strayed]
    BY DEF Marked
  <1>8. QED  BY <1>2, <1>3, <1>4, <1>5, <1>6, <1>7 DEF Applies

(* The frames and transcripts of a run say what that run may say.             *)
LEMMA RunsSayTheirOwn ==
  ASSUME NEW k \in Turns
  PROVE  /\ Own(k) = AckChunks \cup {k} /\ Own(k) \subseteq Chunks
         /\ k \in RunIds /\ k # NoRun
         /\ Recovered(k) \in Said \cap Seq(Own(k))
         /\ \A f \in FramesOf(k) : /\ f \in Frame /\ f.run \in RunsOf(k)
                                   /\ FrameText(f) \subseteq Seq(Own(k))
         /\ \A S, x : S \subseteq Chunks /\ x \in Seq(S) => x \in Seq(Chunks)
  <1>1. /\ Chunks = AckChunks \cup Turns /\ RunIds = Turns /\ NoRun \notin RunIds
        /\ Recovered(k) \in Said \cap Seq(AckChunks \cup {k})
        /\ \A f \in FramesOf(k) : f \in Frame /\ f.run \in RunsOf(k)
                                  /\ FrameText(f) \subseteq Seq(AckChunks \cup {k})
    BY TurnPipelineAssumption, NormalizerAssumption DEF RunsOf
  <1>2. Own(k) = AckChunks \cup {k}
    BY DEF Own
  <1>3. QED  BY <1>1, <1>2

LEMMA OwnChunks ==
  ASSUME NEW k
  PROVE  Own(k) \subseteq Chunks
  BY TurnPipelineAssumption DEF Own

(* The sanitizer keeps a reply among the chunks of its run.                   *)
LEMMA OwnCleaned ==
  ASSUME NEW S \in SUBSET Chunks
  PROVE  CleanedIn(S)
  <1>1. \A c \in Chunks : Cleaned[c] = [alone |-> c, within |-> c]
    BY TurnPipelineAssumption, Zenon
  <1>2. ASSUME NEW c \in S
        PROVE  Cleaned[c].alone = c /\ Cleaned[c].within = c
    <2>1. Cleaned[c] = [alone |-> c, within |-> c]
      BY <1>1, <1>2, Zenon
    <2>2. QED  BY <2>1
  <1>3. QED  BY <1>2 DEF CleanedIn

(* A result for the loop: the iteration ends, or its first write is awaited.  *)
LEMMA LoopAppliesContinues ==
  ASSUME Typed, TasksInOrder, NEW r, Kept(r.nz, r.nz, Chunks),
         r.nz.recoveryAttempted = nz.recoveryAttempted,
         seen.turn = NoMessage => r.nz.finalized,
         NEW marked, LoopApplies(r, marked), stash' = stash
  PROVE  Continues(r.nz) /\ LoopGoesOn
  <1> DEFINE a == Apply(sink, r.ev)
  <1>1. jobs' = [jobs EXCEPT ![Loop] = a.job]
    BY DEF LoopApplies
  <1>2. Loop \in Tasks /\ jobs'[Loop] = a.job
    BY <1>1, TypedParts DEF Loop, Tasks
  <1>3. stash' \in Seq(Turns) /\ Len(stash') <= MAX_PROVENANCE_PARTS_PER_TURN
    BY DEF Typed, TypeOK
  <1>4. CASE a.job.writes = <<>>
    <2>1. Iterate(r.nz)
      BY <1>4 DEF LoopApplies
    <2>2. QED  BY <1>2, <1>3, <1>4, <2>1, IterateContinues DEF LoopGoesOn
  <1>5. CASE a.job.writes # <<>>
    <2>1. nz' = r.nz /\ loop' = "applying" /\ race' = Off /\ fetch' = fetch
      BY <1>5 DEF LoopApplies
    <2>2. Continues(r.nz)
      BY <2>1, SameContinues DEF Typed, TypeOK
    <2>3. QED  BY <1>2, <1>3, <2>1, <2>2 DEF LoopGoesOn
  <1>6. QED  BY <1>4, <1>5

(* The parts of the invariant that a batch is judged by.                      *)
LEMMA ObjectOfTurn ==
  ASSUME Typed, TurnsInOrder, ReportsInv, TextInv
  PROVE  /\ Kept(nz, nz, Chunks)
         /\ seen.turn \in Turns \ seen.strayed => nz.ownRunIds = OwnRuns(seen.turn)
         /\ TurnUnmixed => Kept(nz, nz, Own(seen.turn))
         /\ sink.active => seen.turn \in Turns
         /\ seen.turn = NoMessage => nz.finalized
         /\ Like(nz)
  BY TypedParts DEF TurnsInOrder, ReportsInv, TextInv, TurnUnmixed, Like

SomeApplies == \E t \in Tasks : \E n, w, st : Applies(t, n, w, st)

SeenRecord ==
  [turn : 0 .. MaxTurns, misplaced : SUBSET Turns, overlapped : SUBSET Turns,
   crossed : SUBSET Turns, failed : SUBSET Turns, stale : BOOLEAN, strayed : SUBSET Turns,
   missed : SUBSET Turns]

(* What a batch notes of the session.                                         *)
LEMMA MarkedParts ==
  ASSUME Typed, NEW ev, NEW b \in SUBSET Turns, seen.strayed \subseteq b,
         seen' = [Marked(ev) EXCEPT !.strayed = b]
  PROVE  /\ seen' = [Marked(ev) EXCEPT !.strayed = seen'.strayed]
         /\ seen'.strayed = b
         /\ TurnUnmixed' => TurnUnmixed /\ seen.turn \notin b
  <1>1. seen \in SeenRecord
    BY DEF Typed, TypeOK, SeenRecord
  <1>2. Marked(ev) = [seen EXCEPT !.misplaced = Marked(ev).misplaced]
    BY <1>1 DEF Marked, SeenRecord
  <1>3. seen.misplaced \subseteq Marked(ev).misplaced
    BY <1>1 DEF Marked, SeenRecord
  <1>4. /\ seen'.strayed = b /\ seen'.misplaced = Marked(ev).misplaced
        /\ seen'.turn = seen.turn
        /\ seen'.overlapped = seen.overlapped
        /\ seen'.crossed = seen.crossed /\ seen'.stale = seen.stale
    BY <1>1, <1>2 DEF SeenRecord
  <1>5. QED  BY <1>3, <1>4 DEF TurnUnmixed, Unmixed

LEMMA FeedsApplies ==
  ASSUME PipeInv, ReportsInv, TextInv, NEW k \in Turns, NEW f \in FramesOf(k), Feeds(k, f)
  PROVE  SomeApplies
  <1> DEFINE r == Feed(nz, f)
             strays == k # seen.turn /\ LetsStrays(f)
             b == IF strays THEN seen.strayed \cup ({seen.turn} \cap Turns) ELSE seen.strayed
  <1> USE DEF PipeInv
  <1>1. /\ loop = "racing" /\ sink.active /\ LoopApplies(r, MarkedFeed(k, f, r.ev))
        /\ stash' = stash /\ send' = send /\ ackRunId' = ackRunId /\ messages' = messages
    BY DEF Feeds
  <1>2. /\ f \in Frame /\ f.run \in RunsOf(k) /\ FrameText(f) \subseteq Seq(Own(k))
        /\ Own(k) \subseteq Chunks /\ k # NoRun
        /\ FrameText(f) \subseteq Seq(Chunks)
    BY RunsSayTheirOwn
  <1>3. /\ Kept(nz, nz, Chunks) /\ seen.turn \in Turns /\ Like(nz)
        /\ seen.turn \notin seen.strayed => nz.ownRunIds = OwnRuns(seen.turn)
        /\ TurnUnmixed => Kept(nz, nz, Own(seen.turn))
    BY <1>1, ObjectOfTurn
  <1>4. seen.turn \notin b =>
          /\ nz.ownRunIds = OwnRuns(seen.turn)
          /\ ~(ForeignRun(nz, f) /\ Admits(nz, f))
          /\ Admits(nz, f) => k = seen.turn
    <2> SUFFICES ASSUME seen.turn \notin b
                 PROVE  /\ nz.ownRunIds = OwnRuns(seen.turn)
                        /\ ~(ForeignRun(nz, f) /\ Admits(nz, f))
                        /\ Admits(nz, f) => k = seen.turn
      OBVIOUS
    <2>1. nz.ownRunIds = OwnRuns(seen.turn) /\ ~strays
      BY <1>3
    <2>2. CASE k = seen.turn
      BY <1>2, <2>1, <2>2 DEF ForeignRun, OwnRuns, RunsOf
    <2>3. CASE k # seen.turn
      <3>1. ~FollowOnOpen(nz) /\ f.run # NoRun /\ ackRunId[seen.turn] # NoRun
        BY <1>3, <2>1, <2>3 DEF LetsStrays, FollowOnOpen
      <3>2. nz.ownRunIds = {seen.turn} /\ f.run = k
        BY <1>2, <2>1, <3>1 DEF OwnRuns, RunsOf
      <3>3. ForeignRun(nz, f) /\ ~Admits(nz, f)
        BY <2>3, <3>1, <3>2 DEF ForeignRun, Admits
      <3>4. QED  BY <2>1, <3>3
    <2>4. QED  BY <2>2, <2>3
  <1>5. \E m : Like(m) /\ Batches(m, r, Chunks, Runs)
    <2>1. Chunks \subseteq Chunks /\ (Admits(nz, f) => f.run \in Runs /\ FrameText(f) \subseteq Seq(Chunks))
      BY <1>2 DEF Runs, RunsOf
    <2>2. \E m : /\ m.finalized = nz.finalized
                 /\ m.recoveryAttempted = nz.recoveryAttempted
                 /\ Batches(m, Feed(nz, f), Chunks, Runs)
      BY <1>2, <1>3, <2>1, FeedBatches
    <2>3. QED  BY <2>2 DEF Like
  <1>6. seen.turn \notin b =>
          \E m : /\ Like(m) /\ m.ownRunIds = OwnRuns(seen.turn)
                 /\ Batches(m, r, Chunks, RunsOf(seen.turn))
    <2> SUFFICES ASSUME seen.turn \notin b
                 PROVE  \E m : /\ Like(m) /\ m.ownRunIds = OwnRuns(seen.turn)
                               /\ Batches(m, r, Chunks, RunsOf(seen.turn))
      OBVIOUS
    <2>1. /\ Chunks \subseteq Chunks
          /\ Admits(nz, f) => f.run \in RunsOf(seen.turn) /\ FrameText(f) \subseteq Seq(Chunks)
      BY <1>2, <1>4
    <2>2. \E m : /\ m.finalized = nz.finalized
                 /\ m.recoveryAttempted = nz.recoveryAttempted
                 /\ m.ownRunIds = nz.ownRunIds \/ (ForeignRun(nz, f) /\ Admits(nz, f))
                 /\ Batches(m, Feed(nz, f), Chunks, RunsOf(seen.turn))
      BY <1>2, <1>3, <2>1, FeedBatches
    <2>3. QED  BY <1>4, <2>2 DEF Like
  <1>7. TurnUnmixed /\ seen.turn \notin b => \E m : Like(m) /\ Batches(m, r, Own(seen.turn), Runs)
    <2> SUFFICES ASSUME TurnUnmixed, seen.turn \notin b
                 PROVE  \E m : Like(m) /\ Batches(m, r, Own(seen.turn), Runs)
      OBVIOUS
    <2>1. /\ Own(seen.turn) \subseteq Chunks
          /\ Admits(nz, f) => f.run \in Runs /\ FrameText(f) \subseteq Seq(Own(seen.turn))
      BY <1>2, <1>4, OwnChunks DEF Runs, RunsOf
    <2>2. \E m : /\ m.finalized = nz.finalized
                 /\ m.recoveryAttempted = nz.recoveryAttempted
                 /\ Batches(m, Feed(nz, f), Own(seen.turn), Runs)
      BY <1>2, <1>3, <2>1, FeedBatches
    <2>3. QED  BY <2>2 DEF Like
  <1>8. seen' = [Marked(r.ev) EXCEPT !.strayed = b]
    <2>1. seen' = MarkedFeed(k, f, r.ev)
      BY <1>1 DEF LoopApplies
    <2>2. Marked(r.ev).strayed = seen.strayed
      BY DEF Marked, Typed, TypeOK
    <2>3. QED  BY <2>1, <2>2 DEF MarkedFeed
  <1>9. b \in SUBSET Turns /\ seen.strayed \subseteq b
    BY DEF Typed, TypeOK
  <1>10. /\ sink' = Apply(sink, r.ev).sink
         /\ jobs' = [jobs EXCEPT ![Loop] = Apply(sink, r.ev).job]
    BY <1>1 DEF LoopApplies
  <1>11. Continues(r.nz) /\ LoopGoesOn
    <2>1. PICK m : Like(m) /\ Batches(m, r, Chunks, Runs)
      BY <1>5
    <2>2. m.finalized = nz.finalized /\ m.recoveryAttempted = nz.recoveryAttempted
          /\ m.finalized \in BOOLEAN
      BY <2>1, TypedParts DEF Like
    <2>3. Kept(r.nz, r.nz, Chunks) /\ r.nz.recoveryAttempted = nz.recoveryAttempted
      BY <2>1, <2>2, BatchSaid
    <2>4. seen.turn # NoMessage
      BY <1>3, TypedParts
    <2>5. QED  BY <1>1, <2>3, <2>4, LoopAppliesContinues
  <1>12. SendsGoOn
    BY <1>1, SameSends
  <1>13. Loop \in Tasks /\ ~Busy(Loop)
    BY <1>1, TypedParts DEF TasksInOrder, Loop, Tasks
  <1>14. HIDE DEF r, b
  <1>15. /\ seen' = [Marked(r.ev) EXCEPT !.strayed = seen'.strayed]
         /\ seen'.strayed = b
         /\ TurnUnmixed' => TurnUnmixed /\ seen.turn \notin b
    BY <1>8, <1>9, MarkedParts
  <1>16. Applies(Loop, r.nz, Writes(r.ev), StatusOf(r.ev))
    BY <1>1, <1>5, <1>6, <1>7, <1>9, <1>10, <1>11, <1>12, <1>13, <1>15, BatchApplies
  <1>17. QED  BY <1>13, <1>16 DEF SomeApplies

(* A batch that follows from the object of now is about its run.              *)
LEMMA FollowsTurn ==
  ASSUME PipeInv, ReportsInv, TextInv, NEW r,
         r.ev # <<>> => sink.active,
         Follows(nz, r, Chunks, {}),
         TurnUnmixed => Follows(nz, r, Own(seen.turn), {})
  PROVE  /\ \E m : Like(m) /\ Batches(m, r, Chunks, Runs)
         /\ seen.turn \in Turns \ seen.strayed =>
              \E m : /\ Like(m) /\ m.ownRunIds = OwnRuns(seen.turn)
                     /\ Batches(m, r, Chunks, RunsOf(seen.turn))
         /\ TurnUnmixed => \E m : Like(m) /\ Batches(m, r, Own(seen.turn), Runs)
         /\ Kept(r.nz, r.nz, Chunks) /\ r.nz.recoveryAttempted = nz.recoveryAttempted
         /\ nz.finalized => r.nz.finalized
  <1> USE DEF PipeInv
  <1>1. /\ Like(nz) /\ nz.finalized \in BOOLEAN
        /\ seen.turn \in Turns \ seen.strayed => nz.ownRunIds = OwnRuns(seen.turn)
    BY ObjectOfTurn, TypedParts
  <1>2. Batches(nz, r, Chunks, Runs) /\ Batches(nz, r, Chunks, RunsOf(seen.turn))
    BY FollowsBatches
  <1>3. TurnUnmixed => Batches(nz, r, Own(seen.turn), Runs)
    BY FollowsBatches
  <1>4. /\ Kept(r.nz, r.nz, Chunks) /\ r.nz.recoveryAttempted = nz.recoveryAttempted
        /\ nz.finalized => r.nz.finalized
    BY <1>1, <1>2, BatchSaid
  <1>5. QED  BY <1>1, <1>2, <1>3, <1>4

(* Such a batch, applied, is about its run.                                   *)
LEMMA FollowsApplies ==
  ASSUME PipeInv, ReportsInv, TextInv, NEW t \in Tasks, ~Busy(t), NEW r,
         t = Loop \/ \E k \in Turns : t = Recovery(k) /\ fetch'[k] = "done",
         r.ev # <<>> => sink.active,
         Follows(nz, r, Chunks, {}),
         TurnUnmixed => Follows(nz, r, Own(seen.turn), {}),
         NEW a, a = Apply(sink, r.ev),
         sink' = a.sink, jobs' = [jobs EXCEPT ![t] = a.job],
         seen' = Marked(r.ev), messages' = messages,
         Continues(r.nz), SendsGoOn, LoopGoesOn
  PROVE  SomeApplies
  <1> USE DEF PipeInv
  <1>1. seen' = [Marked(r.ev) EXCEPT !.strayed = seen.strayed] /\ seen.strayed \in SUBSET Turns
    <2>1. seen \in SeenRecord
      BY DEF Typed, TypeOK, SeenRecord
    <2>2. Marked(r.ev) \in [turn : 0 .. MaxTurns, misplaced : {Marked(r.ev).misplaced},
                            overlapped : SUBSET Turns, crossed : SUBSET Turns,
                            failed : SUBSET Turns,
                            stale : BOOLEAN, strayed : {seen.strayed},
                            missed : SUBSET Turns]
      BY <2>1 DEF Marked, SeenRecord
    <2>3. QED  BY <2>1, <2>2 DEF SeenRecord
  <1>2. /\ seen' = [Marked(r.ev) EXCEPT !.strayed = seen'.strayed]
        /\ seen'.strayed = seen.strayed
        /\ TurnUnmixed' => TurnUnmixed
    BY <1>1, MarkedParts
  <1>3. /\ \E m : Like(m) /\ Batches(m, r, Chunks, Runs)
        /\ seen.turn \in Turns \ seen.strayed =>
             \E m : /\ Like(m) /\ m.ownRunIds = OwnRuns(seen.turn)
                    /\ Batches(m, r, Chunks, RunsOf(seen.turn))
        /\ TurnUnmixed => \E m : Like(m) /\ Batches(m, r, Own(seen.turn), Runs)
    BY FollowsTurn
  <1>4. Applies(t, r.nz, Writes(r.ev), StatusOf(r.ev))
    BY <1>1, <1>2, <1>3, BatchApplies
  <1>5. QED  BY <1>4 DEF SomeApplies

(* A call that does nothing is one the object follows from. *)
LEMMA NothingFollows ==
  ASSUME NEW S, Kept(nz, nz, S)
  PROVE  Follows(nz, Result(nz), S, {}) /\ Result(nz).ev = <<>>
  <1>1. GoesOn(nz, Result(nz), S, {})
    BY ResultGoesOn
  <1>2. QED  BY <1>1 DEF Follows, Result

LEMMA TicksApplies ==
  ASSUME PipeInv, ReportsInv, TextInv, Ticks, sink.active
  PROVE  SomeApplies
  <1> DEFINE r == Tick(nz)
  <1> USE DEF PipeInv
  <1>1. /\ loop = "racing" /\ LoopApplies(r, Marked(r.ev))
        /\ stash' = stash /\ send' = send /\ ackRunId' = ackRunId /\ messages' = messages
    BY DEF Ticks
  <1>2. /\ Kept(nz, nz, Chunks) /\ seen.turn \in Turns
        /\ TurnUnmixed => Kept(nz, nz, Own(seen.turn))
    BY ObjectOfTurn
  <1>3. /\ Follows(nz, r, Chunks, {})
        /\ TurnUnmixed => Follows(nz, r, Own(seen.turn), {})
    BY <1>2, TickBatches
  <1>4. Kept(r.nz, r.nz, Chunks) /\ r.nz.recoveryAttempted = nz.recoveryAttempted
    BY <1>3, FollowsTurn
  <1>5. seen.turn # NoMessage
    BY <1>2, TypedParts
  <1>6. Continues(r.nz) /\ LoopGoesOn
    BY <1>1, <1>4, <1>5, LoopAppliesContinues
  <1>7. SendsGoOn
    BY <1>1, SameSends
  <1>8. Loop \in Tasks /\ ~Busy(Loop)
    BY <1>1, TypedParts DEF TasksInOrder, Loop, Tasks
  <1>9. /\ sink' = Apply(sink, r.ev).sink /\ seen' = Marked(r.ev)
        /\ jobs' = [jobs EXCEPT ![Loop] = Apply(sink, r.ev).job]
    BY <1>1 DEF LoopApplies
  <1> HIDE DEF r
  <1>10. QED  BY <1>1, <1>3, <1>6, <1>7, <1>8, <1>9, FollowsApplies

LEMMA ClosesApplies ==
  ASSUME PipeInv, ReportsInv, TextInv, Closes
  PROVE  SomeApplies
  <1> DEFINE r == IF sink.active /\ ~nz.finalized THEN EndTurn(nz, "aborted") ELSE Result(nz)
  <1> USE DEF PipeInv
  <1>1. /\ loop = "racing" /\ nz' = r.nz
        /\ sink' = Apply(sink, r.ev).sink /\ seen' = Marked(r.ev)
        /\ jobs' = [jobs EXCEPT ![Loop] = Apply(sink, r.ev).job]
        /\ loop' = "ended" /\ race' = Off
        /\ fetch' = [k \in Turns |-> IF fetch[k] = "asked" THEN "done" ELSE fetch[k]]
        /\ send' = [k \in Turns |-> IF send[k] = "sent" THEN "failed" ELSE send[k]]
        /\ stash' = stash /\ ackRunId' = ackRunId /\ messages' = messages
    BY DEF Closes
  <1>2. /\ Kept(nz, nz, Chunks)
        /\ TurnUnmixed => Kept(nz, nz, Own(seen.turn))
    BY ObjectOfTurn
  <1>3. /\ Follows(nz, r, Chunks, {})
        /\ TurnUnmixed => Follows(nz, r, Own(seen.turn), {})
        /\ r.ev # <<>> => sink.active
    BY <1>2, EndTurnBatches, NothingFollows
  <1>4. Continues(r.nz)
    <2>1. /\ fetch \in [Turns -> {"none", "asked", "done"}]
          /\ fetch' \in [Turns -> {"none", "asked", "done"}]
      BY <1>1 DEF Typed, TypeOK
    <2> HIDE DEF r
    <2>2. QED  BY <1>1, <2>1, SameContinues
  <1>5. SendsGoOn
    BY <1>1 DEF SendsGoOn, Typed, TypeOK
  <1>6. LoopGoesOn
    BY <1>1 DEF LoopGoesOn, Typed, TypeOK
  <1>7. Loop \in Tasks /\ ~Busy(Loop)
    BY <1>1, TypedParts DEF TasksInOrder, Loop, Tasks
  <1> HIDE DEF r
  <1>8. QED  BY <1>1, <1>3, <1>4, <1>5, <1>6, <1>7, FollowsApplies

LEMMA RecoversApplies ==
  ASSUME PipeInv, ReportsInv, TextInv, NEW k \in Turns, NEW said \in {<<>>, Recovered(k)},
         Recovers(k, said)
  PROVE  SomeApplies
  <1> DEFINE r == IF sink.active THEN RecoverVisibleText(nz, said) ELSE Result(nz)
             t == Recovery(k)
  <1> USE DEF PipeInv
  <1>1. /\ fetch[k] = "asked" /\ fetch' = [fetch EXCEPT ![k] = "done"]
        /\ nz' = r.nz
        /\ sink' = Apply(sink, r.ev).sink /\ seen' = Marked(r.ev)
        /\ jobs' = [jobs EXCEPT ![t] = Apply(sink, r.ev).job]
        /\ stash' = stash /\ loop' = loop /\ race' = race /\ send' = send
        /\ ackRunId' = ackRunId /\ messages' = messages
    BY DEF Recovers
  <1>2. /\ Kept(nz, nz, Chunks)
        /\ TurnUnmixed => Kept(nz, nz, Own(seen.turn)) /\ k = seen.turn
    BY <1>1, ObjectOfTurn DEF TextInv, TurnUnmixed
  <1>3. said \in Said \cap Seq(Chunks) /\ said \in Said \cap Seq(Own(k))
    <2>1. CASE said = <<>>
      <3>1. <<>> \in Said /\ \A S : <<>> \in Seq(S)
        BY DEF Said
      <3>2. QED  BY <2>1, <3>1
    <2>2. CASE said = Recovered(k)
      BY <2>2, RunsSayTheirOwn
    <2>3. QED  BY <2>1, <2>2
  <1>4. /\ Follows(nz, r, Chunks, {})
        /\ TurnUnmixed => Follows(nz, r, Own(seen.turn), {})
        /\ r.ev # <<>> => sink.active
    <2>1. Follows(nz, r, Chunks, {})
      <3>1. CASE sink.active
        BY <1>2, <1>3, <3>1, RecoverBatches
      <3>2. CASE ~sink.active
        BY <1>2, <3>2, NothingFollows
      <3>3. QED  BY <3>1, <3>2
    <2>2. TurnUnmixed => Follows(nz, r, Own(seen.turn), {})
      <3>1. CASE sink.active
        BY <1>2, <1>3, <3>1, RecoverBatches, OwnChunks
      <3>2. CASE ~sink.active
        BY <1>2, <3>2, NothingFollows
      <3>3. QED  BY <3>1, <3>2
    <2>3. r.ev # <<>> => sink.active
      BY <1>2, NothingFollows
    <2>4. QED  BY <2>1, <2>2, <2>3
  <1>5. fetch \in [Turns -> {"none", "asked", "done"}]
    BY DEF Typed, TypeOK
  <1>6. t \in Tasks /\ ~Busy(t) /\ t # Loop
    <2>1. fetch[k] # "done"
      BY <1>1
    <2>2. t \in Tasks /\ t # Loop
      BY TypedParts DEF Recovery, Turns, Tasks, Loop
    <2>3. QED  BY <2>1, <2>2 DEF TasksInOrder
  <1> HIDE DEF r, t
  <1>7. fetch' \in [Turns -> {"none", "asked", "done"}] /\ fetch'[k] = "done"
    BY <1>1, <1>5
  <1>8. Continues(r.nz)
    BY <1>1, <1>5, <1>7, SameContinues
  <1>9. SendsGoOn
    BY <1>1, SameSends
  <1>10. LoopGoesOn
    <2>1. Loop \in Tasks
      BY TypedParts DEF Loop, Tasks
    <2>2. jobs'[Loop] = jobs[Loop]
      BY <1>1, <1>6, <2>1, TypedParts
    <2>3. loop = "racing" => jobs[Loop].writes = <<>>
      BY DEF TasksInOrder, Busy
    <2>4. QED  BY <1>1, <2>2, <2>3 DEF LoopGoesOn, Typed, TypeOK
  <1>11. \E j \in Turns : t = Recovery(j) /\ fetch'[j] = "done"
    BY <1>7 DEF t
  <1>12. QED  BY <1>1, <1>4, <1>6, <1>8, <1>9, <1>10, <1>11, FollowsApplies

(* The steps that touch no message and no job.                                *)
LEMMA RestsParts ==
  ASSUME PipeInv, sink' = sink, jobs' = jobs, messages' = messages,
         seen' = [seen EXCEPT !.missed = seen'.missed], seen'.missed \subseteq Turns,
         Continues(nz), SendsGoOn,
         stash' \in Seq(Turns), Len(stash') <= MAX_PROVENANCE_PARTS_PER_TURN,
         race' \in Nat \cup {Off},
         loop' = loop \/ (loop = "racing" /\ loop' = "racing")
  PROVE  Rests
  <1>1. loop' \in {"racing", "applying", "ended"}
    BY DEF PipeInv, Typed, TypeOK
  <1>2. loop' = "racing" => jobs'[Loop].writes = <<>>
    BY DEF PipeInv, TasksInOrder, Busy
  <1>3. LoopGoesOn
    BY <1>1, <1>2 DEF LoopGoesOn
  <1>4. QED  BY <1>3 DEF Rests

LEMMA SameSeen ==
  ASSUME Typed, seen' = seen
  PROVE  seen' = [seen EXCEPT !.missed = seen'.missed] /\ seen'.missed \subseteq Turns
  BY DEF Typed, TypeOK

LEMMA SendsRests ==
  ASSUME PipeInv, NEW k \in Turns, Sends(k) \/ SendFails(k)
  PROVE  Rests
  <1> USE DEF PipeInv
  <1>1. UNCHANGED <<nz, sink, stash, loop, race, ackRunId, fetch, jobs, messages, seen>>
    BY DEF Sends, SendFails
  <1>2. SendsGoOn
    BY ZenonT(30) DEF Sends, SendFails, SendsGoOn, Typed, TypeOK
  <1>3. Continues(nz)
    BY <1>1, SameContinues DEF Typed, TypeOK
  <1>4. QED  BY <1>1, <1>2, <1>3, SameSeen, RestsParts DEF Typed, TypeOK

LEMMA ElapsesRests ==
  ASSUME PipeInv, Elapses
  PROVE  Rests
  <1> USE DEF PipeInv
  <1>1. /\ UNCHANGED <<sink, stash, loop, send, ackRunId, fetch, jobs, messages, seen>>
        /\ nz' = Elapse(nz) /\ race' = Less(race)
    BY DEF Elapses
  <1>2. race' \in Nat \cup {Off}
    BY <1>1 DEF Typed, TypeOK, Less, Off
  <1>3. /\ nz'.finalized = nz.finalized /\ nz'.ownRunIds = nz.ownRunIds
        /\ nz'.recoveryAttempted = nz.recoveryAttempted
    BY <1>1, TypedParts, ElapseKept
  <1>4. \A S \in SUBSET Chunks : Kept(nz, nz, S) => Kept(nz', nz', S)
    BY <1>1, ElapseKept
  <1>5. fetch \in [Turns -> {"none", "asked", "done"}]
    BY DEF Typed, TypeOK
  <1>6. Continues(nz)
    BY <1>1, <1>3, <1>4, <1>5 DEF Continues
  <1>7. QED  BY <1>1, <1>2, <1>6, SameSends, SameSeen, RestsParts DEF Typed, TypeOK

LEMMA InactiveRests ==
  ASSUME PipeInv,
         \/ Ticks /\ ~sink.active
         \/ \E k \in Turns : \E f \in FramesOf(k) : FeedsInactive(k, f)
  PROVE  Rests
  <1> USE DEF PipeInv
  <1>1. /\ Iterate(nz) /\ loop = "racing"
        /\ UNCHANGED <<sink, send, ackRunId, jobs, messages>>
    BY DEF Ticks, FeedsInactive
  <1>2. Continues(nz) /\ loop' = "racing" /\ race' \in Nat \cup {Off}
    BY <1>1, TypedParts, IterateContinues DEF TurnsInOrder
  <1>3. /\ seen' = [seen EXCEPT !.missed = seen'.missed] /\ seen'.missed \subseteq Turns
        /\ stash' \in Seq(Turns) /\ Len(stash') <= MAX_PROVENANCE_PARTS_PER_TURN
    <2>1. CASE Ticks /\ ~sink.active
      BY <2>1, SameSeen DEF Ticks, Typed, TypeOK
    <2>2. CASE \E k \in Turns : \E f \in FramesOf(k) : FeedsInactive(k, f)
      <3>1. PICK k \in Turns : \E f \in FramesOf(k) : FeedsInactive(k, f)
        BY <2>2
      <3>2. PICK f \in FramesOf(k) : FeedsInactive(k, f)
        BY <3>1
      <3>3. /\ stash \in Seq(Turns) /\ Len(stash) <= MAX_PROVENANCE_PARTS_PER_TURN
            /\ seen \in SeenRecord /\ MAX_PROVENANCE_PARTS_PER_TURN \in Nat
        BY TurnPipelineAssumption DEF Typed, TypeOK, SeenRecord
      <3>4. stash' = Stashed(k, f)
        BY <3>2 DEF FeedsInactive
      <3>5. stash' \in Seq(Turns) /\ Len(stash') <= MAX_PROVENANCE_PARTS_PER_TURN
        BY <3>3, <3>4 DEF Stashed
      <3>6. seen' = seen \/ seen' = [seen EXCEPT !.missed = @ \cup {k}]
        BY <3>2 DEF FeedsInactive
      <3>7. seen' = [seen EXCEPT !.missed = seen'.missed] /\ seen'.missed \subseteq Turns
        BY <3>3, <3>6 DEF SeenRecord
      <3>8. QED  BY <3>5, <3>7
    <2>3. QED  BY <2>1, <2>2
  <1>4. QED  BY <1>1, <1>2, <1>3, SameSends, RestsParts

(* A task with a write in flight.                                             *)
LEMMA BusyParts ==
  ASSUME Typed, NEW t \in Tasks, Busy(t)
  PROVE  /\ jobs[t] \in JobRecord /\ JobSays(jobs[t], Chunks, Runs)
         /\ Len(jobs[t].writes) \in Nat \ {0}
         /\ jobs[t].message \in {NoMessage} \cup Turns
         /\ jobs[t].status \in {"none"} \cup Terminal
  <1>1. jobs[t] \in JobRecord /\ JobSays(jobs[t], Chunks, Runs)
    BY TypedParts
  <1>2. jobs[t].writes # <<>>
    BY DEF Busy
  <1>3. Len(jobs[t].writes) \in Nat \ {0}
    BY <1>1, <1>2, EmptySeq DEF JobRecord
  <1>4. QED  BY <1>1, <1>3 DEF JobRecord

(* The job of an answered write, without it.                                  *)
LEMMA RestOfJob ==
  ASSUME Typed, NEW t \in Tasks, Busy(t), NEW c, c = [jobs[t] EXCEPT !.writes = Tail(@)]
  PROVE  /\ c.message = jobs[t].message /\ c.status = jobs[t].status
         /\ c.writes = Tail(jobs[t].writes)
         /\ Len(jobs[t].writes) > 1 =>
              /\ c \in JobRecord /\ JobSays(c, Chunks, Runs)
              /\ c.writes # <<>> /\ Len(c.writes) = Len(jobs[t].writes) - 1
         /\ Len(jobs[t].writes) = 1 => c.writes = <<>>
  <1>1. /\ jobs[t] \in JobRecord /\ JobSays(jobs[t], Chunks, Runs)
        /\ Len(jobs[t].writes) \in Nat \ {0}
    BY BusyParts
  <1>2. /\ c.message = jobs[t].message /\ c.status = jobs[t].status
        /\ c.writes = Tail(jobs[t].writes)
    BY <1>1 DEF JobRecord
  <1>3. Says(jobs[t].writes, Chunks, Runs, jobs[t].status # "none")
    BY <1>1 DEF JobSays
  <1>4. ASSUME Len(jobs[t].writes) > 1
        PROVE  /\ c \in JobRecord /\ JobSays(c, Chunks, Runs)
               /\ c.writes # <<>> /\ Len(c.writes) = Len(jobs[t].writes) - 1
    <2>1. /\ Says(Tail(jobs[t].writes), Chunks, Runs, jobs[t].status # "none")
          /\ Len(Tail(jobs[t].writes)) = Len(jobs[t].writes) - 1
      BY <1>3, <1>4, RestSaid
    <2>2. JobSays(c, Chunks, Runs)
      BY <1>2, <2>1 DEF JobSays
    <2>3. c.writes \in Seq(Plain(Chunks, Runs) \cup ClosingFinal(Chunks))
      BY <1>2, <2>1 DEF Says
    <2>4. c \in JobRecord
      BY <1>1, <2>3 DEF JobRecord
    <2>5. c.writes # <<>>
      <3>1. \A n \in Nat \ {0} : n > 1 => n - 1 # 0
        OBVIOUS
      <3>2. Len(jobs[t].writes) - 1 # 0
        BY <1>1, <1>4, <3>1
      <3>3. Len(c.writes) # 0
        BY <1>2, <2>1, <3>2, Zenon
      <3>4. Len(<<>>) = 0
        OBVIOUS
      <3>5. QED  BY <3>3, <3>4
    <2>6. QED  BY <1>2, <2>1, <2>2, <2>4, <2>5
  <1>5. Len(jobs[t].writes) = 1 => c.writes = <<>>
    BY <1>2, <1>3, LastSaid
  <1>6. QED  BY <1>2, <1>4, <1>5

(* The job of a task after its write was answered.                            *)
LEMMA AnswerIssues ==
  ASSUME Typed, NEW t \in Tasks, Busy(t), NEW outcome, NEW a,
         a = AfterWrite(jobs[t], outcome),
         sink' = a.sink, jobs' = [jobs EXCEPT ![t] = a.job]
  PROVE  /\ IF outcome = "answered" /\ Len(jobs[t].writes) > 1
              THEN Issues(t, [jobs[t] EXCEPT !.writes = Tail(@)]) ELSE Drops(t)
         /\ jobs'[t] = a.job
         /\ a.job = NoJob \/ a.job.writes # <<>>
  <1> DEFINE c == [jobs[t] EXCEPT !.writes = Tail(@)]
             ok == outcome = "answered"
  <1>0. a = IF ok THEN Issue(sink, c) ELSE Unwritten(sink)
    BY DEF AfterWrite
  <1>1. Len(jobs[t].writes) \in Nat \ {0} /\ jobs \in [Tasks -> JobRecord]
    BY BusyParts, TypedParts
  <1>2. jobs'[t] = a.job
    BY <1>1
  <1>3. CASE ok /\ Len(jobs[t].writes) > 1
    <2>1. a = Issue(sink, c)
      BY <1>0, <1>3
    <2> HIDE DEF c
    <2>2. c \in JobRecord /\ JobSays(c, Chunks, Runs) /\ c.writes # <<>>
      BY <1>3, RestOfJob DEF c
    <2>3. Issues(t, c)
      BY <2>1, <2>2, JobIssued
    <2>4. a.job = NoJob \/ a.job.writes # <<>>
      <3>1. a.job = NoJob \/ a.job = c \/ a.job = [c EXCEPT !.message = sink.messageId]
        BY <2>1, <2>2, IssueEffect, TypedParts
      <3>2. [c EXCEPT !.message = sink.messageId].writes = c.writes
        BY <2>2 DEF JobRecord
      <3>3. QED  BY <2>2, <3>1, <3>2
    <2>5. QED  BY <1>2, <1>3, <2>3, <2>4 DEF c
  <1>4. CASE ~(ok /\ Len(jobs[t].writes) > 1)
    <2>1. a = Unwritten(sink)
      <3>1. CASE ~ok
        BY <1>0, <3>1
      <3>2. CASE ok
        <4>1. Len(jobs[t].writes) = 1
          <5>1. ~(Len(jobs[t].writes) > 1)
            BY <1>4, <3>2
          <5>2. \A n \in Nat \ {0} : n > 1 \/ n = 1
            OBVIOUS
          <5>3. QED  BY <1>1, <5>1, <5>2
        <4>2. c.writes = <<>>
          BY <4>1, RestOfJob
        <4>3. a = Issue(sink, c)
          BY <1>0, <3>2
        <4>4. QED  BY <4>2, <4>3 DEF Issue
      <3>3. QED  BY <3>1, <3>2
    <2>2. a.sink = sink /\ a.job = NoJob
      BY <2>1 DEF Unwritten
    <2>3. Drops(t)
      BY <2>2, JobDropped
    <2>4. QED  BY <1>2, <1>4, <2>2, <2>3
  <1>5. QED  BY <1>3, <1>4

LEMMA LoopAnswered ==
  ASSUME PipeInv, NEW outcome \in {"answered", "refused", "lost"}, LoopWritten(outcome)
  PROVE  Answered(Loop, outcome)
  <1> DEFINE a == AfterWrite(jobs[Loop], outcome)
  <1> USE DEF PipeInv
  <1>1. /\ Busy(Loop)
        /\ messages' = MessagesAfter(jobs[Loop], outcome)
        /\ sink' = a.sink
        /\ jobs' = [jobs EXCEPT ![Loop] = a.job]
        /\ seen' = MarkedWrite(jobs[Loop], outcome)
        /\ IF a.job.writes = <<>> /\ loop = "applying"
             THEN Iterate(nz)
             ELSE UNCHANGED <<nz, loop, race, fetch>>
        /\ stash' = stash /\ send' = send /\ ackRunId' = ackRunId
    BY DEF LoopWritten
  <1>2. Loop \in Tasks
    BY TypedParts DEF Loop, Tasks
  <1> HIDE DEF a
  <1>3. /\ IF outcome = "answered" /\ Len(jobs[Loop].writes) > 1
             THEN Issues(Loop, [jobs[Loop] EXCEPT !.writes = Tail(@)]) ELSE Drops(Loop)
        /\ jobs'[Loop] = a.job
    BY <1>1, <1>2, AnswerIssues DEF a
  <1>4. stash' \in Seq(Turns) /\ Len(stash') <= MAX_PROVENANCE_PARTS_PER_TURN
    BY <1>1 DEF Typed, TypeOK
  <1>5. Continues(nz) /\ LoopGoesOn
    <2>1. CASE a.job.writes = <<>> /\ loop = "applying"
      <3>1. Continues(nz) /\ loop' = "racing" /\ race' \in Nat \cup {Off}
        BY <1>1, <2>1, TypedParts, IterateContinues DEF TurnsInOrder
      <3>2. QED  BY <1>3, <1>4, <2>1, <3>1 DEF LoopGoesOn
    <2>2. CASE ~(a.job.writes = <<>> /\ loop = "applying")
      <3>1. nz' = nz /\ loop' = loop /\ race' = race /\ fetch' = fetch
        BY <1>1, <2>2
      <3>2. loop # "racing"
        BY <1>1 DEF TasksInOrder
      <3>3. Continues(nz)
        BY <3>1, SameContinues DEF Typed, TypeOK
      <3>4. QED  BY <1>4, <3>1, <3>2, <3>3 DEF LoopGoesOn, Typed, TypeOK
    <2>3. QED  BY <2>1, <2>2
  <1>6. QED  BY <1>1, <1>2, <1>3, <1>5, SameSends DEF Answered

LEMMA TaskAnswered ==
  ASSUME PipeInv, NEW t \in Tasks \ {Loop}, NEW outcome \in {"answered", "refused", "lost"},
         TaskWritten(t, outcome)
  PROVE  Answered(t, outcome)
  <1> DEFINE a == AfterWrite(jobs[t], outcome)
  <1> USE DEF PipeInv
  <1>1. /\ Busy(t)
        /\ messages' = MessagesAfter(jobs[t], outcome)
        /\ sink' = a.sink
        /\ jobs' = [jobs EXCEPT ![t] = a.job]
        /\ send' = [k \in Turns |->
                      IF t = Flush(k) /\ a.job = NoJob
                      THEN IF outcome = "answered" THEN "done" ELSE "failed"
                      ELSE send[k]]
        /\ seen' = MarkedWrite(jobs[t], outcome)
        /\ nz' = nz /\ stash' = stash /\ loop' = loop /\ race' = race /\ fetch' = fetch
        /\ ackRunId' = ackRunId
    BY DEF TaskWritten
  <1> HIDE DEF a
  <1>2. /\ IF outcome = "answered" /\ Len(jobs[t].writes) > 1
             THEN Issues(t, [jobs[t] EXCEPT !.writes = Tail(@)]) ELSE Drops(t)
        /\ jobs'[t] = a.job
    BY <1>1, AnswerIssues DEF a
  <1>3. Continues(nz)
    BY <1>1, SameContinues DEF Typed, TypeOK
  <1>4. LoopGoesOn
    <2>1. Loop \in Tasks \ {t}
      BY TypedParts DEF Loop, Tasks
    <2>2. jobs'[Loop] = jobs[Loop]
      BY <1>1, <2>1, TypedParts
    <2>3. loop = "racing" => jobs[Loop].writes = <<>>
      BY DEF TasksInOrder, Busy
    <2>4. QED  BY <1>1, <2>2, <2>3 DEF LoopGoesOn, Typed, TypeOK
  <1>5. SendsGoOn
    <2>1. \A k \in Turns : t = Flush(k) => send[k] = "flushing"
      BY <1>1 DEF TasksInOrder
    <2>2. \A k \in Turns : t = Flush(k) /\ a.job = NoJob => jobs'[Flush(k)].writes = <<>>
      BY <1>2, NoJobTyped
    <2>3. send \in [Turns -> {"idle", "sent", "starting", "flushing", "done", "failed"}]
      BY DEF Typed, TypeOK
    <2>4. send' \in [Turns -> {"idle", "sent", "starting", "flushing", "done", "failed"}]
      BY <1>1, <2>3
    <2>5. \A k \in Turns : send'[k] = send[k] \/ (t = Flush(k) /\ a.job = NoJob
                                                   /\ send'[k] \in {"done", "failed"})
      BY <1>1
    <2>6. QED  BY <1>1, <2>1, <2>2, <2>4, <2>5 DEF SendsGoOn
  <1>6. QED  BY <1>1, <1>2, <1>3, <1>4, <1>5 DEF Answered

-----------------------------------------------------------------------------
(* What a step leaves of the jobs and the messages *)

(* The other tasks keep their jobs.                                           *)
OthersKeep(t) ==
  \A u \in Tasks \ {t} :
    /\ jobs'[u] = jobs[u]
    /\ Busy(u)' <=> Busy(u)
    /\ FinalPending(u)' <=> FinalPending(u)
    /\ \A k : Issued(u, k)' <=> Issued(u, k)

NoJobLeft(t) ==
  /\ jobs'[t] = NoJob /\ ~Busy(t)' /\ ~FinalPending(t)' /\ \A k : ~Issued(t, k)'

LEMMA DropsEffect ==
  ASSUME Typed, NEW t \in Tasks, Drops(t)
  PROVE  OthersKeep(t) /\ NoJobLeft(t) /\ sink' = sink
  <1>1. /\ jobs'[t] = NoJob /\ sink' = sink
        /\ \A u \in Tasks \ {t} : jobs'[u] = jobs[u]
    BY DEF Drops, OnlyJob, Quits
  <1>2. NoJob.writes = <<>> /\ NoJob.status = "none"
    BY NoJobTyped
  <1>3. OthersKeep(t)
    BY <1>1 DEF OthersKeep, Busy, FinalPending, Issued
  <1>4. NoJobLeft(t)
    BY <1>1, <1>2 DEF NoJobLeft, Busy, FinalPending, Issued
  <1>5. QED  BY <1>1, <1>3, <1>4

LEMMA IssuesEffect ==
  ASSUME Typed, NEW t \in Tasks, NEW c \in JobRecord, JobSays(c, Chunks, Runs), Issues(t, c)
  PROVE  /\ OthersKeep(t)
         /\ \/ /\ NoJobLeft(t) /\ sink' = sink
               /\ c.status = "none" \/ (Len(c.writes) = 1 /\ ~sink.active)
            \/ /\ jobs'[t] = c /\ sink'.active = sink.active
               /\ c.status # "none" => Len(c.writes) > 1
               /\ Busy(t)' /\ (FinalPending(t)' <=> c.status # "none")
               /\ \A k : ~Issued(t, k)'
            \/ /\ c.status # "none" /\ Len(c.writes) = 1
               /\ sink.active /\ ~sink'.active
               /\ jobs'[t].message = sink.messageId /\ jobs'[t].status = c.status
               /\ jobs'[t].writes = c.writes
               /\ Busy(t)' /\ ~FinalPending(t)'
               /\ \A k : Issued(t, k)' <=> k = sink.messageId
  <1>1. /\ \A u \in Tasks \ {t} : jobs'[u] = jobs[u]
    BY DEF Issues, OnlyJob
  <1>2. NoJob.writes = <<>> /\ NoJob.status = "none"
    BY NoJobTyped
  <1>3. OthersKeep(t)
    BY <1>1 DEF OthersKeep, Busy, FinalPending, Issued
  <1>4. CASE Quits(t) /\ (c.status = "none" \/ (Len(c.writes) = 1 /\ ~sink.active))
    <2>1. NoJobLeft(t)
      BY <1>2, <1>4 DEF NoJobLeft, Quits, Busy, FinalPending, Issued
    <2>2. QED  BY <1>3, <1>4, <2>1 DEF Quits
  <1>5. CASE Proceeds(t, c)
    <2>1. Len(c.writes) \in Nat
      BY DEF JobRecord
    <2>2. \A n \in Nat : n > 1 => n # 1
      OBVIOUS
    <2>3. c.status # "none" => Len(c.writes) > 1 /\ Len(c.writes) # 1
      BY <1>5, <2>1, <2>2 DEF Proceeds
    <2>4. jobs'[t] = c /\ c.writes # <<>> /\ sink'.active = sink.active
      BY <1>5 DEF Proceeds
    <2>5. QED  BY <1>3, <2>3, <2>4 DEF Busy, FinalPending, Issued
  <1>6. CASE Finishes(t, c)
    <2>1. /\ c.status # "none" /\ Len(c.writes) = 1
          /\ sink.active /\ ~sink'.active
          /\ jobs'[t] = [c EXCEPT !.message = sink.messageId]
      BY <1>6 DEF Finishes
    <2>2. /\ jobs'[t].message = sink.messageId /\ jobs'[t].status = c.status
          /\ jobs'[t].writes = c.writes
      BY <2>1 DEF JobRecord
    <2>3. jobs'[t].writes # <<>>
      <3>1. Len(<<>>) = 0 /\ 0 # 1
        OBVIOUS
      <3>2. QED  BY <2>1, <2>2, <3>1
    <2>4. ~(1 > 1)
      OBVIOUS
    <2>5. QED  BY <1>3, <2>1, <2>2, <2>3, <2>4 DEF Busy, FinalPending, Issued
  <1>7. QED  BY <1>4, <1>5, <1>6 DEF Issues

(* The write that had its effect is the final of its message.                 *)
WritesFinal(t, outcome) ==
  outcome # "refused" /\ jobs[t].status # "none" /\ Len(jobs[t].writes) = 1

(* What the answer does to message k, in a batch that says S and reports U.    *)
WritesTo(t, outcome, k, S, U) ==
  /\ k \in Turns /\ messages[k].status # "none"
  /\ messages' \in [Turns -> Message]
  /\ \A j \in Turns : messages'[j] = messages[j] \/ (j = k /\ outcome # "refused")
  /\ messages[k].text \in Seq(S) => messages'[k].text \in Seq(S)
  /\ messages'[k].reports \subseteq messages[k].reports \cup U
  /\ WritesFinal(t, outcome) => /\ messages'[k].status \in Terminal
                                /\ messages'[k].finals = messages[k].finals + 1
  /\ ~WritesFinal(t, outcome) => /\ messages'[k].status = messages[k].status
                                 /\ messages'[k].finals = messages[k].finals
  /\ jobs[t].writes[1].type = "provenance" => messages'[k].text = messages[k].text

LEMMA AnswerWritten ==
  ASSUME PipeInv, NEW t \in Tasks, NEW outcome, Answered(t, outcome),
         NEW k, k = jobs[t].message, NEW S, S \subseteq Chunks, NEW U, U \subseteq Runs,
         JobSays(jobs[t], S, U)
  PROVE  WritesTo(t, outcome, k, S, U)
  <1> USE DEF WritesTo
  <1> DEFINE w == jobs[t].writes
             e == Head(w)
             st == jobs[t].status
             m == messages[k]
             ok == outcome # "refused"
  <1> USE DEF PipeInv
  <1>1. /\ Typed /\ Busy(t)
        /\ messages' = IF ok THEN [messages EXCEPT ![k] = Written(@, e, st)] ELSE messages
    BY DEF Answered, MessagesAfter
  <1>2. k \in Turns /\ m.status # "none"
    BY <1>1, BusyParts DEF MessagesInOrder
  <1>3. messages \in [Turns -> Message] /\ m \in Message
    BY <1>1, <1>2, TypedParts
  <1>4. /\ Len(w) \in Nat \ {0} /\ st \in {"none"} \cup Terminal
        /\ Says(w, S, U, st # "none") /\ "none" \notin Terminal
    BY <1>1, BusyParts DEF JobSays, Terminal
  <1>5. e = w[1]
    <2>1. w \in Seq(Plain(S, U) \cup ClosingFinal(S))
      BY <1>4 DEF Says
    <2>2. QED  BY <1>4, <2>1
  <1>6. \A n \in Nat \ {0} : n = 1 \/ n > 1
    OBVIOUS
  <1>7. CASE ~ok
    BY <1>1, <1>2, <1>3, <1>7 DEF WritesFinal
  <1>8. CASE WritesFinal(t, outcome)
    <2>1. ok /\ st \in Terminal /\ Len(w) = 1
      BY <1>4, <1>8 DEF WritesFinal
    <2>2. e \in ClosingFinal(S)
      BY <1>4, <2>1, LastSaid
    <2>3. messages' = [messages EXCEPT ![k] = Written(@, e, st)]
      BY <1>1, <2>1
    <2> HIDE DEF e, st, m
    <2>4. /\ Written(m, e, st) \in Message
          /\ Written(m, e, st).status = st /\ Written(m, e, st).finals = m.finals + 1
          /\ Written(m, e, st).text \in Seq(S)
          /\ Written(m, e, st).reports = m.reports
      BY <1>3, <2>1, <2>2, FinalWritten
    <2>5. /\ messages' \in [Turns -> Message]
          /\ messages'[k] = Written(m, e, st)
          /\ \A j \in Turns : messages'[j] = messages[j] \/ j = k
      BY <1>2, <1>3, <2>3, <2>4 DEF m
    <2>6. e.type # "provenance"
      BY <2>2, EventKinds
    <2>7. QED  BY <1>2, <1>5, <1>8, <2>1, <2>4, <2>5, <2>6 DEF m
  <1>9. CASE ok /\ ~WritesFinal(t, outcome)
    <2>1. e \in Plain(S, U)
      <3>1. CASE Len(w) > 1
        BY <1>4, <3>1, RestSaid
      <3>2. CASE Len(w) = 1
        <4>1. (st # "none") = FALSE
          BY <1>9, <3>2 DEF WritesFinal
        <4>2. QED  BY <1>4, <3>2, <4>1, LastSaid
      <3>3. QED  BY <1>4, <1>6, <3>1, <3>2
    <2>2. messages' = [messages EXCEPT ![k] = Written(@, e, st)]
      BY <1>1, <1>9
    <2> HIDE DEF e, st, m
    <2>3. /\ Written(m, e, st) \in Message
          /\ Written(m, e, st).status = m.status /\ Written(m, e, st).finals = m.finals
          /\ m.text \in Seq(S) => Written(m, e, st).text \in Seq(S)
          /\ Written(m, e, st).reports \subseteq m.reports \cup U
          /\ e.type = "provenance" => Written(m, e, st).text = m.text
      <3>1. ASSUME NEW x \in Message, NEW y \in Plain(S, U)
            PROVE  /\ Written(x, y, st) \in Message
                   /\ Written(x, y, st).status = x.status /\ Written(x, y, st).finals = x.finals
                   /\ x.text \in Seq(S) => Written(x, y, st).text \in Seq(S)
                   /\ Written(x, y, st).reports \subseteq x.reports \cup U
                   /\ y.type = "provenance" => Written(x, y, st).text = x.text
        BY <3>1, PlainWritten, SMTT(40)
      <3>2. QED  BY <1>3, <2>1, <3>1, Zenon
    <2>4. /\ messages' \in [Turns -> Message]
          /\ messages'[k] = Written(m, e, st)
          /\ \A j \in Turns : messages'[j] = messages[j] \/ j = k
      BY <1>2, <1>3, <2>2, <2>3 DEF m
    <2>5. QED  BY <1>2, <1>5, <1>9, <2>3, <2>4 DEF m
  <1>10. QED  BY <1>7, <1>8, <1>9

-----------------------------------------------------------------------------
(* A turn begins *)

(* Its ack names its run, or none. *)
BeginsTurn(k) == \E named \in {k, NoRun} : Begins(k, named)

LEMMA BeginsParts ==
  ASSUME PipeInv, NEW k \in Turns, BeginsTurn(k)
  PROVE  /\ \A S \in SUBSET Chunks : Kept(nz', nz', S)
         /\ ~nz'.finalized /\ nz'.ownRunIds = OwnRuns(k)'
         /\ ackRunId' \in [Turns -> Turns \cup {NoRun}] /\ ackRunId'[k] \in RunsOf(k)
         /\ \A j \in Turns \ {k} : ackRunId'[j] = ackRunId[j]
         /\ sink' \in SinkRecord /\ sink'.active /\ sink'.messageId = sink.messageId
         /\ send[k] = "sent" /\ send'[k] = "starting"
         /\ \A j \in Turns : j < k => send[j] # "sent"
         /\ \A j \in Turns \ {k} : send'[j] = send[j]
         /\ send' \in [Turns -> {"idle", "sent", "starting", "flushing", "done", "failed"}]
         /\ seen.turn < k /\ seen'.turn = k
         /\ seen'.misplaced = seen.misplaced /\ seen'.failed = seen.failed
         /\ seen'.strayed = seen.strayed
         /\ seen'.overlapped = seen.overlapped \cup Superseded(k)
         /\ seen'.crossed = seen.crossed \cup Crossed
         /\ seen'.stale <=> seen.stale \/ \E j \in Turns : fetch[j] = "asked"
         /\ seen' \in SeenRecord
         /\ UNCHANGED <<stash, loop, race, fetch, jobs, messages>>
  <1> USE DEF PipeInv
  <1>0. PICK named \in {k, NoRun} : Begins(k, named)
    BY DEF BeginsTurn
  <1>1. /\ send[k] = "sent" /\ \A j \in Turns : j < k => send[j] # "sent"
        /\ nz' = IF named = NoRun THEN BeginTurn(nz) ELSE NoteRunStarted(BeginTurn(nz), named)
        /\ ackRunId' = [ackRunId EXCEPT ![k] = named]
        /\ sink' = [sink EXCEPT !.active = TRUE, !.provenanceCount = 0]
        /\ send' = [send EXCEPT ![k] = "starting"]
        /\ seen' = [seen EXCEPT !.turn = k,
                                !.overlapped = @ \cup Superseded(k),
                                !.crossed = @ \cup Crossed,
                                !.stale = @ \/ \E j \in Turns : fetch[j] = "asked"]
        /\ UNCHANGED <<stash, loop, race, fetch, jobs, messages>>
    BY <1>0 DEF Begins
  <1>2. k \in RunIds /\ NoRun \notin RunIds /\ named \in RunIds \cup {NoRun}
    BY TypedParts, NormalizerAssumption
  <1>3. /\ \A S \in SUBSET Chunks : Kept(nz', nz', S)
        /\ ~nz'.finalized /\ nz'.ownRunIds = {named} \cap RunIds
    BY <1>1, <1>2, OwnCleaned, BeginsKept
  <1>3a. /\ ackRunId' \in [Turns -> Turns \cup {NoRun}] /\ ackRunId'[k] = named
         /\ \A j \in Turns \ {k} : ackRunId'[j] = ackRunId[j]
    BY <1>1 DEF Typed, TypeOK
  <1>3b. nz'.ownRunIds = OwnRuns(k)' /\ ackRunId'[k] \in RunsOf(k)
    BY <1>2, <1>3, <1>3a DEF OwnRuns, RunsOf
  <1>4. sink' \in SinkRecord /\ sink'.active /\ sink'.messageId = sink.messageId
    <2>1. sink \in SinkRecord
      BY TypedParts
    <2>2. 0 \in 0 .. MAX_PROVENANCE_PARTS_PER_TURN
      BY TurnPipelineAssumption
    <2>3. QED  BY <1>1, <2>1, <2>2 DEF SinkRecord
  <1>5. /\ send' \in [Turns -> {"idle", "sent", "starting", "flushing", "done", "failed"}]
        /\ send'[k] = "starting" /\ \A j \in Turns \ {k} : send'[j] = send[j]
    BY <1>1 DEF Typed, TypeOK
  <1>6. seen.turn < k
    BY <1>1 DEF TurnsInOrder
  <1>7. /\ seen'.turn = k
        /\ seen'.misplaced = seen.misplaced /\ seen'.failed = seen.failed
        /\ seen'.strayed = seen.strayed
        /\ seen'.overlapped = seen.overlapped \cup Superseded(k)
        /\ seen'.crossed = seen.crossed \cup Crossed
        /\ seen'.stale <=> seen.stale \/ \E j \in Turns : fetch[j] = "asked"
        /\ seen' \in SeenRecord
    <2>1. seen \in SeenRecord
      BY DEF Typed, TypeOK, SeenRecord
    <2>2. Superseded(k) \subseteq Turns /\ Crossed \subseteq Turns
      BY DEF Superseded, Crossed
    <2>3. k \in 0 .. MaxTurns
      BY TypedParts DEF Turns
    <2>4. QED  BY <1>1, <2>1, <2>2, <2>3 DEF SeenRecord
  <1>8. QED  BY <1>1, <1>3, <1>3a, <1>3b, <1>4, <1>5, <1>6, <1>7

(* startAssistant answers, or fails *)

(* The batch of a flush. *)
FlushBatch(run, reports) ==
  [i \in DOMAIN ReportsOf(run, reports) |->
     [type |-> "provenance", run |-> ReportsOf(run, reports)[i]]]

LEMMA ReportsWrites ==
  ASSUME NEW U, NEW run \in U, NEW reports \in Seq(Turns), NEW S,
         NEW ev, ev = FlushBatch(run, reports)
  PROVE  /\ Says(ev, S, U, FALSE) /\ Writes(ev) = ev /\ StatusOf(ev) = "none"
         /\ \A i \in 1 .. Len(ev) : ev[i].type = "provenance"
  <1> DEFINE mine == {j \in DOMAIN reports : reports[j] = run}
             n == Cardinality(mine)
             e == [type |-> "provenance", run |-> run]
  <1>1. n \in Nat
    <2>1. Len(reports) \in Nat /\ DOMAIN reports = 1 .. Len(reports)
      OBVIOUS
    <2>2. IsFiniteSet(1 .. Len(reports))
      BY <2>1, FS_Interval
    <2>3. IsFiniteSet(mine)
      BY <2>1, <2>2, FS_Subset
    <2>4. QED  BY <2>3, FS_CardinalityType
  <1>2. ReportsOf(run, reports) = [i \in 1 .. n |-> run]
    BY DEF ReportsOf
  <1> HIDE DEF n, mine
  <1>3. ev = [i \in 1 .. n |-> e]
    BY <1>2 DEF FlushBatch
  <1>4. e \in Plain(S, U) /\ e.type = "provenance"
    BY DEF Plain
  <1> HIDE DEF e
  <1>5. ev \in Seq(Plain(S, U) \cup ClosingFinal(S))
    BY <1>1, <1>3, <1>4
  <1>6. Len(ev) = n /\ \A i \in 1 .. n : ev[i] = e
    BY <1>1, <1>3
  <1>7. \A i \in 1 .. Len(ev) : ev[i].type = "provenance"
    BY <1>4, <1>6
  <1>8. ~EndsInStatus(ev)
    <2>1. ev # <<>> => Len(ev) \in 1 .. Len(ev)
      <3>1. Len(ev) = 0 => ev = <<>>
        BY <1>5, EmptySeq
      <3>2. QED  BY <1>1, <1>6, <3>1
    <2>2. QED  BY <1>7, <2>1 DEF EndsInStatus
  <1>9. QED  BY <1>5, <1>7, <1>8 DEF Says, Writes, StatusOf

(* The first report of a stash, issued. *)
Flushes(s, k, a) ==
  /\ a.sink \in SinkRecord /\ a.sink.messageId = k /\ a.sink.active = s.active
  /\ a.job \in JobRecord /\ a.job.status = "none"
  /\ a.job = NoJob \/ a.job.message = k
  /\ \A S : JobSays(a.job, S, RunsOf(k))
  /\ \A i \in 1 .. Len(a.job.writes) : a.job.writes[i].type = "provenance"

LEMMA ReportsApplied ==
  ASSUME NEW k \in Turns, NEW run \in RunsOf(k), NEW reports \in Seq(Turns),
         NEW s \in SinkRecord, s.messageId = k,
         NEW a, a = Apply(s, FlushBatch(run, reports))
  PROVE  Flushes(s, k, a)
  <1> DEFINE ev == FlushBatch(run, reports)
             c == [message |-> k, writes |-> ev, status |-> "none"]
  <1>1. /\ \A S : Says(ev, S, RunsOf(k), FALSE)
        /\ Writes(ev) = ev /\ StatusOf(ev) = "none"
        /\ \A i \in 1 .. Len(ev) : ev[i].type = "provenance"
    BY ReportsWrites
  <1> HIDE DEF ev
  <1>2. c.message = k /\ c.writes = ev /\ c.status = "none"
    OBVIOUS
  <1>3. \A S : JobSays(c, S, RunsOf(k))
    BY <1>1, <1>2 DEF JobSays
  <1>4. /\ \A i \in 1 .. Len(NoJob.writes) : NoJob.writes[i].type = "provenance"
        /\ \A S : JobSays(NoJob, S, RunsOf(k))
        /\ NoJob \in JobRecord /\ NoJob.status = "none"
    BY NoJobTyped
  <1>5. k # NoMessage
    BY TurnPipelineAssumption DEF Turns, NoMessage
  <1>6. CASE ev = <<>>
    <2>1. a = Unwritten(s)
      BY <1>1, <1>6 DEF Apply, ev
    <2>2. a.sink = s /\ a.job = NoJob
      BY <2>1 DEF Unwritten
    <2>3. QED  BY <1>4, <2>2 DEF Flushes
  <1>7. CASE ev # <<>>
    <2>1. a = Issue(s, c)
      BY <1>1, <1>5, <1>7 DEF Apply, ev
    <2>2. Says(ev, Chunks, Runs, FALSE) /\ ev \in Seq(Plain(Chunks, Runs) \cup ClosingFinal(Chunks))
      <3>1. Plain(Chunks, RunsOf(k)) \subseteq Plain(Chunks, Runs)
        BY DEF Plain, Runs, RunsOf
      <3>2. ev \in Seq(Plain(Chunks, RunsOf(k)) \cup ClosingFinal(Chunks))
        BY <1>1 DEF Says
      <3>3. \A A, B : A \subseteq B /\ ev \in Seq(A) => ev \in Seq(B)
        OBVIOUS
      <3>4. Plain(Chunks, RunsOf(k)) \cup ClosingFinal(Chunks) \subseteq Plain(Chunks, Runs) \cup ClosingFinal(Chunks)
        BY <3>1
      <3>5. ev \in Seq(Plain(Chunks, Runs) \cup ClosingFinal(Chunks))
        BY <3>2, <3>3, <3>4, Zenon
      <3>6. QED  BY <1>1, <3>5 DEF Says
    <2>3. c \in JobRecord
      BY <2>2 DEF JobRecord
    <2>4. JobSays(c, Chunks, Runs)
      BY <1>2, <2>2 DEF JobSays
    <2> HIDE DEF c
    <2>5. /\ a.sink \in SinkRecord /\ a.sink.messageId = s.messageId
          /\ \/ a.job = NoJob /\ a.sink = s
             \/ a.job = c /\ a.sink.active = s.active
      <3>1. /\ a.sink \in SinkRecord /\ a.sink.messageId = s.messageId
            /\ \/ a.job = NoJob /\ a.sink = s
               \/ a.job = c /\ a.sink.active = s.active
               \/ c.status # "none"
        BY ZenonT(30), <2>1, <2>3, <2>4, IssueEffect
      <3>2. QED  BY <1>2, <3>1
    <2>6. CASE a.job = NoJob /\ a.sink = s
      BY <1>4, <2>5, <2>6 DEF Flushes
    <2>7. CASE a.job = c /\ a.sink.active = s.active
      BY <1>1, <1>2, <1>3, <2>3, <2>5, <2>7 DEF Flushes
    <2>8. QED  BY <2>5, <2>6, <2>7
  <1>8. QED  BY <1>6, <1>7

(* What becomes of turn k, its flush and the sink. *)
Starts(k, ok) ==
  /\ send[k] = "starting" /\ messages[k] = NewMessage
  /\ \A j \in Turns : j < k => send[j] # "starting"
  /\ sink.messageId < k /\ k <= seen.turn
  /\ send' \in [Turns -> {"idle", "sent", "starting", "flushing", "done", "failed"}]
  /\ send'[k] \in {"flushing", "done", "failed"}
  /\ \A j \in Turns \ {k} : send'[j] = send[j] /\ messages'[j] = messages[j]
  /\ UNCHANGED <<nz, loop, race, ackRunId, fetch>>
  /\ seen' = IF ok THEN seen ELSE [seen EXCEPT !.failed = @ \cup {k}]
  /\ stash' \in Seq(Turns) /\ Len(stash') <= MAX_PROVENANCE_PARTS_PER_TURN
  /\ jobs' \in [Tasks -> JobRecord] /\ messages' \in [Turns -> Message]
  /\ sink' \in SinkRecord /\ sink'.active = sink.active
  /\ Flush(k) \in Tasks /\ Flush(k) # Loop /\ OthersKeep(Flush(k))
  /\ ~Busy(Flush(k)) /\ ~FinalPending(Flush(k)) /\ \A j : ~Issued(Flush(k), j)
  /\ ~FinalPending(Flush(k))' /\ \A j : ~Issued(Flush(k), j)'
  /\ jobs'[Flush(k)].status = "none"
  /\ \A S : JobSays(jobs'[Flush(k)], S, RunsOf(k))
  /\ \A i \in 1 .. Len(jobs'[Flush(k)].writes) :
       jobs'[Flush(k)].writes[i].type = "provenance"
  /\ Busy(Flush(k))' => /\ ok /\ send'[k] = "flushing"
                        /\ jobs'[Flush(k)].message = k
  /\ messages'[k].text = messages[k].text /\ messages'[k].reports = messages[k].reports
  /\ messages'[k].finals = messages[k].finals
  /\ messages'[k] = messages[k] \/ messages'[k].status = "streaming"
  /\ ok => messages'[k].status = "streaming" /\ sink'.messageId = k
  /\ ~ok => sink' = sink

LEMMA StartedParts ==
  ASSUME PipeInv, NEW k \in Turns, NEW ok \in BOOLEAN,
         IF ok THEN Started(k) ELSE \E outcome : StartFails(k, outcome)
  PROVE  Starts(k, ok)
  <1> USE DEF PipeInv
  <1>1. /\ send[k] = "starting" /\ \A j \in Turns : j < k => send[j] # "starting"
        /\ UNCHANGED <<nz, loop, race, ackRunId, fetch>>
    BY DEF Started, StartFails
  <1>2. /\ messages[k].status = "none" /\ messages[k] = NewMessage
        /\ sink.messageId < k /\ k <= seen.turn
    BY <1>1 DEF TurnsInOrder, MessagesInOrder
  <1>3. /\ send \in [Turns -> {"idle", "sent", "starting", "flushing", "done", "failed"}]
        /\ stash \in Seq(Turns) /\ Len(stash) <= MAX_PROVENANCE_PARTS_PER_TURN
        /\ messages \in [Turns -> Message] /\ jobs \in [Tasks -> JobRecord]
        /\ sink \in SinkRecord /\ ackRunId[k] \in RunsOf(k)
    BY TypedParts DEF Typed, TypeOK, TurnsInOrder
  <1>4. Flush(k) \in Tasks /\ Flush(k) # Loop
    BY TypedParts DEF Flush, Tasks, Loop, Turns
  <1>5. ~Busy(Flush(k)) /\ jobs[Flush(k)].status = "none"
    BY <1>1 DEF TasksInOrder
  <1>6. ~FinalPending(Flush(k)) /\ \A j : ~Issued(Flush(k), j)
    BY <1>5 DEF FinalPending, Issued
  <1>6a. messages' = [messages EXCEPT ![k].status = "streaming"] =>
           /\ messages' \in [Turns -> Message]
           /\ messages'[k].status = "streaming" /\ messages'[k].text = messages[k].text
           /\ messages'[k].reports = messages[k].reports
           /\ messages'[k].finals = messages[k].finals
           /\ \A j \in Turns \ {k} : messages'[j] = messages[j]
    <2>1. \A m \in Message : [m EXCEPT !.status = "streaming"]
                               \in [status : {"streaming"}, text : {m.text},
                                    reports : {m.reports}, finals : {m.finals}] \cap Message
      BY DEF Message, Statuses
    <2>2. HAVE messages' = [messages EXCEPT ![k].status = "streaming"]
    <2>3. messages' = [messages EXCEPT ![k] = [messages[k] EXCEPT !.status = "streaming"]]
      BY <2>2
    <2>4. [messages[k] EXCEPT !.status = "streaming"]
            \in [status : {"streaming"}, text : {messages[k].text},
                 reports : {messages[k].reports}, finals : {messages[k].finals}] \cap Message
      BY <1>3, <2>1
    <2>5. /\ messages' \in [Turns -> Message]
          /\ messages'[k] = [messages[k] EXCEPT !.status = "streaming"]
          /\ \A j \in Turns \ {k} : messages'[j] = messages[j]
      BY <1>3, <2>3, <2>4
    <2>6. QED  BY <2>4, <2>5
  <1>7. CASE ~ok
    <2>1. /\ send' = [send EXCEPT ![k] = "failed"] /\ UNCHANGED <<sink, stash, jobs>>
          /\ seen' = [seen EXCEPT !.failed = @ \cup {k}]
          /\ messages' = messages \/ messages' = [messages EXCEPT ![k].status = "streaming"]
      BY <1>7 DEF StartFails
    <2>2. OthersKeep(Flush(k))
      BY <2>1 DEF OthersKeep, Busy, FinalPending, Issued
    <2>3. /\ ~Busy(Flush(k))' /\ ~FinalPending(Flush(k))' /\ \A j : ~Issued(Flush(k), j)'
          /\ jobs'[Flush(k)] = jobs[Flush(k)]
      BY <1>5, <1>6, <2>1 DEF Busy, FinalPending, Issued
    <2>4. jobs[Flush(k)].writes = <<>>
      BY <1>5 DEF Busy
    <2>5. /\ \A S : JobSays(jobs[Flush(k)], S, RunsOf(k))
          /\ \A i \in 1 .. Len(jobs[Flush(k)].writes) :
               jobs[Flush(k)].writes[i].type = "provenance"
      <3>1. \A S : Says(<<>>, S, RunsOf(k), FALSE) /\ Len(<<>>) = 0
        BY NothingSaid
      <3>2. (jobs[Flush(k)].status # "none") = FALSE
        BY <1>5
      <3>3. \A S : JobSays(jobs[Flush(k)], S, RunsOf(k))
        BY <2>4, <3>1, <3>2, Zenon DEF JobSays
      <3>4. \A i \in 1 .. Len(jobs[Flush(k)].writes) : FALSE
        BY <2>4
      <3>5. QED  BY <3>3, <3>4
    <2>6. /\ send' \in [Turns -> {"idle", "sent", "starting", "flushing", "done", "failed"}]
          /\ send'[k] \in {"flushing", "done", "failed"}
          /\ \A j \in Turns \ {k} : send'[j] = send[j]
      BY <1>3, <2>1
    <2>7. /\ messages' \in [Turns -> Message]
          /\ messages'[k] = messages[k] \/ messages'[k].status = "streaming"
          /\ messages'[k].text = messages[k].text
          /\ messages'[k].reports = messages[k].reports
          /\ messages'[k].finals = messages[k].finals
          /\ \A j \in Turns \ {k} : messages'[j] = messages[j]
      BY <1>2, <1>3, <1>6a, <2>1
    <2>8. QED  BY <1>1, <1>2, <1>3, <1>4, <1>5, <1>6, <1>7, <2>1, <2>2, <2>3, <2>5, <2>6, <2>7
               DEF Starts
  <1>8. CASE ok
    <2> DEFINE s == [sink EXCEPT !.messageId = k]
               a == Apply(s, FlushBatch(ackRunId[k], stash))
    <2>1. /\ messages' = [messages EXCEPT ![k].status = "streaming"]
          /\ sink' = a.sink /\ stash' = <<>>
          /\ jobs' = [jobs EXCEPT ![Flush(k)] = a.job]
          /\ send' = [send EXCEPT ![k] = IF a.job = NoJob THEN "done" ELSE "flushing"]
          /\ seen' = seen
      BY <1>8 DEF Started, FlushBatch
    <2>2. s \in SinkRecord /\ s.messageId = k /\ s.active = sink.active
      BY <1>3 DEF SinkRecord
    <2> HIDE DEF s
    <2>3. /\ a.sink \in SinkRecord /\ a.sink.messageId = k /\ a.sink.active = s.active
          /\ a.job \in JobRecord /\ a.job.status = "none"
          /\ a.job = NoJob \/ a.job.message = k
          /\ \A S : JobSays(a.job, S, RunsOf(k))
          /\ \A i \in 1 .. Len(a.job.writes) : a.job.writes[i].type = "provenance"
      <3>1. a = Apply(s, FlushBatch(ackRunId[k], stash))
        OBVIOUS
      <3> HIDE DEF a
      <3>2. stash \in Seq(Turns)
        BY <1>3
      <3>3. s \in SinkRecord /\ s.messageId = k
        BY <2>2
      <3>4. Flushes(s, k, a)
        BY <1>3, <3>1, <3>2, <3>3, ReportsApplied
      <3>5. QED  BY <3>4 DEF Flushes
    <2> HIDE DEF a
    <2>4. /\ jobs' \in [Tasks -> JobRecord] /\ jobs'[Flush(k)] = a.job
          /\ \A u \in Tasks \ {Flush(k)} : jobs'[u] = jobs[u]
      BY <1>3, <1>4, <2>1, <2>3
    <2>5. OthersKeep(Flush(k))
      BY <2>4 DEF OthersKeep, Busy, FinalPending, Issued
    <2>6. ~FinalPending(Flush(k))' /\ \A j : ~Issued(Flush(k), j)'
      BY <2>3, <2>4 DEF FinalPending, Issued
    <2>7. Busy(Flush(k))' => a.job # NoJob
      BY <2>4, NoJobTyped DEF Busy
    <2>8. /\ send' \in [Turns -> {"idle", "sent", "starting", "flushing", "done", "failed"}]
          /\ send'[k] = (IF a.job = NoJob THEN "done" ELSE "flushing")
          /\ \A j \in Turns \ {k} : send'[j] = send[j]
      BY <1>3, <2>1
    <2>9. /\ messages' \in [Turns -> Message]
          /\ messages'[k].status = "streaming" /\ messages'[k].text = messages[k].text
          /\ messages'[k].reports = messages[k].reports
          /\ messages'[k].finals = messages[k].finals
          /\ \A j \in Turns \ {k} : messages'[j] = messages[j]
      BY <1>6a, <2>1
    <2>10. stash' \in Seq(Turns) /\ Len(stash') <= MAX_PROVENANCE_PARTS_PER_TURN
      BY <2>1, TurnPipelineAssumption
    <2>11. /\ sink' \in SinkRecord /\ sink'.active = sink.active /\ sink'.messageId = k
      BY <2>1, <2>2, <2>3
    <2>12. QED  BY <1>1, <1>2, <1>4, <1>5, <1>6, <1>8, <2>1, <2>3, <2>4, <2>5, <2>6, <2>7, <2>8,
                   <2>9, <2>10, <2>11
               DEF Starts
  <1>9. QED  BY <1>7, <1>8

-----------------------------------------------------------------------------
(* Every step keeps the state typed *)

LEMMA TypedNext ==
  ASSUME Kept(nz', nz', Chunks), sink' \in SinkRecord,
         stash' \in Seq(Turns), Len(stash') <= MAX_PROVENANCE_PARTS_PER_TURN,
         loop' \in {"racing", "applying", "ended"}, race' \in Nat \cup {Off},
         send' \in [Turns -> {"idle", "sent", "starting", "flushing", "done", "failed"}],
         ackRunId' \in [Turns -> Turns \cup {NoRun}],
         fetch' \in [Turns -> {"none", "asked", "done"}],
         jobs' \in [Tasks -> JobRecord],
         \A t \in Tasks : JobSays(jobs'[t], Chunks, Runs),
         messages' \in [Turns -> Message], seen' \in SeenRecord
  PROVE  Typed'
  <1>1. nz' \in Normalizer
    BY DEF Kept
  <1>2. DOMAIN jobs' = Tasks
    OBVIOUS
  <1>3. \A t \in Tasks :
          /\ jobs'[t].message \in {NoMessage} \cup Turns
          /\ jobs'[t].status \in {"none"} \cup Terminal
          /\ \A i \in DOMAIN jobs'[t].writes : jobs'[t].writes[i].type # "run.status"
    <2> SUFFICES ASSUME NEW t \in Tasks
                 PROVE  /\ jobs'[t].message \in {NoMessage} \cup Turns
                        /\ jobs'[t].status \in {"none"} \cup Terminal
                        /\ \A i \in DOMAIN jobs'[t].writes : jobs'[t].writes[i].type # "run.status"
      OBVIOUS
    <2>1. jobs'[t] \in JobRecord
      OBVIOUS
    <2>2. jobs'[t].writes \in Seq(Plain(Chunks, Runs) \cup ClosingFinal(Chunks))
      BY <2>1 DEF JobRecord
    <2>3. \A i \in DOMAIN jobs'[t].writes :
            jobs'[t].writes[i] \in Plain(Chunks, Runs) \cup ClosingFinal(Chunks)
      BY <2>2
    <2>4. \A i \in DOMAIN jobs'[t].writes : jobs'[t].writes[i].type # "run.status"
      BY <2>3, EventKinds
    <2>5. QED  BY <2>1, <2>4 DEF JobRecord
  <1>4. TypeOK'
    BY <1>1, <1>2, <1>3 DEF TypeOK, SinkRecord, Message, SeenRecord, Runs
  <1>5. QED  BY <1>4 DEF Typed

LEMMA SeenTyped ==
  ASSUME Typed
  PROVE  seen \in SeenRecord
  BY DEF Typed, TypeOK, SeenRecord

LEMMA AcksTyped ==
  ASSUME Typed, ackRunId' = ackRunId
  PROVE  ackRunId' \in [Turns -> Turns \cup {NoRun}]
  BY DEF Typed, TypeOK

LEMMA RestsTyped ==
  ASSUME PipeInv, Rests
  PROVE  Typed' /\ seen'.turn = seen.turn /\ seen'.misplaced = seen.misplaced
         /\ seen'.overlapped = seen.overlapped
         /\ seen'.crossed = seen.crossed /\ seen'.failed = seen.failed
         /\ seen'.stale = seen.stale /\ seen'.strayed = seen.strayed
  <1> USE DEF PipeInv
  <1>1. /\ Continues(nz) /\ SendsGoOn /\ LoopGoesOn
        /\ sink' = sink /\ jobs' = jobs /\ messages' = messages
        /\ seen' = [seen EXCEPT !.missed = seen'.missed] /\ seen'.missed \subseteq Turns
    BY DEF Rests
  <1>2. /\ Kept(nz, nz, Chunks) /\ sink \in SinkRecord /\ messages \in [Turns -> Message]
        /\ jobs \in [Tasks -> JobRecord] /\ \A t \in Tasks : JobSays(jobs[t], Chunks, Runs)
        /\ seen \in SeenRecord
    BY TypedParts, SeenTyped
  <1>3. /\ seen' \in SeenRecord
        /\ seen'.turn = seen.turn /\ seen'.misplaced = seen.misplaced
        /\ seen'.overlapped = seen.overlapped
        /\ seen'.crossed = seen.crossed /\ seen'.failed = seen.failed
        /\ seen'.stale = seen.stale /\ seen'.strayed = seen.strayed
    BY <1>1, <1>2 DEF SeenRecord
  <1>4. Kept(nz', nz', Chunks)
    BY <1>1, <1>2 DEF Continues
  <1>5. Typed'
    BY <1>1, <1>2, <1>3, <1>4, AcksTyped, TypedNext DEF Continues, SendsGoOn, LoopGoesOn
  <1>6. QED  BY <1>3, <1>5

(* The tasks of a step that moves one of them. *)
LEMMA OnlyJobTyped ==
  ASSUME Typed, NEW t \in Tasks, OnlyJob(t)
  PROVE  /\ jobs' \in [Tasks -> JobRecord] /\ sink' \in SinkRecord
         /\ sink'.messageId = sink.messageId
         /\ \A u \in Tasks : JobSays(jobs'[u], Chunks, Runs)
  <1>1. \A u \in Tasks \ {t} : JobSays(jobs'[u], Chunks, Runs)
    BY TypedParts DEF OnlyJob
  <1>2. QED  BY <1>1 DEF OnlyJob

LEMMA AppliesTyped ==
  ASSUME PipeInv, NEW t, NEW n, NEW w, NEW st, Applies(t, n, w, st)
  PROVE  /\ Typed' /\ OnlyJob(t) /\ sink'.messageId = sink.messageId
         /\ seen'.turn = seen.turn
         /\ seen'.misplaced = IF w = <<>> THEN seen.misplaced
                              ELSE seen.misplaced \cup Homeless
         /\ seen'.overlapped = seen.overlapped
         /\ seen'.crossed = seen.crossed /\ seen'.failed = seen.failed
         /\ seen'.stale = seen.stale /\ seen.strayed \subseteq seen'.strayed
  <1> USE DEF PipeInv
  <1>1. /\ t \in Tasks /\ Continues(n) /\ SendsGoOn /\ LoopGoesOn /\ Kept(n, n, Chunks)
        /\ IF sink.messageId = NoMessage \/ w = <<>> THEN Drops(t)
           ELSE Issues(t, [message |-> sink.messageId, writes |-> w, status |-> st])
        /\ seen' = [seen EXCEPT !.misplaced = IF w = <<>> THEN @ ELSE @ \cup Homeless,
                                !.strayed = seen'.strayed]
        /\ seen'.strayed \subseteq Turns /\ seen.strayed \subseteq seen'.strayed
        /\ messages' = messages
    BY DEF Applies
  <1>2. OnlyJob(t)
    BY <1>1 DEF Drops, Issues
  <1>3. /\ jobs' \in [Tasks -> JobRecord] /\ sink' \in SinkRecord
        /\ sink'.messageId = sink.messageId
        /\ \A u \in Tasks : JobSays(jobs'[u], Chunks, Runs)
    BY <1>1, <1>2, OnlyJobTyped
  <1>4. /\ seen' \in SeenRecord /\ seen'.turn = seen.turn
        /\ seen'.misplaced = IF w = <<>> THEN seen.misplaced ELSE seen.misplaced \cup Homeless
        /\ seen'.overlapped = seen.overlapped
        /\ seen'.crossed = seen.crossed /\ seen'.failed = seen.failed
        /\ seen'.stale = seen.stale
    <2>1. seen \in SeenRecord
      BY SeenTyped
    <2>2. Homeless \subseteq Turns
      BY DEF Homeless, Starting
    <2>3. QED  BY <1>1, <2>1, <2>2 DEF SeenRecord
  <1>5. messages \in [Turns -> Message]
    BY TypedParts
  <1>6. Kept(nz', nz', Chunks)
    BY <1>1 DEF Continues
  <1>7. Typed'
    BY <1>1, <1>3, <1>4, <1>5, <1>6, AcksTyped, TypedNext DEF Continues, SendsGoOn, LoopGoesOn
  <1>8. QED  BY <1>1, <1>2, <1>3, <1>4, <1>7

LEMMA AnsweredTyped ==
  ASSUME PipeInv, NEW t, NEW outcome, Answered(t, outcome)
  PROVE  /\ Typed' /\ OnlyJob(t) /\ sink'.messageId = sink.messageId
         /\ t \in Tasks /\ outcome \in {"answered", "refused", "lost"}
         /\ seen'.turn = seen.turn /\ seen'.misplaced = seen.misplaced
         /\ seen'.overlapped = seen.overlapped /\ seen'.crossed = seen.crossed
         /\ outcome = "answered" \/ jobs[t].status = "none" => seen'.failed = seen.failed
         /\ outcome # "answered" /\ jobs[t].status # "none"
              => seen'.failed = seen.failed \cup {jobs[t].message}
         /\ seen'.stale = seen.stale /\ seen'.strayed = seen.strayed
  <1> USE DEF PipeInv
  <1>1. /\ t \in Tasks /\ outcome \in {"answered", "refused", "lost"} /\ Busy(t)
        /\ Continues(nz) /\ SendsGoOn /\ LoopGoesOn
        /\ seen' = MarkedWrite(jobs[t], outcome)
    BY DEF Answered
  <1>2. OnlyJob(t)
    BY DEF Answered, Drops, Issues
  <1>3. /\ jobs' \in [Tasks -> JobRecord] /\ sink' \in SinkRecord
        /\ sink'.messageId = sink.messageId
        /\ \A u \in Tasks : JobSays(jobs'[u], Chunks, Runs)
    BY <1>1, <1>2, OnlyJobTyped
  <1>4. JobSays(jobs[t], Chunks, Runs) /\ Kept(nz, nz, Chunks)
    BY <1>1, TypedParts
  <1>5. jobs[t].message \in Turns /\ messages' \in [Turns -> Message]
    BY <1>1, <1>4, AnswerWritten DEF WritesTo
  <1>6. /\ seen' \in SeenRecord /\ seen'.turn = seen.turn
        /\ seen'.misplaced = seen.misplaced
        /\ seen'.overlapped = seen.overlapped /\ seen'.crossed = seen.crossed
        /\ outcome = "answered" \/ jobs[t].status = "none" => seen'.failed = seen.failed
        /\ outcome # "answered" /\ jobs[t].status # "none"
              => seen'.failed = seen.failed \cup {jobs[t].message}
        /\ seen'.stale = seen.stale /\ seen'.strayed = seen.strayed
    BY <1>1, <1>5, SeenTyped DEF SeenRecord, MarkedWrite
  <1>7. Kept(nz', nz', Chunks)
    BY <1>1, <1>4 DEF Continues
  <1>8. Typed'
    BY <1>1, <1>3, <1>5, <1>6, <1>7, AcksTyped, TypedNext DEF Continues, SendsGoOn, LoopGoesOn
  <1>9. QED  BY <1>1, <1>2, <1>3, <1>6, <1>8

LEMMA BeginsTyped ==
  ASSUME PipeInv, NEW k \in Turns, BeginsTurn(k)
  PROVE  Typed'
  <1> USE DEF PipeInv
  <1>1. /\ Kept(nz', nz', Chunks) /\ sink' \in SinkRecord /\ seen' \in SeenRecord
        /\ send' \in [Turns -> {"idle", "sent", "starting", "flushing", "done", "failed"}]
        /\ UNCHANGED <<stash, loop, race, fetch, jobs, messages>>
        /\ ackRunId' \in [Turns -> Turns \cup {NoRun}]
    BY BeginsParts
  <1>2. /\ stash \in Seq(Turns) /\ Len(stash) <= MAX_PROVENANCE_PARTS_PER_TURN
        /\ loop \in {"racing", "applying", "ended"} /\ race \in Nat \cup {Off}
        /\ fetch \in [Turns -> {"none", "asked", "done"}]
    BY DEF Typed, TypeOK
  <1>3. /\ jobs \in [Tasks -> JobRecord] /\ messages \in [Turns -> Message]
        /\ \A t \in Tasks : JobSays(jobs[t], Chunks, Runs)
    BY TypedParts
  <1>4. QED  BY <1>1, <1>2, <1>3, TypedNext

LEMMA StartedTyped ==
  ASSUME PipeInv, NEW k \in Turns, NEW ok \in BOOLEAN, Starts(k, ok)
  PROVE  /\ Typed' /\ seen'.turn = seen.turn /\ seen'.misplaced = seen.misplaced
         /\ seen'.overlapped = seen.overlapped /\ seen'.crossed = seen.crossed
         /\ seen'.stale = seen.stale /\ seen'.strayed = seen.strayed
         /\ seen'.failed = IF ok THEN seen.failed ELSE seen.failed \cup {k}
  <1> USE DEF PipeInv
  <1>1. /\ UNCHANGED <<nz, loop, race, ackRunId, fetch>>
        /\ seen' = IF ok THEN seen ELSE [seen EXCEPT !.failed = @ \cup {k}]
        /\ send' \in [Turns -> {"idle", "sent", "starting", "flushing", "done", "failed"}]
        /\ stash' \in Seq(Turns) /\ Len(stash') <= MAX_PROVENANCE_PARTS_PER_TURN
        /\ jobs' \in [Tasks -> JobRecord] /\ messages' \in [Turns -> Message]
        /\ sink' \in SinkRecord
        /\ Flush(k) \in Tasks /\ OthersKeep(Flush(k))
        /\ JobSays(jobs'[Flush(k)], Chunks, RunsOf(k))
    BY DEF Starts
  <1>2. /\ loop \in {"racing", "applying", "ended"} /\ race \in Nat \cup {Off}
        /\ fetch \in [Turns -> {"none", "asked", "done"}]
    BY DEF Typed, TypeOK
  <1>3. Kept(nz, nz, Chunks) /\ \A t \in Tasks : JobSays(jobs[t], Chunks, Runs)
    BY TypedParts
  <1>4. JobSays(jobs'[Flush(k)], Chunks, Runs)
    <2>1. jobs'[Flush(k)] \in JobRecord
      BY <1>1
    <2>2. QED  BY <1>1, <2>1 DEF JobSays, Says, JobRecord
  <1>5. \A t \in Tasks : JobSays(jobs'[t], Chunks, Runs)
    BY <1>3, <1>4, <1>1 DEF OthersKeep
  <1>6. /\ seen' \in SeenRecord
        /\ seen'.turn = seen.turn /\ seen'.misplaced = seen.misplaced
        /\ seen'.overlapped = seen.overlapped /\ seen'.crossed = seen.crossed
        /\ seen'.stale = seen.stale /\ seen'.strayed = seen.strayed
        /\ seen'.failed = IF ok THEN seen.failed ELSE seen.failed \cup {k}
    BY <1>1, SeenTyped DEF SeenRecord
  <1>7. Typed'
    BY <1>1, <1>2, <1>3, <1>5, <1>6, AcksTyped, TypedNext
  <1>8. QED  BY <1>6, <1>7

-----------------------------------------------------------------------------
(* The jobs after a batch is applied, and after a write is answered *)

(* What the job of t is, when it is issued to m with the writes w.            *)
JobLeft(t, m, w, st) ==
  /\ Busy(t)' /\ jobs'[t].message = m /\ jobs'[t].writes = w /\ jobs'[t].status = st

LEMMA IdleTask ==
  ASSUME Typed, NEW t \in Tasks, ~Busy(t)
  PROVE  ~FinalPending(t) /\ \A k : ~Issued(t, k)
  <1>1. jobs[t].writes = <<>>
    BY DEF Busy
  <1>2. Len(<<>>) = 0 /\ ~(0 > 1) /\ 0 # 1
    OBVIOUS
  <1>3. ~(Len(jobs[t].writes) > 1) /\ Len(jobs[t].writes) # 1
    BY <1>1, <1>2
  <1>4. QED  BY <1>3 DEF FinalPending, Issued

LEMMA AppliesEffect ==
  ASSUME PipeInv, NEW t, NEW n, NEW w, NEW st, Applies(t, n, w, st)
  PROVE  /\ t \in Tasks /\ ~Busy(t) /\ ~FinalPending(t) /\ \A k : ~Issued(t, k)
         /\ OthersKeep(t) /\ (w = <<>> => st = "none")
         /\ \/ NoJobLeft(t) /\ sink' = sink /\ (st = "none" \/ sink.messageId = NoMessage)
            \/ /\ w # <<>> /\ sink.messageId # NoMessage
               /\ JobLeft(t, sink.messageId, w, st) /\ sink'.active = sink.active
               /\ FinalPending(t)' <=> st # "none"
               /\ \A k : ~Issued(t, k)'
            \/ /\ w # <<>> /\ sink.messageId # NoMessage /\ st # "none"
               /\ JobLeft(t, sink.messageId, w, st)
               /\ sink.active /\ ~sink'.active
               /\ ~FinalPending(t)' /\ \A k : Issued(t, k)' <=> k = sink.messageId
  <1> DEFINE c == [message |-> sink.messageId, writes |-> w, status |-> st]
  <1> USE DEF PipeInv
  <1>1. /\ t \in Tasks /\ ~Busy(t) /\ st \in {"none"} \cup Terminal
        /\ Says(w, Chunks, Runs, st # "none") /\ (w # <<>> => sink.active)
        /\ IF sink.messageId = NoMessage \/ w = <<>> THEN Drops(t) ELSE Issues(t, c)
    BY DEF Applies
  <1>2. ~FinalPending(t) /\ \A k : ~Issued(t, k)
    BY <1>1, IdleTask
  <1>3. w = <<>> => st = "none"
    BY <1>1 DEF Says
  <1>4. CASE sink.messageId = NoMessage \/ w = <<>>
    BY <1>1, <1>2, <1>3, <1>4, DropsEffect
  <1>5. CASE sink.messageId # NoMessage /\ w # <<>>
    <2>1. c.message = sink.messageId /\ c.writes = w /\ c.status = st
      OBVIOUS
    <2>2. c \in JobRecord
      BY <1>1, TypedParts DEF JobRecord, Says
    <2>3. Issues(t, c) /\ sink.active
      BY <1>1, <1>5
    <2> HIDE DEF c
    <2>4. JobSays(c, Chunks, Runs)
      BY <1>1, <2>1 DEF JobSays
    <2>5. OthersKeep(t)
      BY <1>1, <2>2, <2>3, <2>4, IssuesEffect
    <2>6. \/ NoJobLeft(t) /\ sink' = sink /\ c.status = "none"
          \/ /\ jobs'[t] = c /\ sink'.active = sink.active
             /\ Busy(t)' /\ (FinalPending(t)' <=> c.status # "none")
             /\ \A k : ~Issued(t, k)'
          \/ /\ c.status # "none" /\ ~sink'.active
             /\ jobs'[t].message = sink.messageId /\ jobs'[t].status = c.status
             /\ jobs'[t].writes = c.writes
             /\ Busy(t)' /\ ~FinalPending(t)'
             /\ \A k : Issued(t, k)' <=> k = sink.messageId
      BY <1>1, <2>2, <2>3, <2>4, IssuesEffect
    <2>7. QED  BY <1>1, <1>2, <1>3, <1>5, <2>1, <2>3, <2>5, <2>6 DEF JobLeft
  <1>6. QED  BY <1>4, <1>5

LEMMA AnsweredEffect ==
  ASSUME PipeInv, NEW t, NEW outcome, Answered(t, outcome)
  PROVE  /\ t \in Tasks /\ Busy(t) /\ OthersKeep(t)
         /\ \/ /\ NoJobLeft(t) /\ sink' = sink
               /\ outcome = "answered" => \/ Len(jobs[t].writes) = 1 \/ jobs[t].status = "none" \/ ~sink.active
            \/ /\ outcome = "answered" /\ Len(jobs[t].writes) > 1
               /\ JobLeft(t, jobs[t].message, Tail(jobs[t].writes), jobs[t].status)
               /\ sink'.active = sink.active
               /\ FinalPending(t)' <=> FinalPending(t)
               /\ FinalPending(t) <=> jobs[t].status # "none"
               /\ \A k : ~Issued(t, k)'
            \/ /\ outcome = "answered" /\ FinalPending(t) /\ Len(jobs[t].writes) > 1
               /\ JobLeft(t, sink.messageId, Tail(jobs[t].writes), jobs[t].status)
               /\ sink.active /\ ~sink'.active
               /\ ~FinalPending(t)' /\ \A k : Issued(t, k)' <=> k = sink.messageId
  <1> DEFINE c == [jobs[t] EXCEPT !.writes = Tail(@)]
  <1> USE DEF PipeInv
  <1>1. /\ t \in Tasks /\ Busy(t) /\ outcome \in {"answered", "refused", "lost"}
        /\ IF outcome = "answered" /\ Len(jobs[t].writes) > 1 THEN Issues(t, c) ELSE Drops(t)
    BY DEF Answered
  <1>2. Len(jobs[t].writes) \in Nat \ {0}
    BY <1>1, BusyParts
  <1>3. CASE ~(outcome = "answered" /\ Len(jobs[t].writes) > 1)
    <2>1. OthersKeep(t) /\ NoJobLeft(t) /\ sink' = sink
      BY <1>1, <1>3, DropsEffect
    <2>2. \A l \in Nat \ {0} : l > 1 \/ l = 1
      OBVIOUS
    <2>3. outcome = "answered" => Len(jobs[t].writes) = 1
      BY <1>2, <1>3, <2>2, Zenon
    <2>4. QED  BY <1>1, <2>1, <2>3
  <1>4. CASE outcome = "answered" /\ Len(jobs[t].writes) > 1
    <2>1. Issues(t, c)
      BY <1>1, <1>4
    <2> HIDE DEF c
    <2>2. /\ c.message = jobs[t].message /\ c.status = jobs[t].status
          /\ c.writes = Tail(jobs[t].writes)
          /\ c \in JobRecord /\ JobSays(c, Chunks, Runs)
          /\ c.writes # <<>>
      BY <1>1, <1>4, RestOfJob DEF c
    <2>3. OthersKeep(t)
      BY <1>1, <2>1, <2>2, IssuesEffect
    <2>4. \/ NoJobLeft(t) /\ sink' = sink /\ (c.status = "none" \/ ~sink.active)
          \/ /\ jobs'[t] = c /\ sink'.active = sink.active
             /\ Busy(t)' /\ (FinalPending(t)' <=> c.status # "none")
             /\ \A k : ~Issued(t, k)'
          \/ /\ c.status # "none" /\ sink.active /\ ~sink'.active
             /\ jobs'[t].message = sink.messageId /\ jobs'[t].status = c.status
             /\ jobs'[t].writes = c.writes
             /\ Busy(t)' /\ ~FinalPending(t)'
             /\ \A k : Issued(t, k)' <=> k = sink.messageId
      BY <1>1, <2>1, <2>2, IssuesEffect
    <2>5. FinalPending(t) <=> jobs[t].status # "none"
      BY <1>4 DEF FinalPending
    <2>6. CASE NoJobLeft(t) /\ sink' = sink /\ (c.status = "none" \/ ~sink.active)
      BY <1>1, <2>2, <2>3, <2>6
    <2>7. CASE /\ jobs'[t] = c /\ sink'.active = sink.active
               /\ Busy(t)' /\ (FinalPending(t)' <=> c.status # "none")
               /\ \A k : ~Issued(t, k)'
      BY <1>1, <1>4, <2>2, <2>3, <2>5, <2>7 DEF JobLeft
    <2>8. CASE /\ c.status # "none" /\ sink.active /\ ~sink'.active
               /\ jobs'[t].message = sink.messageId /\ jobs'[t].status = c.status
               /\ jobs'[t].writes = c.writes
               /\ Busy(t)' /\ ~FinalPending(t)'
               /\ \A k : Issued(t, k)' <=> k = sink.messageId
      BY <1>1, <1>4, <2>2, <2>3, <2>5, <2>8 DEF JobLeft
    <2>9. QED  BY <2>4, <2>6, <2>7, <2>8
  <1>5. QED  BY <1>3, <1>4

-----------------------------------------------------------------------------
(* The tasks stay in order *)

LEMMA TaskKinds ==
  /\ Loop \in Tasks
  /\ \A k \in Turns : /\ Flush(k) \in Tasks /\ Recovery(k) \in Tasks
                      /\ Flush(k) # Loop /\ Recovery(k) # Loop
                      /\ \A j \in Turns : /\ Flush(k) # Recovery(j)
                                          /\ Flush(k) = Flush(j) => k = j
                                          /\ Recovery(k) = Recovery(j) => k = j
  BY TurnPipelineAssumption DEF Loop, Tasks, Turns, Flush, Recovery

(* The fetches of turns, as the object goes on. *)
LEMMA FetchesInOrder ==
  ASSUME Typed, TasksInOrder, NEW n, Continues(n),
         n.recoveryAttempted = nz.recoveryAttempted, seen'.turn = seen.turn
  PROVE  \A k \in Turns :
           /\ fetch[k] = "done" => fetch'[k] = "done"
           /\ fetch'[k] = "none" => fetch[k] = "none"
           /\ fetch'[k] # "none" => k <= seen'.turn /\ (k = seen'.turn => nz'.recoveryAttempted)
  <1> SUFFICES ASSUME NEW k \in Turns
               PROVE  /\ fetch[k] = "done" => fetch'[k] = "done"
                      /\ fetch'[k] = "none" => fetch[k] = "none"
                      /\ fetch'[k] # "none" =>
                           k <= seen'.turn /\ (k = seen'.turn => nz'.recoveryAttempted)
    OBVIOUS
  <1>1. /\ n.recoveryAttempted => nz'.recoveryAttempted
        /\ \/ fetch'[k] = fetch[k]
           \/ fetch[k] = "asked" /\ fetch'[k] = "done"
           \/ fetch[k] = "none" /\ k = seen.turn /\ nz'.recoveryAttempted
    BY DEF Continues
  <1>2. fetch[k] # "none" => k <= seen.turn /\ (k = seen.turn => nz.recoveryAttempted)
    BY DEF TasksInOrder
  <1>3. k <= k
    BY TypedParts
  <1>4. QED  BY <1>1, <1>2, <1>3

(* A flush in flight keeps its send waiting. *)
LEMMA FlushesInOrder ==
  ASSUME TasksInOrder, SendsGoOn, NEW k \in Turns, Busy(Flush(k)), Busy(Flush(k))'
  PROVE  send'[k] = "flushing"
  <1>1. send[k] = "flushing" /\ jobs'[Flush(k)].writes # <<>>
    BY DEF TasksInOrder, Busy
  <1>2. QED  BY <1>1 DEF SendsGoOn

(* A flush reports, and ends nothing. *)
FlushReports(k) ==
  /\ jobs[Flush(k)].status = "none"
  /\ \A i \in 1 .. Len(jobs[Flush(k)].writes) :
       jobs[Flush(k)].writes[i].type = "provenance"

LEMMA TasksRests ==
  ASSUME PipeInv, Rests
  PROVE  TasksInOrder'
  <1> USE DEF PipeInv
  <1>1. /\ Continues(nz) /\ SendsGoOn /\ LoopGoesOn /\ jobs' = jobs
        /\ seen'.turn = seen.turn
    BY RestsTyped DEF Rests
  <1>2. \A k \in Turns :
           /\ fetch[k] = "done" => fetch'[k] = "done"
           /\ fetch'[k] # "none" => k <= seen'.turn /\ (k = seen'.turn => nz'.recoveryAttempted)
    BY <1>1, FetchesInOrder
  <1>3. loop' = "racing" => ~Busy(Loop)'
    BY <1>1 DEF LoopGoesOn, Busy
  <1>4. \A t : Busy(t)' <=> Busy(t)
    BY <1>1 DEF Busy
  <1>5. \A k \in Turns : Busy(Flush(k))' => send'[k] = "flushing"
    BY <1>1, <1>4, FlushesInOrder
  <1>6. \A k \in Turns : Busy(Recovery(k))' => fetch'[k] = "done"
    BY <1>2, <1>4 DEF TasksInOrder
  <1>7. QED  BY <1>1, <1>2, <1>3, <1>5, <1>6 DEF TasksInOrder

LEMMA TasksApplies ==
  ASSUME PipeInv, NEW t, NEW n, NEW w, NEW st, Applies(t, n, w, st)
  PROVE  TasksInOrder'
  <1> USE DEF PipeInv
  <1>1. /\ Continues(n) /\ SendsGoOn /\ LoopGoesOn
        /\ t = Loop \/ \E k \in Turns : t = Recovery(k) /\ fetch'[k] = "done"
        /\ seen'.turn = seen.turn /\ n.recoveryAttempted = nz.recoveryAttempted
    BY AppliesTyped DEF Applies
  <1>2. \A k \in Turns :
           /\ fetch[k] = "done" => fetch'[k] = "done"
           /\ fetch'[k] # "none" => k <= seen'.turn /\ (k = seen'.turn => nz'.recoveryAttempted)
    BY <1>1, FetchesInOrder
  <1>3. loop' = "racing" => ~Busy(Loop)'
    BY <1>1 DEF LoopGoesOn, Busy
  <1>4. OthersKeep(t)
    BY AppliesEffect
  <1>5. \A k \in Turns : Flush(k) \in Tasks \ {t}
    BY <1>1, TaskKinds
  <1>6. \A k \in Turns : jobs'[Flush(k)] = jobs[Flush(k)] /\ (Busy(Flush(k))' <=> Busy(Flush(k)))
    BY <1>4, <1>5 DEF OthersKeep
  <1>7. \A k \in Turns : Busy(Flush(k))' => send'[k] = "flushing"
    BY <1>1, <1>6, FlushesInOrder
  <1>8. \A k \in Turns : FlushReports(k)'
    BY <1>6 DEF TasksInOrder, FlushReports
  <1>9. \A k \in Turns : Busy(Recovery(k))' => fetch'[k] = "done"
    <2> SUFFICES ASSUME NEW k \in Turns, Busy(Recovery(k))'
                 PROVE  fetch'[k] = "done"
      OBVIOUS
    <2>1. CASE t = Recovery(k)
      BY <1>1, <2>1, TaskKinds
    <2>2. CASE t # Recovery(k)
      <3>1. Busy(Recovery(k))
        BY <1>4, <2>2, TaskKinds DEF OthersKeep
      <3>2. QED  BY <1>2, <3>1 DEF TasksInOrder
    <2>3. QED  BY <2>1, <2>2
  <1>10. QED  BY <1>2, <1>3, <1>7, <1>8, <1>9 DEF TasksInOrder, FlushReports

LEMMA TasksAnswered ==
  ASSUME PipeInv, NEW t, NEW outcome, Answered(t, outcome)
  PROVE  TasksInOrder'
  <1> USE DEF PipeInv
  <1>1. /\ Continues(nz) /\ SendsGoOn /\ LoopGoesOn /\ seen'.turn = seen.turn
    BY AnsweredTyped DEF Answered
  <1>2. \A k \in Turns :
           /\ fetch[k] = "done" => fetch'[k] = "done"
           /\ fetch'[k] # "none" => k <= seen'.turn /\ (k = seen'.turn => nz'.recoveryAttempted)
    BY <1>1, FetchesInOrder
  <1>3. loop' = "racing" => ~Busy(Loop)'
    BY <1>1 DEF LoopGoesOn, Busy
  <1>4. t \in Tasks /\ Busy(t) /\ OthersKeep(t)
    BY AnsweredEffect
  <1>5. \A u \in Tasks : Busy(u)' => Busy(u)
    BY <1>4 DEF OthersKeep
  <1>6. \A k \in Turns : Busy(Flush(k))' => send'[k] = "flushing"
    BY <1>1, <1>5, FlushesInOrder, TaskKinds
  <1>7. \A k \in Turns : FlushReports(k)'
    <2> SUFFICES ASSUME NEW k \in Turns
                 PROVE  FlushReports(k)'
      OBVIOUS
    <2>1. /\ jobs[Flush(k)].status = "none"
          /\ \A i \in 1 .. Len(jobs[Flush(k)].writes) :
               jobs[Flush(k)].writes[i].type = "provenance"
      BY DEF TasksInOrder
    <2>2. CASE t # Flush(k)
      <3>1. jobs'[Flush(k)] = jobs[Flush(k)]
        BY <1>4, <2>2, TaskKinds DEF OthersKeep
      <3>2. QED  BY <2>1, <3>1 DEF FlushReports
    <2>3. CASE t = Flush(k)
      <3>1. ~FinalPending(t)
        BY <2>1, <2>3 DEF FinalPending
      <3>2. CASE NoJobLeft(t)
        <4>1. jobs'[t] = NoJob /\ NoJob.status = "none" /\ NoJob.writes = <<>>
          BY <3>2, NoJobTyped DEF NoJobLeft
        <4>2. \A i \in 1 .. Len(<<>>) : FALSE
          OBVIOUS
        <4>3. QED  BY <2>3, <4>1, <4>2 DEF FlushReports
      <3>3. CASE JobLeft(t, jobs[t].message, Tail(jobs[t].writes), jobs[t].status)
                   /\ Len(jobs[t].writes) > 1
        <4>1. /\ jobs'[t].status = "none"
              /\ jobs'[t].writes = Tail(jobs[t].writes)
          BY <2>1, <2>3, <3>3 DEF JobLeft
        <4>2. jobs[t].writes \in Seq(Plain(Chunks, Runs) \cup ClosingFinal(Chunks))
          BY <1>4, BusyParts DEF JobRecord
        <4>3. \A E : \A s \in Seq(E) : Len(s) > 1 =>
                /\ Len(Tail(s)) = Len(s) - 1
                /\ \A i \in 1 .. Len(Tail(s)) : i + 1 \in 1 .. Len(s) /\ Tail(s)[i] = s[i + 1]
          OBVIOUS
        <4>4. \A i \in 1 .. Len(Tail(jobs[t].writes)) :
                /\ i + 1 \in 1 .. Len(jobs[t].writes)
                /\ Tail(jobs[t].writes)[i] = jobs[t].writes[i + 1]
          BY <3>3, <4>2, <4>3
        <4>5. QED  BY <2>1, <2>3, <4>1, <4>4 DEF FlushReports
      <3>4. QED  BY <3>1, <3>2, <3>3, AnsweredEffect
    <2>4. QED  BY <2>2, <2>3
  <1>8. \A k \in Turns : Busy(Recovery(k))' => fetch'[k] = "done"
    BY <1>2, <1>5, TaskKinds DEF TasksInOrder
  <1>9. QED  BY <1>2, <1>3, <1>6, <1>7, <1>8 DEF TasksInOrder, FlushReports

LEMMA TasksBegins ==
  ASSUME PipeInv, NEW k \in Turns, BeginsTurn(k)
  PROVE  TasksInOrder'
  <1> USE DEF PipeInv
  <1>1. /\ send[k] = "sent" /\ \A j \in Turns \ {k} : send'[j] = send[j]
        /\ seen.turn < k /\ seen'.turn = k
        /\ loop' = loop /\ fetch' = fetch /\ jobs' = jobs
    BY BeginsParts
  <1>2. \A t : Busy(t)' <=> Busy(t)
    BY <1>1 DEF Busy
  <1>3. \A j \in Turns : Busy(Flush(j))' => send'[j] = "flushing"
    BY <1>1, <1>2 DEF TasksInOrder
  <1>4. \A j \in Turns : fetch'[j] # "none" =>
           j <= seen'.turn /\ (j = seen'.turn => nz'.recoveryAttempted)
    <2>1. \A j \in Turns : fetch[j] # "none" => j <= seen.turn
      BY DEF TasksInOrder
    <2>2. \A j \in Turns : j <= seen.turn => j < k
      BY <1>1, TypedParts
    <2>3. \A j \in Turns : j < k => j <= k /\ j # k
      BY TypedParts
    <2>4. QED  BY <1>1, <2>1, <2>2, <2>3
  <1>5. QED  BY <1>1, <1>2, <1>3, <1>4 DEF TasksInOrder

LEMMA TasksStarted ==
  ASSUME PipeInv, NEW k \in Turns, NEW ok \in BOOLEAN, Starts(k, ok)
  PROVE  TasksInOrder'
  <1> USE DEF PipeInv
  <1>1. /\ \A j \in Turns \ {k} : send'[j] = send[j]
        /\ nz' = nz /\ loop' = loop /\ fetch' = fetch /\ seen'.turn = seen.turn
        /\ OthersKeep(Flush(k)) /\ Flush(k) # Loop
    BY StartedTyped DEF Starts
  <1>2. Busy(Flush(k))' => send'[k] = "flushing"
    BY DEF Starts
  <1>3. FlushReports(k)'
    BY DEF Starts, FlushReports
  <1>4. \A u \in Tasks \ {Flush(k)} : jobs'[u] = jobs[u] /\ (Busy(u)' <=> Busy(u))
    BY <1>1 DEF OthersKeep
  <1>5. \A j \in Turns \ {k} : Flush(j) \in Tasks \ {Flush(k)}
    BY TaskKinds
  <1>6. \A j \in Turns : Busy(Flush(j))' => send'[j] = "flushing"
    BY <1>1, <1>2, <1>4, <1>5 DEF TasksInOrder
  <1>7. \A j \in Turns : FlushReports(j)'
    BY <1>3, <1>4, <1>5 DEF TasksInOrder, FlushReports
  <1>8. \A j \in Turns : Recovery(j) \in Tasks \ {Flush(k)}
    BY TaskKinds
  <1>9. \A j \in Turns : Busy(Recovery(j))' => fetch'[j] = "done"
    BY <1>1, <1>4, <1>8 DEF TasksInOrder
  <1>10. loop' = "racing" => ~Busy(Loop)'
    BY <1>1, <1>4, TaskKinds DEF TasksInOrder
  <1>11. QED  BY <1>1, <1>6, <1>7, <1>9, <1>10 DEF TasksInOrder, FlushReports

-----------------------------------------------------------------------------
(* The turns stay in order *)

(* A step that goes on moves no turn and gives no turn a message.             *)
LEMMA TurnsGoOn ==
  ASSUME Typed, TurnsInOrder, SendsGoOn,
         sink'.messageId = sink.messageId, seen'.turn = seen.turn,
         nz.finalized => nz'.finalized, sink'.active => sink.active,
         \A k \in Turns : messages[k].status = "none" => messages'[k].status = "none"
  PROVE  /\ TurnsInOrder'
         /\ \A k \in Turns : send'[k] = "starting" => send[k] = "starting"
  <1>1. \A k \in Turns :
          /\ send'[k] = "starting" => send[k] = "starting"
          /\ send'[k] \in {"idle", "sent"} => send[k] \in {"idle", "sent"}
          /\ send'[k] = "idle" => send[k] = "idle"
          /\ send'[k] # "idle" => \/ send[k] # "idle"
                                  \/ \A j \in Turns : j < k => send[j] # "idle"
    BY DEF SendsGoOn
  <1>2. \A k \in Turns : send'[k] # "idle" => \A j \in Turns : j < k => send'[j] # "idle"
    BY <1>1 DEF TurnsInOrder
  <1>3. \A k \in Turns : send'[k] \in {"idle", "sent"} => seen'.turn < k
    BY <1>1 DEF TurnsInOrder
  <1>4. \A k \in Turns : send'[k] = "starting" => sink'.messageId < k /\ k <= seen'.turn
    BY <1>1 DEF TurnsInOrder
  <1>5. \A k \in Turns : send'[k] \in {"idle", "sent", "starting"}
                            => messages'[k].status = "none"
    BY <1>1 DEF TurnsInOrder
  <1>6. \A k \in Turns : ackRunId'[k] \in RunsOf(k)
    BY DEF SendsGoOn, TurnsInOrder
  <1>7. QED  BY <1>1, <1>2, <1>3, <1>4, <1>5, <1>6 DEF TurnsInOrder, RunsOf

LEMMA TurnsRests ==
  ASSUME PipeInv, Rests
  PROVE  TurnsInOrder'
  <1>1. /\ SendsGoOn /\ nz'.finalized = nz.finalized /\ sink' = sink
        /\ messages' = messages /\ seen'.turn = seen.turn
    BY RestsTyped DEF Rests, Continues
  <1>2. QED  BY <1>1, TurnsGoOn DEF PipeInv

(* An object that goes on stays finalized.                                    *)
LEMMA AppliesTurns ==
  ASSUME PipeInv, NEW t, NEW n, NEW w, NEW st, Applies(t, n, w, st)
  PROVE  /\ TurnsInOrder' /\ (sink'.active => sink.active)
         /\ \A k \in Turns : send'[k] = "starting" => send[k] = "starting"
         /\ nz'.finalized <=> nz.finalized \/ st # "none"
         /\ nz'.ownRunIds = n.ownRunIds
         /\ messages' = messages
  <1> USE DEF PipeInv
  <1>1. /\ SendsGoOn /\ nz'.finalized = n.finalized /\ messages' = messages
        /\ n.finalized <=> nz.finalized \/ st # "none"
        /\ nz'.ownRunIds = n.ownRunIds
    BY DEF Applies, Continues
  <1>2. sink'.active => sink.active
    BY AppliesEffect
  <1>3. sink'.messageId = sink.messageId /\ seen'.turn = seen.turn
    BY AppliesTyped
  <1>4. QED  BY <1>1, <1>2, <1>3, TurnsGoOn

LEMMA AnsweredTurns ==
  ASSUME PipeInv, NEW t, NEW outcome, Answered(t, outcome)
  PROVE  /\ TurnsInOrder' /\ (sink'.active => sink.active)
         /\ \A k \in Turns : send'[k] = "starting" => send[k] = "starting"
         /\ nz'.finalized = nz.finalized /\ nz'.ownRunIds = nz.ownRunIds
         /\ \A k \in Turns : messages[k].status = "none" => messages'[k] = messages[k]
  <1> USE DEF PipeInv
  <1>1. SendsGoOn /\ nz'.finalized = nz.finalized /\ nz'.ownRunIds = nz.ownRunIds
    BY DEF Answered, Continues
  <1>2. sink'.active => sink.active
    BY AnsweredEffect
  <1>3. /\ sink'.messageId = sink.messageId /\ seen'.turn = seen.turn
        /\ t \in Tasks /\ outcome \in {"answered", "refused", "lost"}
    BY AnsweredTyped
  <1>4. JobSays(jobs[t], Chunks, Runs)
    BY <1>3, TypedParts
  <1>5. \A k \in Turns : messages[k].status = "none" => messages'[k] = messages[k]
    BY <1>3, <1>4, AnswerWritten DEF WritesTo
  <1>6. QED  BY <1>1, <1>2, <1>3, <1>5, TurnsGoOn

LEMMA BeginsTurns ==
  ASSUME PipeInv, NEW k \in Turns, BeginsTurn(k)
  PROVE  TurnsInOrder'
  <1> USE DEF PipeInv
  <1>1. /\ sink'.active /\ sink'.messageId = sink.messageId
        /\ send[k] = "sent" /\ send'[k] = "starting"
        /\ \A j \in Turns : j < k => send[j] # "sent"
        /\ \A j \in Turns \ {k} : send'[j] = send[j]
        /\ seen.turn < k /\ seen'.turn = k /\ messages' = messages
        /\ \A j \in Turns : ackRunId'[j] \in RunsOf(j)
    BY BeginsParts DEF TurnsInOrder
  <1>2. /\ k \in Nat \ {0} /\ Turns \subseteq Nat /\ NoMessage = 0
        /\ seen.turn \in Nat /\ sink.messageId \in Nat
    BY TypedParts
  <1>3. sink.messageId <= seen.turn
    BY DEF TurnsInOrder
  <1>4. sink'.messageId < k /\ sink'.messageId <= seen'.turn /\ seen'.turn # NoMessage
        /\ k <= seen'.turn
    BY <1>1, <1>2, <1>3
  <1>5. \A j \in Turns : send'[j] # "idle" => \A i \in Turns : i < j => send'[i] # "idle"
    <2>1. \A j \in Turns : send'[j] # "idle" <=> send[j] # "idle"
      BY <1>1
    <2>2. QED  BY <2>1 DEF TurnsInOrder
  <1>6. \A j \in Turns : send'[j] \in {"idle", "sent"} => seen'.turn < j
    <2> SUFFICES ASSUME NEW j \in Turns, send'[j] \in {"idle", "sent"}
                 PROVE  k < j
      BY <1>1
    <2>1. j # k /\ send[j] \in {"idle", "sent"}
      BY <1>1
    <2>2. ~(j < k)
      BY <1>1, <2>1 DEF TurnsInOrder
    <2>3. QED  BY <1>2, <2>1, <2>2
  <1>7. \A j \in Turns : send'[j] = "starting" => sink'.messageId < j /\ j <= seen'.turn
    <2> SUFFICES ASSUME NEW j \in Turns, j # k, send[j] = "starting"
                 PROVE  sink'.messageId < j /\ j <= seen'.turn
      BY <1>1, <1>4
    <2>1. sink.messageId < j /\ j <= seen.turn
      BY DEF TurnsInOrder
    <2>2. QED  BY <1>1, <1>2, <2>1
  <1>8. \A j \in Turns : send'[j] \in {"idle", "sent", "starting"}
                            => messages'[j].status = "none"
    BY <1>1 DEF TurnsInOrder
  <1>9. QED  BY <1>1, <1>4, <1>5, <1>6, <1>7, <1>8 DEF TurnsInOrder, RunsOf

LEMMA StartedTurns ==
  ASSUME PipeInv, NEW k \in Turns, NEW ok \in BOOLEAN, Starts(k, ok)
  PROVE  TurnsInOrder'
  <1> USE DEF PipeInv
  <1>1. /\ send[k] = "starting" /\ send'[k] \in {"flushing", "done", "failed"}
        /\ \A j \in Turns : j < k => send[j] # "starting"
        /\ sink.messageId < k /\ k <= seen.turn
        /\ \A j \in Turns \ {k} : send'[j] = send[j] /\ messages'[j] = messages[j]
        /\ nz' = nz /\ ackRunId' = ackRunId /\ seen'.turn = seen.turn /\ sink'.active = sink.active
        /\ ok => sink'.messageId = k
        /\ ~ok => sink' = sink
    BY StartedTyped DEF Starts
  <1>2. Turns \subseteq Nat /\ seen.turn \in Nat /\ sink.messageId \in Nat
    BY TypedParts
  <1>3. sink'.messageId <= k /\ sink'.messageId <= seen'.turn
    BY <1>1, <1>2 DEF TurnsInOrder
  <1>4. \A j \in Turns : send'[j] = "starting" => j # k /\ ~(j < k) /\ send[j] = "starting"
    BY <1>1
  <1>5. \A j \in Turns : send'[j] = "starting" => sink'.messageId < j /\ j <= seen'.turn
    <2> SUFFICES ASSUME NEW j \in Turns, send'[j] = "starting"
                 PROVE  sink'.messageId < j /\ j <= seen'.turn
      OBVIOUS
    <2>1. j > k /\ j <= seen.turn
      BY <1>2, <1>4 DEF TurnsInOrder
    <2>2. sink'.messageId < j
      <3>1. CASE ok
        BY <1>1, <1>2, <2>1, <3>1
      <3>2. CASE ~ok
        BY <1>1, <1>4, <3>2 DEF TurnsInOrder
      <3>3. QED  BY <3>1, <3>2
    <2>3. QED  BY <1>1, <2>1, <2>2
  <1>6. \A j \in Turns : send'[j] # "idle" => \A i \in Turns : i < j => send'[i] # "idle"
    <2>1. \A j \in Turns : send'[j] # "idle" <=> send[j] # "idle"
      BY <1>1
    <2>2. QED  BY <2>1 DEF TurnsInOrder
  <1>7. \A j \in Turns : send'[j] \in {"idle", "sent", "starting"}
                            => j # k /\ send[j] \in {"idle", "sent", "starting"}
    BY <1>1
  <1>8. \A j \in Turns : send'[j] \in {"idle", "sent"} => seen'.turn < j
    BY <1>1 DEF TurnsInOrder
  <1>9. \A j \in Turns : send'[j] \in {"idle", "sent", "starting"}
                            => messages'[j].status = "none"
    BY <1>1, <1>7 DEF TurnsInOrder
  <1>10. seen'.turn = NoMessage => nz'.finalized /\ ~sink'.active
    BY <1>1 DEF TurnsInOrder
  <1>11. QED  BY <1>1, <1>3, <1>5, <1>6, <1>8, <1>9, <1>10 DEF TurnsInOrder, RunsOf

-----------------------------------------------------------------------------
(* Messages stay in order *)

(* Whose message a task's job is, after a batch is applied.                   *)
LEMMA AppliesJobs ==
  ASSUME PipeInv, NEW t, NEW n, NEW w, NEW st, Applies(t, n, w, st), NEW u \in Tasks, Busy(u)'
  PROVE  \/ u # t /\ Busy(u) /\ jobs'[u] = jobs[u]
         \/ /\ u = t /\ jobs'[u].message = sink.messageId /\ sink.messageId # NoMessage
            /\ w # <<>> /\ jobs'[u].writes = w /\ jobs'[u].status = st
  <1>1. OthersKeep(t)
    BY AppliesEffect
  <1>2. CASE u # t
    BY <1>1, <1>2 DEF OthersKeep
  <1>3. CASE u = t
    <2>1. ~NoJobLeft(t)
      BY <1>3 DEF NoJobLeft
    <2>2. /\ w # <<>> /\ sink.messageId # NoMessage /\ JobLeft(t, sink.messageId, w, st)
      BY <2>1, AppliesEffect
    <2>3. QED  BY <1>3, <2>2 DEF JobLeft
  <1>4. QED  BY <1>2, <1>3

(* The same, after a write is answered.                                       *)
LEMMA AnsweredJobs ==
  ASSUME PipeInv, NEW t, NEW outcome, Answered(t, outcome), NEW u \in Tasks, Busy(u)'
  PROVE  \/ u # t /\ Busy(u) /\ jobs'[u] = jobs[u]
         \/ /\ u = t /\ Busy(t) /\ outcome = "answered" /\ Len(jobs[t].writes) > 1
            /\ jobs'[u].writes = Tail(jobs[t].writes) /\ jobs'[u].status = jobs[t].status
            /\ \/ jobs'[u].message = jobs[t].message /\ sink'.active = sink.active
               \/ /\ jobs'[u].message = sink.messageId /\ FinalPending(t)
                  /\ sink.active /\ ~sink'.active
  <1>1. OthersKeep(t) /\ Busy(t)
    BY AnsweredEffect
  <1>2. CASE u # t
    BY <1>1, <1>2 DEF OthersKeep
  <1>3. CASE u = t
    <2>1. ~NoJobLeft(t)
      BY <1>3 DEF NoJobLeft
    <2>2. \/ /\ outcome = "answered" /\ Len(jobs[t].writes) > 1
             /\ JobLeft(t, jobs[t].message, Tail(jobs[t].writes), jobs[t].status)
             /\ sink'.active = sink.active
          \/ /\ outcome = "answered" /\ FinalPending(t) /\ Len(jobs[t].writes) > 1
             /\ JobLeft(t, sink.messageId, Tail(jobs[t].writes), jobs[t].status)
             /\ sink.active /\ ~sink'.active
      BY <2>1, AnsweredEffect
    <2>3. QED  BY <1>1, <1>3, <2>2 DEF JobLeft
  <1>4. QED  BY <1>2, <1>3

(* A final is issued when the turn ends.                                      *)
LEMMA AppliesIssued ==
  ASSUME PipeInv, NEW t, NEW n, NEW w, NEW st, Applies(t, n, w, st), NEW u \in Tasks, NEW k,
         Issued(u, k)'
  PROVE  \/ u # t /\ Issued(u, k)
         \/ /\ u = t /\ k = sink.messageId /\ w # <<>> /\ st # "none"
            /\ sink.active /\ ~sink'.active
  <1>1. OthersKeep(t)
    BY AppliesEffect
  <1>2. CASE u # t
    BY <1>1, <1>2 DEF OthersKeep
  <1>3. CASE u = t
    <2>1. ~NoJobLeft(t)
      BY <1>3 DEF NoJobLeft
    <2>2. QED  BY <1>3, <2>1, AppliesEffect
  <1>4. QED  BY <1>2, <1>3

LEMMA AnsweredIssued ==
  ASSUME PipeInv, NEW t, NEW outcome, Answered(t, outcome), NEW u \in Tasks, NEW k, Issued(u, k)'
  PROVE  \/ u # t /\ Issued(u, k)
         \/ /\ u = t /\ k = sink.messageId /\ FinalPending(t) /\ outcome = "answered"
            /\ sink.active /\ ~sink'.active
  <1>1. OthersKeep(t)
    BY AnsweredEffect
  <1>2. CASE u # t
    BY <1>1, <1>2 DEF OthersKeep
  <1>3. CASE u = t
    <2>1. ~NoJobLeft(t)
      BY <1>3 DEF NoJobLeft
    <2>2. QED  BY <1>3, <2>1, AnsweredEffect
  <1>4. QED  BY <1>2, <1>3

LEMMA MessagesRests ==
  ASSUME PipeInv, Rests
  PROVE  MessagesInOrder'
  <1>1. /\ sink' = sink /\ jobs' = jobs /\ messages' = messages /\ seen'.turn = seen.turn
    BY RestsTyped DEF Rests
  <1>2. \A t : Busy(t)' <=> Busy(t)
    BY <1>1 DEF Busy
  <1>3. \A k : Closed(k)' <=> Closed(k)
    BY <1>1 DEF Closed, Issued
  <1>4. QED  BY <1>1, <1>2, <1>3 DEF PipeInv, MessagesInOrder

LEMMA MessagesApplies ==
  ASSUME PipeInv, NEW t, NEW n, NEW w, NEW st, Applies(t, n, w, st)
  PROVE  MessagesInOrder'
  <1> USE DEF PipeInv
  <1>1. /\ messages' = messages /\ (sink'.active => sink.active)
        /\ seen'.turn = seen.turn /\ sink'.messageId = sink.messageId
    BY AppliesTurns, AppliesTyped
  <1>2. \A u \in Tasks : Busy(u)' =>
          /\ jobs'[u].message # NoMessage
          /\ messages[jobs'[u].message].status # "none"
          /\ jobs'[u].message <= sink.messageId
          /\ sink.messageId # NoMessage
    <2>1. sink.messageId <= sink.messageId
      BY TypedParts
    <2>2. QED  BY <2>1, AppliesJobs DEF MessagesInOrder
  <1>3. \A k \in Turns : Closed(k)' /\ k = seen'.turn => ~sink'.active
    BY <1>1, AppliesIssued DEF Closed, MessagesInOrder
  <1>4. QED  BY <1>1, <1>2, <1>3 DEF MessagesInOrder

LEMMA MessagesAnswered ==
  ASSUME PipeInv, NEW t, NEW outcome, Answered(t, outcome)
  PROVE  MessagesInOrder'
  <1> USE DEF PipeInv
  <1> DEFINE m == jobs[t].message
  <1>1. /\ (sink'.active => sink.active) /\ t \in Tasks /\ outcome \in {"answered", "refused", "lost"}
        /\ seen'.turn = seen.turn /\ sink'.messageId = sink.messageId
        /\ \A k \in Turns : messages[k].status = "none" => messages'[k] = messages[k]
    BY AnsweredTurns, AnsweredTyped
  <1>2. JobSays(jobs[t], Chunks, Runs) /\ Busy(t)
    BY <1>1, TypedParts, AnsweredEffect
  <1>3. /\ m \in Turns /\ messages[m].status # "none"
        /\ \A j \in Turns : messages'[j] = messages[j] \/ j = m
        /\ WritesFinal(t, outcome) => /\ messages'[m].status \in Terminal
                                 /\ messages'[m].finals = messages[m].finals + 1
        /\ ~WritesFinal(t, outcome) => /\ messages'[m].status = messages[m].status
                                  /\ messages'[m].finals = messages[m].finals
    <2>1. WritesTo(t, outcome, jobs[t].message, Chunks, Runs)
      BY <1>1, <1>2, AnswerWritten
    <2>2. QED  BY <2>1 DEF WritesTo
  <1>4. "none" \notin Terminal
    BY DEF Terminal
  <1>5. \A k \in Turns : messages'[k].status = "none" <=> messages[k].status = "none"
    BY <1>1, <1>3, <1>4
  <1>6. \A k \in Turns : messages[k].finals \in Nat
    BY TypedParts DEF Message
  <1>7. \A k \in Turns : messages'[k].finals > 0 <=> messages'[k].status \in Terminal
    <2>1. \A l \in Nat : l + 1 > 0
      OBVIOUS
    <2>2. messages'[m].finals > 0 <=> messages'[m].status \in Terminal
      <3>1. CASE WritesFinal(t, outcome)
        BY <1>3, <1>6, <2>1, <3>1
      <3>2. CASE ~WritesFinal(t, outcome)
        BY <1>3, <3>2 DEF MessagesInOrder
      <3>3. QED  BY <3>1, <3>2
    <2>3. QED  BY <1>3, <2>2 DEF MessagesInOrder
  <1>8. sink.messageId # NoMessage
    BY <1>1, <1>2 DEF MessagesInOrder
  <1>9. \A u \in Tasks : Busy(u)' => /\ jobs'[u].message # NoMessage
                                     /\ messages'[jobs'[u].message].status # "none"
                                     /\ jobs'[u].message <= sink.messageId
    <2> SUFFICES ASSUME NEW u \in Tasks, Busy(u)'
                 PROVE  /\ jobs'[u].message # NoMessage
                        /\ messages'[jobs'[u].message].status # "none"
                        /\ jobs'[u].message <= sink.messageId
      OBVIOUS
    <2>1. \/ Busy(u) /\ jobs'[u].message = jobs[u].message
          \/ jobs'[u].message = sink.messageId
      BY AnsweredJobs
    <2>2. /\ jobs'[u].message \in {NoMessage} \cup Turns
          /\ jobs'[u].message # NoMessage /\ messages[jobs'[u].message].status # "none"
          /\ jobs'[u].message <= sink.messageId
      BY <1>8, <2>1, TypedParts, BusyParts DEF MessagesInOrder
    <2>3. QED  BY <1>5, <2>2
  <1>10. \A k \in Turns : Closed(k)' /\ k = seen'.turn => ~sink'.active
    <2> SUFFICES ASSUME NEW k \in Turns, Closed(k)', k = seen.turn
                 PROVE  ~sink'.active
      BY <1>1
    <2>1. CASE \E u \in Tasks : Issued(u, k)'
      <3>1. Closed(k) \/ ~sink'.active
        BY <2>1, AnsweredIssued DEF Closed
      <3>2. QED  BY <1>1, <3>1 DEF MessagesInOrder
    <2>2. CASE messages'[k].finals > 0
      <3>1. CASE messages[k].finals > 0
        BY <1>1, <3>1 DEF MessagesInOrder, Closed
      <3>2. CASE ~(messages[k].finals > 0)
        <4>1. k = m /\ WritesFinal(t, outcome)
          BY <1>3, <2>2, <3>2
        <4>2. Issued(t, k)
          BY <4>1 DEF WritesFinal, Issued
        <4>3. QED  BY <1>1, <4>2 DEF MessagesInOrder, Closed
      <3>3. QED  BY <3>1, <3>2
    <2>3. QED  BY <2>1, <2>2 DEF Closed
  <1>11. \A k \in Turns : messages'[k].status = "none" => messages'[k] = NewMessage
    BY <1>1, <1>5 DEF MessagesInOrder
  <1>12. sink'.messageId # NoMessage => messages'[sink'.messageId].status # "none"
    BY <1>1, <1>5, TypedParts DEF MessagesInOrder
  <1>13. QED  BY <1>1, <1>7, <1>8, <1>9, <1>10, <1>11, <1>12 DEF MessagesInOrder

LEMMA MessagesBegins ==
  ASSUME PipeInv, NEW k \in Turns, BeginsTurn(k)
  PROVE  MessagesInOrder' /\ messages[k].status = "none" /\ ~Closed(k)
  <1> USE DEF PipeInv
  <1>1. /\ sink'.messageId = sink.messageId /\ seen'.turn = k
        /\ messages' = messages /\ jobs' = jobs /\ send[k] = "sent"
    BY BeginsParts
  <1>2. messages[k].status = "none"
    BY <1>1 DEF TurnsInOrder
  <1>3. ~Closed(k)
    <2>1. messages[k].status \notin Terminal
      BY <1>2 DEF Terminal
    <2>2. ~(messages[k].finals > 0)
      BY <2>1 DEF MessagesInOrder
    <2>3. \A t \in Tasks : ~Issued(t, k)
      <3> SUFFICES ASSUME NEW t \in Tasks, Issued(t, k)
                   PROVE  FALSE
        OBVIOUS
      <3>1. Busy(t)
        BY IdleTask
      <3>2. QED  BY <1>2, <3>1 DEF MessagesInOrder, Issued
    <2>4. QED  BY <2>2, <2>3 DEF Closed
  <1>4. \A t : Busy(t)' <=> Busy(t)
    BY <1>1 DEF Busy
  <1>5. \A j : Closed(j)' <=> Closed(j)
    BY <1>1 DEF Closed, Issued
  <1>6. QED  BY <1>1, <1>2, <1>3, <1>4, <1>5 DEF MessagesInOrder

LEMMA MessagesStarted ==
  ASSUME PipeInv, NEW k \in Turns, NEW ok \in BOOLEAN, Starts(k, ok)
  PROVE  MessagesInOrder' /\ ~Closed(k)'
  <1> USE DEF PipeInv
  <1>1. /\ messages[k] = NewMessage /\ send[k] = "starting"
        /\ sink.messageId < k /\ k <= seen.turn /\ seen'.turn = seen.turn
        /\ \A j \in Turns \ {k} : messages'[j] = messages[j]
        /\ sink'.active = sink.active
        /\ messages'[k].finals = messages[k].finals
        /\ ok => messages'[k].status = "streaming" /\ sink'.messageId = k
        /\ messages'[k] = messages[k] \/ messages'[k].status = "streaming"
        /\ ~ok => sink' = sink
        /\ Busy(Flush(k))' => ok /\ jobs'[Flush(k)].message = k
        /\ OthersKeep(Flush(k)) /\ \A j : ~Issued(Flush(k), j)'
    BY StartedTyped DEF Starts
  <1>2. /\ messages[k].status = "none" /\ messages[k].finals = 0
        /\ "streaming" \notin Terminal /\ "none" \notin Terminal /\ ~(0 > 0)
    BY <1>1 DEF NewMessage, Terminal
  <1>3. /\ Turns \subseteq Nat \ {0} /\ NoMessage = 0 /\ seen.turn \in Nat
        /\ sink.messageId \in {NoMessage} \cup Turns
    BY TypedParts
  <1>4. sink.messageId # k /\ sink.messageId # seen.turn
    BY <1>1, <1>3
  <1>5. sink'.messageId # NoMessage => messages'[sink'.messageId].status # "none"
    BY <1>1, <1>3, <1>4 DEF MessagesInOrder
  <1>6. \A t \in Tasks : Busy(t)' => /\ jobs'[t].message # NoMessage
                                     /\ messages'[jobs'[t].message].status # "none"
                                     /\ jobs'[t].message <= sink'.messageId
                                     /\ sink'.messageId # NoMessage
    <2> SUFFICES ASSUME NEW t \in Tasks, Busy(t)'
                 PROVE  /\ jobs'[t].message # NoMessage
                        /\ messages'[jobs'[t].message].status # "none"
                        /\ jobs'[t].message <= sink'.messageId
                        /\ sink'.messageId # NoMessage
      OBVIOUS
    <2>1. CASE t = Flush(k)
      BY <1>1, <1>3, <2>1
    <2>2. CASE t # Flush(k)
      <3>1. Busy(t) /\ jobs'[t] = jobs[t]
        BY <1>1, <2>2 DEF OthersKeep
      <3>2. /\ jobs[t].message \in Turns /\ messages[jobs[t].message].status # "none"
            /\ jobs[t].message <= sink.messageId /\ sink.messageId # NoMessage
        BY <3>1, BusyParts DEF MessagesInOrder
      <3>3. jobs[t].message # k
        BY <1>2, <3>2
      <3>4. QED  BY <1>1, <1>3, <3>1, <3>2, <3>3
    <2>3. QED  BY <2>1, <2>2
  <1>7. \A j \in Turns : messages'[j].status = "none" => messages'[j] = NewMessage
    BY <1>1 DEF MessagesInOrder
  <1>8. \A j \in Turns : messages'[j].finals > 0 <=> messages'[j].status \in Terminal
    BY <1>1, <1>2 DEF MessagesInOrder
  <1>9. \A t \in Tasks : \A j : Issued(t, j)' => Issued(t, j)
    BY <1>1 DEF OthersKeep
  <1>10. ~Closed(k)'
    <2>1. \A t \in Tasks : ~Issued(t, k)
      <3> SUFFICES ASSUME NEW t \in Tasks, Issued(t, k)
                   PROVE  FALSE
        OBVIOUS
      <3>1. Busy(t)
        BY IdleTask
      <3>2. QED  BY <1>2, <3>1 DEF MessagesInOrder, Issued
    <2>2. QED  BY <1>1, <1>2, <1>9, <2>1 DEF Closed
  <1>11. \A j \in Turns : Closed(j)' /\ j = seen'.turn => ~sink'.active
    <2>1. \A j \in Turns \ {k} : Closed(j)' => Closed(j)
      BY <1>1, <1>9 DEF Closed
    <2>2. QED  BY <1>1, <1>10, <2>1 DEF MessagesInOrder
  <1>12. QED  BY <1>5, <1>6, <1>7, <1>8, <1>10, <1>11 DEF MessagesInOrder

-----------------------------------------------------------------------------
(* A final that is still to be issued hits the turn of now *)

(* With every turn's message made, the sink writes to that of the turn of now. *)
LEMMA NoneHomeless ==
  ASSUME PipeInv, sink.active, Homeless = {}
  PROVE  /\ sink.messageId = seen.turn /\ seen.turn \in Turns
         /\ \A k \in Turns : send[k] # "starting"
  <1>1. seen.turn \in Turns
    BY TypedParts DEF PipeInv, TurnsInOrder
  <1>2. QED  BY <1>1 DEF Homeless, Starting

(* A batch that is written, with nothing misplaced yet.                       *)
LEMMA AppliesAtHome ==
  ASSUME PipeInv, NEW t, NEW n, NEW w, NEW st, Applies(t, n, w, st), seen'.misplaced = {}
  PROVE  /\ seen.misplaced = {}
         /\ w # <<>> => /\ sink.active
                        /\ sink.messageId = seen.turn /\ seen.turn \in Turns
                        /\ \A k \in Turns : send[k] # "starting"
  <1>1. /\ seen'.misplaced = IF w = <<>> THEN seen.misplaced
                             ELSE seen.misplaced \cup Homeless
    BY AppliesTyped
  <1>2. w # <<>> => sink.active /\ Homeless = {}
    BY <1>1 DEF Applies
  <1>3. QED  BY <1>1, <1>2, NoneHomeless

LEMMA PendingRests ==
  ASSUME PipeInv, PendingInv, Rests
  PROVE  PendingInv'
  <1>1. /\ sink' = sink /\ jobs' = jobs /\ SendsGoOn
        /\ seen'.turn = seen.turn /\ seen'.misplaced = seen.misplaced
        /\ seen'.overlapped = seen.overlapped /\ seen'.crossed = seen.crossed
    BY RestsTyped DEF Rests
  <1>2. \A k \in Turns : send'[k] = "starting" => send[k] = "starting"
    BY <1>1 DEF SendsGoOn
  <1>3. \A t : FinalPending(t)' <=> FinalPending(t)
    BY <1>1 DEF FinalPending
  <1>4. QED  BY <1>1, <1>2, <1>3 DEF PendingInv

LEMMA PendingApplies ==
  ASSUME PipeInv, PendingInv, NEW t, NEW n, NEW w, NEW st, Applies(t, n, w, st)
  PROVE  PendingInv'
  <1>a. seen'.crossed \subseteq seen'.overlapped
    BY AppliesTyped DEF PendingInv
  <1> SUFFICES ASSUME seen'.misplaced = {}, NEW u \in Tasks, FinalPending(u)',
                      NEW k \in Turns, k = sink'.messageId \/ send'[k] = "starting",
                      k # seen'.turn
               PROVE  k \in seen'.crossed
    BY <1>a DEF PendingInv
  <1>1. /\ sink'.messageId = sink.messageId /\ seen'.turn = seen.turn
        /\ seen'.overlapped = seen.overlapped /\ seen'.crossed = seen.crossed
        /\ \A j \in Turns : send'[j] = "starting" => send[j] = "starting"
    BY AppliesTyped, AppliesTurns
  <1>2. CASE u # t
    <2>1. FinalPending(u)
      BY <1>2, AppliesEffect DEF OthersKeep
    <2>2. QED  BY <1>1, <2>1, AppliesAtHome DEF PendingInv
  <1>3. CASE u = t
    <2>1. ~NoJobLeft(t)
      BY <1>3 DEF NoJobLeft
    <2>2. w # <<>>
      BY <2>1, AppliesEffect
    <2>3. QED  BY <1>1, <2>2, AppliesAtHome
  <1>4. QED  BY <1>2, <1>3

(* An answer leaves no final pending that was not.                            *)
LEMMA AnsweredPending ==
  ASSUME PipeInv, NEW t, NEW outcome, Answered(t, outcome), NEW u \in Tasks, FinalPending(u)'
  PROVE  FinalPending(u)
  <1>1. CASE u # t
    BY <1>1, AnsweredEffect DEF OthersKeep
  <1>2. CASE u = t
    <2>1. ~NoJobLeft(t)
      BY <1>2 DEF NoJobLeft
    <2>2. QED  BY <1>2, <2>1, AnsweredEffect
  <1>3. QED  BY <1>1, <1>2

LEMMA PendingAnswered ==
  ASSUME PipeInv, PendingInv, NEW t, NEW outcome, Answered(t, outcome)
  PROVE  PendingInv'
  <1>1. /\ sink'.messageId = sink.messageId /\ seen'.turn = seen.turn
        /\ seen'.misplaced = seen.misplaced /\ seen'.overlapped = seen.overlapped
        /\ seen'.crossed = seen.crossed
        /\ \A k \in Turns : send'[k] = "starting" => send[k] = "starting"
    BY AnsweredTyped, AnsweredTurns
  <1>2. \A u \in Tasks : FinalPending(u)' => FinalPending(u)
    BY AnsweredPending
  <1>3. QED  BY <1>1, <1>2 DEF PendingInv

LEMMA PendingBegins ==
  ASSUME PipeInv, PendingInv, NEW k \in Turns, BeginsTurn(k)
  PROVE  PendingInv'
  <1>a. seen'.crossed \subseteq seen'.overlapped
    BY BeginsParts DEF PendingInv, Superseded
  <1> SUFFICES ASSUME seen'.misplaced = {}, NEW u \in Tasks, FinalPending(u)',
                      NEW j \in Turns, j = sink'.messageId \/ send'[j] = "starting",
                      j # seen'.turn
               PROVE  j \in seen'.crossed
    BY <1>a DEF PendingInv
  <1>1. /\ sink'.messageId = sink.messageId /\ seen'.turn = k
        /\ \A i \in Turns \ {k} : send'[i] = send[i]
        /\ seen'.misplaced = seen.misplaced
        /\ seen'.overlapped = seen.overlapped \cup Superseded(k) /\ jobs' = jobs
        /\ seen'.crossed = seen.crossed \cup Crossed
    BY BeginsParts
  <1>2. FinalPending(u)
    BY <1>1 DEF FinalPending
  <1>3. {seen.turn} \cap Turns \subseteq Crossed
    BY <1>2 DEF Crossed
  <1>4. QED  BY <1>1, <1>2, <1>3 DEF PendingInv

LEMMA PendingStarted ==
  ASSUME PipeInv, PendingInv, NEW k \in Turns, NEW ok \in BOOLEAN, Starts(k, ok)
  PROVE  PendingInv'
  <1>1. /\ send[k] = "starting" /\ seen'.turn = seen.turn
        /\ seen'.misplaced = seen.misplaced
        /\ seen'.overlapped = seen.overlapped /\ seen'.crossed = seen.crossed
        /\ send'[k] \in {"flushing", "done", "failed"}
        /\ \A j \in Turns \ {k} : send'[j] = send[j]
        /\ OthersKeep(Flush(k)) /\ ~FinalPending(Flush(k))'
        /\ ok => sink'.messageId = k
        /\ ~ok => sink' = sink
    BY StartedTyped DEF Starts
  <1>2. \A t \in Tasks : FinalPending(t)' => FinalPending(t)
    BY <1>1 DEF OthersKeep
  <1>3. \A j \in Turns : j = sink'.messageId \/ send'[j] = "starting"
                            => j = sink.messageId \/ send[j] = "starting"
    BY <1>1
  <1>4. QED  BY <1>1, <1>2, <1>3 DEF PendingInv

-----------------------------------------------------------------------------
(* A message gets one final *)

LEMMA OnceRests ==
  ASSUME PipeInv, OnceInv, Rests
  PROVE  OnceInv'
  <1>1. /\ jobs' = jobs /\ messages' = messages
        /\ seen'.misplaced = seen.misplaced /\ seen'.overlapped = seen.overlapped
        /\ seen'.crossed = seen.crossed
    BY RestsTyped DEF Rests
  <1>2. \A t, k : Issued(t, k)' <=> Issued(t, k)
    BY <1>1 DEF Issued
  <1>3. QED  BY <1>1, <1>2 DEF OnceInv

LEMMA OnceApplies ==
  ASSUME PipeInv, OnceInv, NEW t, NEW n, NEW w, NEW st, Applies(t, n, w, st)
  PROVE  OnceInv'
  <1>1. messages' = messages /\ seen'.overlapped = seen.overlapped
  /\ seen'.crossed = seen.crossed
    BY AppliesTurns, AppliesTyped
  <1>2. ASSUME seen'.misplaced = {}, NEW k \in Turns \ seen'.crossed, NEW u \in Tasks,
               Issued(u, k)'
        PROVE  \/ u # t /\ Issued(u, k)
               \/ u = t /\ ~Closed(k)
    <2>1. CASE u # t
      BY <1>2, <2>1, AppliesIssued
    <2>2. CASE u = t
      <3>1. k = sink.messageId /\ w # <<>> /\ sink.active
        BY <1>2, <2>2, AppliesIssued
      <3>2. k = seen.turn
        BY <1>2, <3>1, AppliesAtHome
      <3>3. QED  BY <2>2, <3>1, <3>2 DEF PipeInv, MessagesInOrder
    <2>3. QED  BY <2>1, <2>2
  <1>3. \A k \in Turns : messages[k].finals = 1 => Closed(k)
    BY DEF Closed
  <1>4. seen'.misplaced = {} => seen.misplaced = {}
    BY AppliesAtHome
  <1>5. QED  BY <1>1, <1>2, <1>3, <1>4 DEF OnceInv, Closed

LEMMA OnceAnswered ==
  ASSUME PipeInv, OnceInv, PendingInv, NEW t, NEW outcome, Answered(t, outcome)
  PROVE  OnceInv'
  <1> USE DEF PipeInv
  <1> SUFFICES ASSUME seen'.misplaced = {}, NEW k \in Turns \ seen'.crossed
               PROVE  /\ messages'[k].finals <= 1
                      /\ messages'[k].finals = 1 => \A u \in Tasks : ~Issued(u, k)'
                      /\ \A u, v \in Tasks : Issued(u, k)' /\ Issued(v, k)' => u = v
    BY DEF OnceInv
  <1>1. /\ t \in Tasks /\ outcome \in {"answered", "refused", "lost"} /\ seen'.misplaced = seen.misplaced
        /\ seen'.overlapped = seen.overlapped /\ seen'.crossed = seen.crossed
    BY AnsweredTyped
  <1>2. JobSays(jobs[t], Chunks, Runs)
    BY <1>1, TypedParts
  <1>3. WritesTo(t, outcome, jobs[t].message, Chunks, Runs)
    BY <1>1, <1>2, AnswerWritten
  <1>4. /\ messages[k].finals \in Nat /\ messages[k].finals <= 1
        /\ messages[k].finals = 1 => \A u \in Tasks : ~Issued(u, k)
        /\ \A u, v \in Tasks : Issued(u, k) /\ Issued(v, k) => u = v
    BY <1>1, TypedParts DEF OnceInv, Message
  <1>5. \A u \in Tasks : Issued(u, k)' => \/ u # t /\ Issued(u, k)
                                          \/ u = t /\ FinalPending(t) /\ ~Closed(k)
    <2> SUFFICES ASSUME NEW u \in Tasks, Issued(u, k)', u = t
                 PROVE  FinalPending(t) /\ ~Closed(k)
      BY AnsweredIssued
    <2>1. k = sink.messageId /\ FinalPending(t) /\ sink.active
      BY AnsweredIssued
    <2>2. k = seen.turn
      BY <1>1, <2>1 DEF PendingInv
    <2>3. QED  BY <2>1, <2>2 DEF MessagesInOrder
  <1>6. CASE k = jobs[t].message /\ WritesFinal(t, outcome)
    <2>1. /\ Issued(t, k) /\ ~FinalPending(t)
      <3>1. \A l : l = 1 => ~(l > 1)
        OBVIOUS
      <3>2. QED  BY <1>6, <3>1 DEF WritesFinal, Issued, FinalPending
    <2>2. messages[k].finals = 0 /\ messages'[k].finals = messages[k].finals + 1
      BY <1>1, <1>3, <1>4, <1>6, <2>1 DEF WritesTo
    <2>3. \A u \in Tasks : ~Issued(u, k)'
      BY <1>1, <1>4, <1>5, <2>1
    <2>4. QED  BY <2>2, <2>3
  <1>7. CASE ~(k = jobs[t].message /\ WritesFinal(t, outcome))
    <2>1. messages'[k].finals = messages[k].finals
      BY <1>3, <1>7 DEF WritesTo
    <2>2. QED  BY <1>4, <1>5, <2>1 DEF Closed
  <1>8. QED  BY <1>6, <1>7

LEMMA OnceBegins ==
  ASSUME PipeInv, OnceInv, NEW k \in Turns, BeginsTurn(k)
  PROVE  OnceInv'
  <1>1. /\ jobs' = jobs /\ messages' = messages /\ seen'.misplaced = seen.misplaced
        /\ seen'.overlapped = seen.overlapped \cup Superseded(k)
        /\ seen'.crossed = seen.crossed \cup Crossed
    BY BeginsParts
  <1>2. \A t, j : Issued(t, j)' <=> Issued(t, j)
    BY <1>1 DEF Issued
  <1>3. QED  BY <1>1, <1>2 DEF OnceInv

LEMMA OnceStarted ==
  ASSUME PipeInv, OnceInv, NEW k \in Turns, NEW ok \in BOOLEAN, Starts(k, ok)
  PROVE  OnceInv'
  <1>1. /\ seen'.misplaced = seen.misplaced /\ seen'.crossed = seen.crossed
        /\ \A j \in Turns : messages'[j].finals = messages[j].finals
        /\ OthersKeep(Flush(k)) /\ \A j : ~Issued(Flush(k), j)'
    BY StartedTyped DEF Starts
  <1>2. \A t \in Tasks : \A j : Issued(t, j)' => Issued(t, j)
    BY <1>1 DEF OthersKeep
  <1>3. QED  BY <1>1, <1>2 DEF OnceInv

-----------------------------------------------------------------------------
(* A message shown as streaming is driven *)

(* The turn whose message k is, before and after its message exists.          *)
Awaited(k) ==
  k = seen.turn /\ sink.active /\ ~nz.finalized /\ \A t \in Tasks : ~FinalPending(t)

Driven(k) ==
  \/ \E t \in Tasks : Issued(t, k)
  \/ /\ k = seen.turn /\ sink.messageId = k /\ sink.active
     /\ ~nz.finalized \/ \E t \in Tasks : FinalPending(t) /\ jobs[t].message = k

Spared(k) == k \in Turns \ (seen.misplaced \cup seen.overlapped \cup seen.failed)

LEMMA DrivenIs ==
  DrivenInv <=> \A k \in Turns : Spared(k) =>
                  /\ send[k] = "starting" => Awaited(k)
                  /\ messages[k].status = "streaming" => Driven(k)
  BY DEF DrivenInv, Spared, Awaited, Driven

LEMMA DrivenNext ==
  ASSUME \A k \in Turns : Spared(k)' =>
           /\ send'[k] = "starting" => Awaited(k)'
           /\ messages'[k].status = "streaming" => Driven(k)'
  PROVE  DrivenInv'
  BY DEF DrivenInv, Spared, Awaited, Driven

LEMMA DrivenRests ==
  ASSUME PipeInv, DrivenInv, Rests
  PROVE  DrivenInv'
  <1>1. /\ sink' = sink /\ jobs' = jobs /\ messages' = messages /\ SendsGoOn
        /\ nz'.finalized = nz.finalized /\ seen'.turn = seen.turn
        /\ seen'.misplaced = seen.misplaced /\ seen'.overlapped = seen.overlapped
        /\ seen'.crossed = seen.crossed
        /\ seen'.failed = seen.failed
    BY RestsTyped DEF Rests, Continues
  <1>2. \A k \in Turns : send'[k] = "starting" => send[k] = "starting"
    BY <1>1 DEF SendsGoOn
  <1>3. \A k \in Turns : /\ Spared(k)' => Spared(k)
                         /\ Awaited(k) => Awaited(k)'
                         /\ Driven(k) => Driven(k)'
    BY <1>1 DEF Spared, Awaited, Driven, FinalPending, Issued
  <1>4. QED  BY <1>1, <1>2, <1>3, DrivenIs, DrivenNext

LEMMA DrivenApplies ==
  ASSUME PipeInv, DrivenInv, NEW t, NEW n, NEW w, NEW st, Applies(t, n, w, st)
  PROVE  DrivenInv'
  <1> SUFFICES ASSUME NEW k \in Turns, Spared(k)'
               PROVE  /\ send'[k] = "starting" => Awaited(k)'
                      /\ messages'[k].status = "streaming" => Driven(k)'
    BY DrivenNext
  <1>1. /\ sink'.messageId = sink.messageId /\ seen'.turn = seen.turn
        /\ seen'.misplaced = IF w = <<>> THEN seen.misplaced
                             ELSE seen.misplaced \cup Homeless
        /\ seen'.overlapped = seen.overlapped
        /\ seen'.crossed = seen.crossed /\ seen'.failed = seen.failed
        /\ messages' = messages
        /\ nz'.finalized <=> nz.finalized \/ st # "none"
        /\ send'[k] = "starting" => send[k] = "starting"
    BY AppliesTyped, AppliesTurns
  <1>2. /\ Spared(k) /\ (w # <<>> => k \notin Homeless)
    BY <1>1 DEF Spared
  <1>3. /\ t \in Tasks /\ ~FinalPending(t) /\ \A j : ~Issued(t, j)
        /\ OthersKeep(t) /\ (w = <<>> => st = "none")
    BY AppliesEffect
  <1>4. ASSUME send'[k] = "starting"
        PROVE  Awaited(k)'
    <2>1. send[k] = "starting" /\ k \in Homeless /\ Awaited(k)
      BY <1>1, <1>2, <1>4, DrivenIs DEF Homeless, Starting
    <2>2. w = <<>> /\ st = "none"
      BY <1>2, <1>3, <2>1
    <2>3. NoJobLeft(t) /\ sink' = sink
      BY <2>2, AppliesEffect
    <2>4. \A u \in Tasks : ~FinalPending(u)'
      BY <1>3, <2>1, <2>3 DEF NoJobLeft, OthersKeep, Awaited
    <2>5. ~nz'.finalized
      BY <1>1, <2>1, <2>2 DEF Awaited
    <2>6. QED  BY <1>1, <2>1, <2>3, <2>4, <2>5 DEF Awaited
  <1>5. ASSUME messages'[k].status = "streaming"
        PROVE  Driven(k)'
    <2>1. Driven(k)
      BY <1>1, <1>2, <1>5, DrivenIs
    <2>2. CASE \E u \in Tasks : Issued(u, k)
      BY <1>3, <2>2 DEF Driven, OthersKeep
    <2>3. CASE /\ k = seen.turn /\ sink.messageId = k /\ sink.active
               /\ ~nz.finalized \/ \E u \in Tasks : FinalPending(u) /\ jobs[u].message = k
      <3>1. sink.messageId # NoMessage
        BY <2>3, TypedParts DEF PipeInv
      <3>2. \A u \in Tasks : FinalPending(u) /\ jobs[u].message = k
                                => FinalPending(u)' /\ jobs'[u].message = k
        BY <1>3 DEF OthersKeep
      <3>3. CASE sink' = sink /\ st = "none"
        BY <1>1, <2>3, <3>2, <3>3 DEF Driven
      <3>4. CASE /\ JobLeft(t, sink.messageId, w, st) /\ sink'.active = sink.active
                 /\ FinalPending(t)' <=> st # "none"
        <4>1. st # "none" => FinalPending(t)' /\ jobs'[t].message = k
          BY <2>3, <3>4 DEF JobLeft
        <4>2. QED  BY <1>1, <1>3, <2>3, <3>2, <3>4, <4>1 DEF Driven
      <3>5. CASE \A j : Issued(t, j)' <=> j = sink.messageId
        BY <1>3, <2>3, <3>5 DEF Driven
      <3>6. QED  BY <3>1, <3>3, <3>4, <3>5, AppliesEffect
    <2>4. QED  BY <2>1, <2>2, <2>3 DEF Driven
  <1>6. QED  BY <1>4, <1>5

LEMMA DrivenAnswered ==
  ASSUME PipeInv, DrivenInv, NEW t, NEW outcome, Answered(t, outcome)
  PROVE  DrivenInv'
  <1> USE DEF PipeInv
  <1> SUFFICES ASSUME NEW k \in Turns, Spared(k)'
               PROVE  /\ send'[k] = "starting" => Awaited(k)'
                      /\ messages'[k].status = "streaming" => Driven(k)'
    BY DrivenNext
  <1>1. /\ sink'.messageId = sink.messageId /\ seen'.turn = seen.turn
        /\ seen'.misplaced = seen.misplaced /\ seen'.overlapped = seen.overlapped
        /\ seen'.crossed = seen.crossed
        /\ outcome = "answered" \/ jobs[t].status = "none" => seen'.failed = seen.failed
        /\ outcome # "answered" /\ jobs[t].status # "none"
             => seen'.failed = seen.failed \cup {jobs[t].message}
        /\ nz'.finalized = nz.finalized /\ t \in Tasks /\ outcome \in {"answered", "refused", "lost"}
        /\ send'[k] = "starting" => send[k] = "starting"
    <2>1. /\ sink'.messageId = sink.messageId /\ seen'.turn = seen.turn
          /\ seen'.misplaced = seen.misplaced /\ seen'.overlapped = seen.overlapped
          /\ seen'.crossed = seen.crossed
          /\ t \in Tasks /\ outcome \in {"answered", "refused", "lost"}
      BY AnsweredTyped
    <2>2. /\ outcome = "answered" \/ jobs[t].status = "none" => seen'.failed = seen.failed
          /\ outcome # "answered" /\ jobs[t].status # "none"
             => seen'.failed = seen.failed \cup {jobs[t].message}
      BY AnsweredTyped
    <2>3. nz'.finalized = nz.finalized /\ (send'[k] = "starting" => send[k] = "starting")
      BY AnsweredTurns
    <2>4. QED  BY <2>1, <2>2, <2>3
  <1>2. Spared(k) /\ (jobs[t].message = k => outcome = "answered" \/ jobs[t].status = "none")
    BY <1>1 DEF Spared
  <1>3. OthersKeep(t)
    BY AnsweredEffect
  <1>4. ASSUME send'[k] = "starting"
        PROVE  Awaited(k)'
    <2>1. Awaited(k)
      BY <1>1, <1>2, <1>4, DrivenIs
    <2>2. \A u \in Tasks : ~FinalPending(u)'
      BY <2>1, AnsweredPending DEF Awaited
    <2>3. sink'.active = sink.active
      BY <1>1, <2>1, AnsweredEffect DEF Awaited
    <2>4. QED  BY <1>1, <2>1, <2>2, <2>3 DEF Awaited
  <1>5. ASSUME messages'[k].status = "streaming"
        PROVE  Driven(k)'
    <2>1. JobSays(jobs[t], Chunks, Runs)
      BY <1>1, TypedParts
    <2>2. WritesTo(t, outcome, jobs[t].message, Chunks, Runs)
      BY <1>1, <2>1, AnswerWritten
    <2>3. ~(k = jobs[t].message /\ WritesFinal(t, outcome))
      BY <1>5, <2>2 DEF WritesTo, Terminal
    <2>4. messages[k].status = "streaming"
      BY <1>5, <2>2, <2>3 DEF WritesTo
    <2>5. Driven(k)
      BY <1>2, <2>4, DrivenIs
    <2>6. ~Issued(t, k)
      BY <1>2, <2>3 DEF Issued, WritesFinal
    <2>7. CASE \E u \in Tasks : Issued(u, k)
      BY <1>3, <2>6, <2>7 DEF Driven, OthersKeep
    <2>8. CASE /\ k = seen.turn /\ sink.messageId = k /\ sink.active
               /\ ~nz.finalized \/ \E u \in Tasks : FinalPending(u) /\ jobs[u].message = k
      <3>1. \A u \in Tasks \ {t} : FinalPending(u) /\ jobs[u].message = k
                                      => FinalPending(u)' /\ jobs'[u].message = k
        BY <1>3 DEF OthersKeep
      <3>2. CASE /\ NoJobLeft(t) /\ sink' = sink
                 /\ outcome = "answered" =>
                      \/ Len(jobs[t].writes) = 1 \/ jobs[t].status = "none"
                      \/ ~sink.active
        <4>1. \A l : l = 1 => ~(l > 1)
          OBVIOUS
        <4>2. ~(FinalPending(t) /\ jobs[t].message = k)
          BY <1>2, <2>8, <3>2, <4>1 DEF FinalPending
        <4>3. QED  BY <1>1, <2>8, <3>1, <3>2, <4>2 DEF Driven
      <3>3. CASE /\ JobLeft(t, jobs[t].message, Tail(jobs[t].writes), jobs[t].status)
                 /\ sink'.active = sink.active
                 /\ FinalPending(t)' <=> FinalPending(t)
        <4>1. FinalPending(t) /\ jobs[t].message = k => FinalPending(t)' /\ jobs'[t].message = k
          BY <3>3 DEF JobLeft
        <4>2. QED  BY <1>1, <2>8, <3>1, <3>3, <4>1 DEF Driven
      <3>4. CASE \A j : Issued(t, j)' <=> j = sink.messageId
        BY <1>1, <2>8, <3>4 DEF Driven
      <3>5. QED  BY <3>2, <3>3, <3>4, AnsweredEffect
    <2>9. QED  BY <2>5, <2>7, <2>8 DEF Driven
  <1>6. QED  BY <1>4, <1>5

LEMMA DrivenBegins ==
  ASSUME PipeInv, DrivenInv, NEW k \in Turns, BeginsTurn(k)
  PROVE  DrivenInv'
  <1> SUFFICES ASSUME NEW j \in Turns, Spared(j)'
               PROVE  /\ send'[j] = "starting" => Awaited(j)'
                      /\ messages'[j].status = "streaming" => Driven(j)'
    BY DrivenNext
  <1>1. /\ ~nz'.finalized /\ sink'.active /\ seen'.turn = k
        /\ \A i \in Turns \ {k} : send'[i] = send[i]
        /\ seen'.misplaced = seen.misplaced /\ seen'.failed = seen.failed
        /\ seen'.overlapped = seen.overlapped \cup Superseded(k)
        /\ seen'.crossed = seen.crossed \cup Crossed
        /\ jobs' = jobs /\ messages' = messages
    BY BeginsParts
  <1>2. Spared(j) /\ j \notin Superseded(k)
    BY <1>1 DEF Spared
  <1>3. ~(j = seen.turn /\ sink.active)
    BY <1>2 DEF Superseded
  <1>4. \A t, i : /\ FinalPending(t)' <=> FinalPending(t)
                  /\ Issued(t, i)' <=> Issued(t, i)
    BY <1>1 DEF FinalPending, Issued
  <1>5. ASSUME send'[j] = "starting"
        PROVE  Awaited(j)'
    <2>1. j = k
      BY <1>1, <1>2, <1>3, <1>5, DrivenIs DEF Awaited
    <2>2. \A t \in Tasks : ~FinalPending(t)
      BY <1>2, <2>1 DEF Superseded
    <2>3. QED  BY <1>1, <1>4, <2>1, <2>2 DEF Awaited
  <1>6. ASSUME messages'[j].status = "streaming"
        PROVE  Driven(j)'
    <2>1. \E t \in Tasks : Issued(t, j)
      BY <1>1, <1>2, <1>3, <1>6, DrivenIs DEF Driven
    <2>2. QED  BY <1>4, <2>1 DEF Driven
  <1>7. QED  BY <1>5, <1>6

LEMMA DrivenStarted ==
  ASSUME PipeInv, DrivenInv, NEW k \in Turns, NEW ok \in BOOLEAN, Starts(k, ok)
  PROVE  DrivenInv'
  <1> SUFFICES ASSUME NEW j \in Turns, Spared(j)'
               PROVE  /\ send'[j] = "starting" => Awaited(j)'
                      /\ messages'[j].status = "streaming" => Driven(j)'
    BY DrivenNext
  <1>1. /\ send[k] = "starting" /\ send'[k] \in {"flushing", "done", "failed"}
        /\ \A i \in Turns \ {k} : send'[i] = send[i] /\ messages'[i] = messages[i]
        /\ nz' = nz /\ seen'.turn = seen.turn /\ sink'.active = sink.active
        /\ sink.messageId < k /\ k <= seen.turn
        /\ messages[k] = NewMessage
        /\ ok => sink'.messageId = k
        /\ seen'.misplaced = seen.misplaced /\ seen'.overlapped = seen.overlapped
        /\ seen'.failed = IF ok THEN seen.failed ELSE seen.failed \cup {k}
        /\ OthersKeep(Flush(k))
        /\ ~FinalPending(Flush(k))' /\ \A i : ~Issued(Flush(k), i)
    BY StartedTyped DEF Starts
  <1>2. Spared(j)
    BY <1>1 DEF Spared
  <1>3. \A t \in Tasks : /\ FinalPending(t)' => FinalPending(t)
                         /\ \A i : Issued(t, i) => Issued(t, i)'
    BY <1>1 DEF OthersKeep
  <1>4. ASSUME send'[j] = "starting"
        PROVE  Awaited(j)'
    <2>1. Awaited(j)
      BY <1>1, <1>2, <1>4, DrivenIs
    <2>2. QED  BY <1>1, <1>3, <2>1 DEF Awaited
  <1>5. ASSUME messages'[j].status = "streaming"
        PROVE  Driven(j)'
    <2>1. CASE j = k
      <3>1. ok
        BY <1>1, <2>1 DEF Spared
      <3>2. Awaited(k)
        BY <1>1, <1>2, <2>1, DrivenIs
      <3>3. QED  BY <1>1, <2>1, <3>1, <3>2 DEF Awaited, Driven
    <2>2. CASE j # k
      <3>1. Driven(j)
        BY <1>1, <1>2, <1>5, <2>2, DrivenIs
      <3>2. sink.messageId # seen.turn
        <4>1. \A a, b, c \in Nat : a < b /\ b <= c => a # c
          OBVIOUS
        <4>2. sink.messageId \in Nat /\ k \in Nat /\ seen.turn \in Nat
          BY TypedParts DEF PipeInv
        <4>3. QED  BY <1>1, <4>1, <4>2
      <3>3. QED  BY <1>3, <3>1, <3>2 DEF Driven
    <2>3. QED  BY <2>1, <2>2
  <1>6. QED  BY <1>4, <1>5

-----------------------------------------------------------------------------
(* Reports stay with their run *)

(* A batch may be about more runs, and one that ends the turn about any.      *)
LEMMA SaysOfOthers ==
  ASSUME NEW w, NEW S, NEW U, NEW V, NEW c \in BOOLEAN, Says(w, S, U, c), c \/ U \subseteq V
  PROVE  Says(w, S, V, c)
  <1> DEFINE E == Plain(S, U) \cup ClosingFinal(S)
             F == Plain(S, V) \cup ClosingFinal(S)
  <1>1. \A e \in E : e.type # "provenance" \/ U \subseteq V => e \in F
    BY DEF Plain
  <1>2. w \in Seq(E)
    BY DEF Says
  <1>3. \A i \in 1 .. Len(w) : w[i] \in E
    BY <1>2
  <1>4. c => \A i \in 1 .. Len(w) : w[i].type # "provenance"
    BY DEF Says
  <1>5. \A i \in 1 .. Len(w) : w[i] \in F
    BY <1>1, <1>3, <1>4
  <1>6. w \in Seq(F)
    <2> HIDE DEF E, F
    <2>1. Len(w) \in Nat /\ w \in [1 .. Len(w) -> E]
      BY <1>2
    <2>2. w \in [1 .. Len(w) -> F]
      BY <1>5, <2>1
    <2>3. QED  BY <2>1, <2>2, SeqDef
  <1>7. QED  BY <1>6 DEF Says

LEMMA ReportsRests ==
  ASSUME PipeInv, ReportsInv, Rests
  PROVE  ReportsInv'
  <1>1. /\ jobs' = jobs /\ messages' = messages /\ nz'.ownRunIds = nz.ownRunIds
        /\ ackRunId' = ackRunId
        /\ seen'.turn = seen.turn /\ seen'.misplaced = seen.misplaced
        /\ seen'.strayed = seen.strayed
    BY RestsTyped DEF Rests, Continues, SendsGoOn
  <1>2. \A t, S, U : JobSays(jobs'[t], S, U) <=> JobSays(jobs[t], S, U)
    BY <1>1
  <1>3. OwnRuns(seen.turn)' = OwnRuns(seen.turn)
    BY <1>1 DEF OwnRuns
  <1>4. QED  BY <1>1, <1>2, <1>3 DEF ReportsInv

LEMMA ReportsApplies ==
  ASSUME PipeInv, ReportsInv, NEW t, NEW n, NEW w, NEW st, Applies(t, n, w, st)
  PROVE  ReportsInv'
  <1>1. /\ nz'.ownRunIds = n.ownRunIds /\ messages' = messages
        /\ seen'.turn = seen.turn /\ seen.strayed \subseteq seen'.strayed
    BY AppliesTurns, AppliesTyped
  <1>2. seen.turn \in Turns \ seen'.strayed =>
          n.ownRunIds = OwnRuns(seen.turn) /\ Says(w, Chunks, RunsOf(seen.turn), st # "none")
    BY DEF Applies
  <1>2a. OwnRuns(seen.turn)' = OwnRuns(seen.turn)
    BY <1>1 DEF Applies, SendsGoOn, OwnRuns
  <1>3. ASSUME seen'.misplaced = {}, NEW u \in Tasks, jobs'[u].message \notin seen'.strayed
        PROVE  JobSays(jobs'[u], Chunks, RunsOf(jobs'[u].message))
    <2>1. \A v \in Tasks : jobs[v].message \notin seen'.strayed
                             => JobSays(jobs[v], Chunks, RunsOf(jobs[v].message))
      BY <1>1, <1>3, AppliesAtHome DEF ReportsInv
    <2>2. CASE u # t
      <3>1. jobs'[u] = jobs[u]
        BY <2>2, AppliesEffect DEF OthersKeep
      <3>2. QED  BY <1>3, <2>1, <3>1
    <2>3. CASE u = t /\ NoJobLeft(t)
      BY <2>3, NoJobTyped DEF NoJobLeft
    <2>4. CASE u = t /\ w # <<>> /\ JobLeft(t, sink.messageId, w, st)
      <3>1. sink.messageId = seen.turn /\ seen.turn \in Turns
        BY <1>3, <2>4, AppliesAtHome
      <3>2. /\ jobs'[u].message = seen.turn /\ jobs'[u].writes = w
            /\ jobs'[u].status = st
        BY <2>4, <3>1 DEF JobLeft
      <3>3. Says(w, Chunks, RunsOf(seen.turn), st # "none")
        BY <1>2, <1>3, <3>1, <3>2
      <3>4. QED  BY <3>2, <3>3 DEF JobSays
    <2>5. QED  BY <2>2, <2>3, <2>4, AppliesEffect
  <1>4. seen'.misplaced = {} =>
          \A k \in Turns \ seen'.strayed : messages'[k].reports \subseteq RunsOf(k)
    BY <1>1, AppliesAtHome DEF ReportsInv
  <1>5. QED  BY <1>1, <1>2, <1>2a, <1>3, <1>4 DEF ReportsInv

LEMMA ReportsAnswered ==
  ASSUME PipeInv, ReportsInv, NEW t, NEW outcome, Answered(t, outcome)
  PROVE  ReportsInv'
  <1> USE DEF PipeInv
  <1>1. /\ t \in Tasks
        /\ seen'.turn = seen.turn /\ seen'.misplaced = seen.misplaced
        /\ seen'.strayed = seen.strayed
    BY AnsweredTyped
  <1>2. nz'.ownRunIds = nz.ownRunIds /\ OwnRuns(seen.turn)' = OwnRuns(seen.turn)
    BY <1>1, AnsweredTurns DEF Answered, SendsGoOn, OwnRuns
  <1>3. ASSUME seen.misplaced = {}
        PROVE  /\ \A u \in Tasks : jobs'[u].message \notin seen.strayed
                                     => JobSays(jobs'[u], Chunks, RunsOf(jobs'[u].message))
               /\ \A k \in Turns \ seen.strayed : messages'[k].reports \subseteq RunsOf(k)
    <2> DEFINE W == jobs[t].writes
               c == jobs[t].status # "none"
               m == jobs[t].message
    <2>1. /\ \A v \in Tasks : jobs[v].message \notin seen.strayed
                                => JobSays(jobs[v], Chunks, RunsOf(jobs[v].message))
          /\ \A k \in Turns \ seen.strayed : messages[k].reports \subseteq RunsOf(k)
      BY <1>3 DEF ReportsInv
    <2>2. JobSays(jobs[t], Chunks, Runs) /\ m \in Turns
      <3>1. m \in {NoMessage} \cup Turns /\ m # NoMessage
        BY <1>1, AnsweredEffect, BusyParts DEF MessagesInOrder
      <3>2. QED  BY <1>1, <3>1, TypedParts
    <2>3. WritesTo(t, outcome, jobs[t].message, Chunks, Runs)
      BY <1>1, <2>2, AnswerWritten
    <2>4. m \notin seen.strayed => WritesTo(t, outcome, jobs[t].message, Chunks, RunsOf(m))
      <3>1. RunsOf(m) \subseteq Runs
        BY <2>2 DEF RunsOf, Runs
      <3>2. QED  BY <1>1, <2>1, <3>1, AnswerWritten
    <2>5. \A k \in Turns \ seen.strayed : messages'[k].reports \subseteq RunsOf(k)
      BY <2>1, <2>3, <2>4 DEF WritesTo
    <2>6. Len(W) > 1 => /\ Says(Tail(W), Chunks, Runs, c)
                        /\ m \notin seen.strayed => Says(Tail(W), Chunks, RunsOf(m), c)
      BY <1>1, <2>1, <2>2, RestSaid DEF JobSays
    <2>7. ASSUME NEW u \in Tasks, jobs'[u].message \notin seen.strayed
          PROVE  JobSays(jobs'[u], Chunks, RunsOf(jobs'[u].message))
      <3>1. CASE u # t
        <4>1. jobs'[u] = jobs[u]
          BY <3>1, AnsweredEffect DEF OthersKeep
        <4>2. QED  BY <2>1, <2>7, <4>1
      <3>2. CASE u = t /\ NoJobLeft(t)
        BY <3>2, NoJobTyped DEF NoJobLeft
      <3>3. CASE /\ u = t /\ Len(W) > 1
                 /\ JobLeft(t, m, Tail(W), jobs[t].status)
        BY <2>6, <2>7, <3>3 DEF JobLeft, JobSays
      <3>4. CASE /\ u = t /\ Len(W) > 1 /\ FinalPending(t)
                 /\ JobLeft(t, sink.messageId, Tail(W), jobs[t].status)
        <4>1. c
          BY <3>4 DEF FinalPending
        <4>2. Says(Tail(W), Chunks, RunsOf(sink.messageId), c)
          BY <2>6, <3>4, <4>1, SaysOfOthers
        <4>3. QED  BY <3>4, <4>2 DEF JobLeft, JobSays
      <3>5. QED  BY <3>1, <3>2, <3>3, <3>4, AnsweredEffect
    <2>8. QED  BY <2>5, <2>7
  <1>4. QED  BY <1>1, <1>2, <1>3 DEF ReportsInv

LEMMA ReportsBegins ==
  ASSUME PipeInv, ReportsInv, NEW k \in Turns, BeginsTurn(k)
  PROVE  ReportsInv'
  <1>1. /\ nz'.ownRunIds = OwnRuns(k)' /\ seen'.turn = k /\ jobs' = jobs /\ messages' = messages
        /\ seen'.misplaced = seen.misplaced /\ seen'.strayed = seen.strayed
    BY BeginsParts
  <1>2. \A t, S, U : JobSays(jobs'[t], S, U) <=> JobSays(jobs[t], S, U)
    BY <1>1
  <1>3. OwnRuns(seen.turn)' = OwnRuns(k)'
    BY <1>1 DEF OwnRuns
  <1>4. QED  BY <1>1, <1>2, <1>3 DEF ReportsInv

(* A flush says nothing, or the reports of its turn.                          *)
LEMMA FlushSays ==
  ASSUME NEW k \in Turns, NEW ok \in BOOLEAN, Starts(k, ok), NEW S
  PROVE  JobSays(jobs'[Flush(k)], S, RunsOf(jobs'[Flush(k)].message))
  <1>1. /\ JobSays(jobs'[Flush(k)], S, RunsOf(k)) /\ jobs'[Flush(k)].status = "none"
        /\ Busy(Flush(k))' => jobs'[Flush(k)].message = k
    BY DEF Starts
  <1>2. CASE Busy(Flush(k))'
    BY <1>1, <1>2
  <1>3. CASE ~Busy(Flush(k))'
    <2>1. jobs'[Flush(k)].writes = <<>> /\ (jobs'[Flush(k)].status # "none") = FALSE
      BY <1>1, <1>3 DEF Busy
    <2>2. QED  BY <2>1, NothingSaid DEF JobSays
  <1>4. QED  BY <1>2, <1>3

LEMMA ReportsStarted ==
  ASSUME PipeInv, ReportsInv, NEW k \in Turns, NEW ok \in BOOLEAN, Starts(k, ok)
  PROVE  ReportsInv'
  <1>1. /\ nz' = nz /\ ackRunId' = ackRunId /\ OthersKeep(Flush(k))
        /\ seen'.turn = seen.turn /\ seen'.misplaced = seen.misplaced
        /\ seen'.strayed = seen.strayed
        /\ \A j \in Turns : messages'[j].reports = messages[j].reports
    BY StartedTyped DEF Starts
  <1>2. JobSays(jobs'[Flush(k)], Chunks, RunsOf(jobs'[Flush(k)].message))
    BY FlushSays
  <1>3. \A t \in Tasks \ {Flush(k)} : jobs'[t] = jobs[t]
    BY <1>1 DEF OthersKeep
  <1>4. OwnRuns(seen.turn)' = OwnRuns(seen.turn)
    BY <1>1 DEF OwnRuns
  <1>5. QED  BY <1>1, <1>2, <1>3, <1>4 DEF ReportsInv

-----------------------------------------------------------------------------
(* Turns do not mix *)

(* The fetches still asked, and none, as the object goes on.                  *)
LEMMA FetchesGoOn ==
  ASSUME NEW n, Continues(n)
  PROVE  /\ \A k \in Turns : fetch'[k] = "asked" => fetch[k] = "asked" \/ k = seen.turn
         /\ \A k \in Turns : fetch'[k] = "none" => fetch[k] = "none"
         /\ \A k : Kept(n, n, Own(k)) => Kept(nz', nz', Own(k))
  BY OwnChunks DEF Continues

LEMMA TextRests ==
  ASSUME PipeInv, TextInv, Rests
  PROVE  TextInv'
  <1>1. /\ jobs' = jobs /\ messages' = messages /\ Continues(nz)
        /\ seen'.turn = seen.turn /\ seen'.strayed = seen.strayed /\ (Unmixed' <=> Unmixed)
    BY RestsTyped DEF Rests, Unmixed
  <1>2. \A t : /\ FinalPending(t)' <=> FinalPending(t)
               /\ Busy(t)' <=> Busy(t)
    BY <1>1 DEF FinalPending, Busy
  <1>3. \A t, S, U : JobSays(jobs'[t], S, U) <=> JobSays(jobs[t], S, U)
    BY <1>1
  <1>4. Own(seen'.turn) = Own(seen.turn)
    BY <1>1
  <1>5. QED  BY <1>1, <1>2, <1>3, <1>4, FetchesGoOn DEF TextInv

LEMMA TextApplies ==
  ASSUME PipeInv, TextInv, NEW t, NEW n, NEW w, NEW st, Applies(t, n, w, st)
  PROVE  TextInv'
  <1> SUFFICES ASSUME Unmixed'
               PROVE  TextInv'
    BY DEF TextInv
  <1>1. /\ seen'.turn = seen.turn /\ messages' = messages
        /\ seen'.overlapped = seen.overlapped
        /\ seen'.crossed = seen.crossed /\ seen'.stale = seen.stale
        /\ seen.strayed \subseteq seen'.strayed
    BY AppliesTyped, AppliesTurns
  <1>2. Unmixed /\ seen'.misplaced = {}
    BY <1>1, AppliesAtHome DEF Unmixed
  <1>3. /\ seen.turn \notin seen'.strayed =>
             Kept(n, n, Own(seen.turn)) /\ Says(w, Own(seen.turn), Runs, st # "none")
        /\ Continues(n)
    BY <1>1 DEF Applies, TurnUnmixed
  <1>4. /\ seen'.turn \notin seen'.strayed => Kept(nz', nz', Own(seen'.turn))
        /\ \A k \in Turns : fetch'[k] = "asked" => k = seen'.turn
    BY <1>1, <1>2, <1>3, FetchesGoOn DEF TextInv
  <1>5. ASSUME NEW u \in Tasks
        PROVE  /\ FinalPending(u)' => jobs'[u].message = seen'.turn
               /\ Busy(u)' /\ jobs'[u].message \notin seen'.strayed
                    => JobSays(jobs'[u], Own(jobs'[u].message), Runs)
    <2>1. CASE u # t
      <3>1. /\ jobs'[u] = jobs[u] /\ (FinalPending(u)' <=> FinalPending(u))
            /\ Busy(u)' <=> Busy(u)
        BY <2>1, AppliesEffect DEF OthersKeep
      <3>2. QED  BY <1>1, <1>2, <3>1 DEF TextInv
    <2>2. CASE u = t /\ NoJobLeft(t)
      BY <2>2 DEF NoJobLeft
    <2>3. CASE u = t /\ w # <<>> /\ JobLeft(t, sink.messageId, w, st)
      <3>1. sink.messageId = seen.turn
        BY <1>2, <2>3, AppliesAtHome
      <3>2. jobs'[u].message = seen.turn /\ jobs'[u].writes = w /\ jobs'[u].status = st
        BY <2>3, <3>1 DEF JobLeft
      <3>3. seen.turn \notin seen'.strayed => JobSays(jobs'[u], Own(seen.turn), Runs)
        BY <1>3, <3>2 DEF JobSays
      <3>4. QED  BY <1>1, <3>2, <3>3
    <2>4. QED  BY <2>1, <2>2, <2>3, AppliesEffect
  <1>6. \A k \in Turns \ seen'.strayed : messages'[k].text \in Seq(Own(k))
    BY <1>1, <1>2 DEF TextInv
  <1>7. QED  BY <1>4, <1>5, <1>6 DEF TextInv

LEMMA TextAnswered ==
  ASSUME PipeInv, TextInv, PendingInv, NEW t, NEW outcome, Answered(t, outcome)
  PROVE  TextInv'
  <1> USE DEF PipeInv
  <1> SUFFICES ASSUME Unmixed'
               PROVE  TextInv'
    BY DEF TextInv
  <1> DEFINE W == jobs[t].writes
             c == jobs[t].status # "none"
             m == jobs[t].message
  <1>1. /\ t \in Tasks /\ seen'.turn = seen.turn
        /\ seen'.misplaced = seen.misplaced /\ seen'.overlapped = seen.overlapped
        /\ seen'.crossed = seen.crossed
        /\ seen'.stale = seen.stale /\ seen'.strayed = seen.strayed
    BY AnsweredTyped
  <1>2. Unmixed
    BY <1>1 DEF Unmixed
  <1>3. Continues(nz)
    BY DEF Answered
  <1>4. /\ seen'.turn \notin seen'.strayed => Kept(nz', nz', Own(seen'.turn))
        /\ \A k \in Turns : fetch'[k] = "asked" => k = seen'.turn
    BY <1>1, <1>2, <1>3, FetchesGoOn DEF TextInv
  <1>5. /\ m \notin seen.strayed => JobSays(jobs[t], Own(m), Runs)
        /\ JobSays(jobs[t], Chunks, Runs) /\ Own(m) \subseteq Chunks
        /\ \A k \in Turns \ seen.strayed : messages[k].text \in Seq(Own(k))
    BY <1>1, <1>2, AnsweredEffect, OwnChunks, TypedParts DEF TextInv
  <1>6. /\ WritesTo(t, outcome, jobs[t].message, Chunks, Runs)
        /\ m \notin seen.strayed => WritesTo(t, outcome, jobs[t].message, Own(m), Runs)
    BY <1>1, <1>5, AnswerWritten
  <1>7. \A k \in Turns \ seen.strayed : messages'[k].text \in Seq(Own(k))
    BY <1>5, <1>6 DEF WritesTo
  <1>8. Len(W) > 1 /\ m \notin seen.strayed => Says(Tail(W), Own(m), Runs, c)
    BY <1>5, RestSaid DEF JobSays
  <1>9. ASSUME NEW u \in Tasks
        PROVE  /\ FinalPending(u)' => jobs'[u].message = seen'.turn
               /\ Busy(u)' /\ jobs'[u].message \notin seen.strayed
                    => JobSays(jobs'[u], Own(jobs'[u].message), Runs)
    <2>1. CASE u # t
      <3>1. /\ jobs'[u] = jobs[u] /\ (FinalPending(u)' <=> FinalPending(u))
            /\ Busy(u)' <=> Busy(u)
        BY <2>1, AnsweredEffect DEF OthersKeep
      <3>2. QED  BY <1>1, <1>2, <3>1 DEF TextInv
    <2>2. CASE u = t /\ NoJobLeft(t)
      BY <2>2 DEF NoJobLeft
    <2>3. CASE /\ u = t /\ Len(W) > 1
               /\ JobLeft(t, m, Tail(W), jobs[t].status)
               /\ FinalPending(t)' <=> FinalPending(t)
      <3>1. /\ jobs'[u].message = m /\ jobs'[u].writes = Tail(W)
            /\ jobs'[u].status = jobs[t].status
        BY <2>3 DEF JobLeft
      <3>2. m \notin seen.strayed => JobSays(jobs'[u], Own(m), Runs)
        BY <1>8, <2>3, <3>1 DEF JobSays
      <3>3. FinalPending(u)' => m = seen.turn
        BY <1>1, <1>2, <2>3 DEF TextInv
      <3>4. QED  BY <1>1, <3>1, <3>2, <3>3
    <2>4. CASE /\ u = t /\ Len(W) > 1 /\ FinalPending(t) /\ ~FinalPending(t)'
               /\ JobLeft(t, sink.messageId, Tail(W), jobs[t].status)
      <3>1. m = seen.turn
        BY <1>1, <1>2, <2>4 DEF TextInv
      <3>2. sink.messageId \in Turns
        BY <1>1, AnsweredEffect, TypedParts DEF MessagesInOrder
      <3>3. sink.messageId = seen.turn
        BY <1>1, <1>2, <2>4, <3>2 DEF PendingInv, Unmixed
      <3>4. /\ jobs'[u].message = m /\ jobs'[u].writes = Tail(W)
            /\ jobs'[u].status = jobs[t].status
        BY <2>4, <3>1, <3>3 DEF JobLeft
      <3>5. m \notin seen.strayed => JobSays(jobs'[u], Own(m), Runs)
        BY <1>8, <2>4, <3>4 DEF JobSays
      <3>6. QED  BY <2>4, <3>4, <3>5
    <2>5. QED  BY <2>1, <2>2, <2>3, <2>4, AnsweredEffect
  <1>10. QED  BY <1>1, <1>4, <1>7, <1>9 DEF TextInv

LEMMA TextBegins ==
  ASSUME PipeInv, TextInv, NEW k \in Turns, BeginsTurn(k)
  PROVE  TextInv'
  <1> SUFFICES ASSUME Unmixed'
               PROVE  TextInv'
    BY DEF TextInv
  <1>1. /\ \A S \in SUBSET Chunks : Kept(nz', nz', S)
        /\ seen'.turn = k
        /\ seen'.misplaced = seen.misplaced /\ seen'.strayed = seen.strayed
        /\ seen'.overlapped = seen.overlapped \cup Superseded(k)
        /\ seen'.crossed = seen.crossed \cup Crossed
        /\ seen'.stale <=> seen.stale \/ \E j \in Turns : fetch[j] = "asked"
        /\ fetch' = fetch /\ jobs' = jobs /\ messages' = messages
    BY BeginsParts
  <1>2. Unmixed /\ Superseded(k) = {} /\ \A j \in Turns : fetch[j] # "asked"
    BY <1>1 DEF Unmixed
  <1>3. \A t \in Tasks : ~FinalPending(t)
    BY <1>2 DEF Superseded
  <1>4. \A t : /\ FinalPending(t)' <=> FinalPending(t)
               /\ Busy(t)' <=> Busy(t)
    BY <1>1 DEF FinalPending, Busy
  <1>5. \A t, S, U : JobSays(jobs'[t], S, U) <=> JobSays(jobs[t], S, U)
    BY <1>1
  <1>6. Kept(nz', nz', Own(seen'.turn))
    BY <1>1, OwnChunks
  <1>7. QED  BY <1>1, <1>2, <1>3, <1>4, <1>5, <1>6 DEF TextInv

LEMMA TextStarted ==
  ASSUME PipeInv, TextInv, NEW k \in Turns, NEW ok \in BOOLEAN, Starts(k, ok)
  PROVE  TextInv'
  <1>0. /\ seen'.turn = seen.turn /\ seen'.strayed = seen.strayed /\ (Unmixed' <=> Unmixed)
    BY StartedTyped DEF Unmixed
  <1> SUFFICES ASSUME Unmixed
               PROVE  TextInv'
    BY <1>0 DEF TextInv
  <1>1. /\ nz' = nz /\ fetch' = fetch /\ OthersKeep(Flush(k))
        /\ ~FinalPending(Flush(k))'
        /\ \A j \in Turns : messages'[j].text = messages[j].text
        /\ Busy(Flush(k))' => jobs'[Flush(k)].message = k
        /\ jobs'[Flush(k)].status = "none"
        /\ JobSays(jobs'[Flush(k)], Own(k), RunsOf(k))
    BY DEF Starts
  <1>2. JobSays(jobs'[Flush(k)], Own(k), Runs)
    <2>1. Says(jobs'[Flush(k)].writes, Own(k), RunsOf(k), FALSE)
      BY <1>1 DEF JobSays
    <2>2. Says(jobs'[Flush(k)].writes, Own(k), Runs, FALSE)
      BY <2>1, SaysOfOthers DEF RunsOf, Runs
    <2>3. (jobs'[Flush(k)].status # "none") = FALSE
      BY <1>1
    <2>4. QED  BY <2>2, <2>3 DEF JobSays
  <1>3. \A t \in Tasks \ {Flush(k)} : /\ jobs'[t] = jobs[t]
                                      /\ FinalPending(t)' <=> FinalPending(t)
                                      /\ Busy(t)' <=> Busy(t)
    BY <1>1 DEF OthersKeep
  <1>4. \A t \in Tasks : /\ FinalPending(t)' => jobs'[t].message = seen.turn
                         /\ Busy(t)' /\ jobs'[t].message \notin seen.strayed
                              => JobSays(jobs'[t], Own(jobs'[t].message), Runs)
    BY <1>1, <1>2, <1>3 DEF TextInv
  <1>5. QED  BY <1>0, <1>1, <1>4 DEF TextInv

-----------------------------------------------------------------------------
(* What the loop still writes *)

LEMMA TaskSplit ==
  ASSUME NEW t \in Tasks
  PROVE  t = Loop \/ \E k \in Turns : t = Flush(k) \/ t = Recovery(k)
  <1>1. MaxTurns \in Nat /\ t \in 0 .. 2 * MaxTurns
    BY TurnPipelineAssumption DEF Tasks
  <1>2. CASE t = 0
    BY <1>2 DEF Loop
  <1>3. CASE t \in 1 .. MaxTurns
    BY <1>3 DEF Flush, Turns
  <1>4. CASE t \in MaxTurns + 1 .. 2 * MaxTurns
    <2>1. t - MaxTurns \in Turns /\ t = Recovery(t - MaxTurns)
      BY <1>1, <1>4 DEF Recovery, Turns
    <2>2. QED  BY <2>1
  <1>5. t = 0 \/ t \in 1 .. MaxTurns \/ t \in MaxTurns + 1 .. 2 * MaxTurns
    BY <1>1
  <1>6. QED  BY <1>2, <1>3, <1>4, <1>5

(* Before any recovery, only the loop writes more than reports.               *)
LEMMA WithoutRecovery ==
  ASSUME PipeInv, \A k \in Turns : fetch[k] = "none", NEW t \in Tasks, Busy(t), t # Loop
  PROVE  jobs[t].status = "none" /\ jobs[t].writes[1].type = "provenance"
  <1>1. \E k \in Turns : t = Flush(k)
    BY TaskSplit DEF PipeInv, TasksInOrder
  <1>2. 1 \in 1 .. Len(jobs[t].writes)
    BY BusyParts DEF PipeInv
  <1>3. QED  BY <1>1, <1>2 DEF PipeInv, TasksInOrder

LEMMA EndedRests ==
  ASSUME PipeInv, EndedInv, Rests
  PROVE  EndedInv'
  <1>1. /\ jobs' = jobs /\ messages' = messages /\ sink' = sink /\ Continues(nz)
        /\ seen'.misplaced = seen.misplaced
    BY RestsTyped DEF Rests
  <1>2. Busy(Loop)' <=> Busy(Loop)
    BY <1>1 DEF Busy
  <1>3. FinalPending(Loop)' <=> FinalPending(Loop)
    BY <1>1 DEF FinalPending
  <1>4. QED  BY <1>1, <1>2, <1>3, FetchesGoOn DEF EndedInv

LEMMA EndedApplies ==
  ASSUME PipeInv, EndedInv, NEW t, NEW n, NEW w, NEW st, Applies(t, n, w, st)
  PROVE  EndedInv'
  <1> SUFFICES ASSUME seen'.misplaced = {}, \A k \in Turns : fetch'[k] = "none", Busy(Loop)'
               PROVE  /\ messages'[jobs'[Loop].message].status \notin Terminal
                      /\ messages'[sink'.messageId].status \notin Terminal
    BY DEF EndedInv
  <1>1. messages' = messages /\ sink'.messageId = sink.messageId
    BY AppliesTurns, AppliesTyped
  <1>2. t = Loop
    BY DEF Applies
  <1>3. w # <<>> /\ jobs'[Loop].message = sink.messageId
    BY <1>2, TaskKinds, AppliesJobs
  <1>4. sink.messageId = seen.turn /\ seen.turn \in Turns /\ sink.active
    BY <1>3, AppliesAtHome
  <1>5. messages[seen.turn].status \notin Terminal
    BY <1>4 DEF PipeInv, MessagesInOrder, Closed
  <1>6. QED  BY <1>1, <1>3, <1>4, <1>5

LEMMA EndedAnswered ==
  ASSUME PipeInv, EndedInv, NEW t, NEW outcome, Answered(t, outcome)
  PROVE  EndedInv'
  <1> USE DEF PipeInv
  <1> SUFFICES ASSUME seen'.misplaced = {}, \A k \in Turns : fetch'[k] = "none", Busy(Loop)'
               PROVE  /\ messages'[jobs'[Loop].message].status \notin Terminal
                      /\ FinalPending(Loop)' =>
                           messages'[sink'.messageId].status \notin Terminal
    BY DEF EndedInv
  <1>1. /\ t \in Tasks /\ seen'.misplaced = seen.misplaced
        /\ sink'.messageId = sink.messageId /\ Busy(t)
    BY AnsweredTyped, AnsweredEffect
  <1>2. \A k \in Turns : fetch[k] = "none"
    BY FetchesGoOn DEF Answered
  <1>3. Busy(Loop)
    BY <1>1, AnsweredJobs, TaskKinds
  <1>4. ~WritesFinal(t, outcome)
    <2>1. CASE t = Loop
      <3>1. Len(jobs[t].writes) > 1
        BY <2>1, AnsweredJobs, TaskKinds
      <3>2. \A l : l > 1 => l # 1
        OBVIOUS
      <3>3. QED  BY <3>1, <3>2 DEF WritesFinal
    <2>2. CASE t # Loop
      BY <1>1, <1>2, <2>2, WithoutRecovery DEF WritesFinal
    <2>3. QED  BY <2>1, <2>2
  <1>5. \A k \in Turns : messages'[k].status = messages[k].status
    <2>1. JobSays(jobs[t], Chunks, Runs)
      BY <1>1, TypedParts
    <2>2. WritesTo(t, outcome, jobs[t].message, Chunks, Runs)
      BY <1>1, <2>1, AnswerWritten
    <2>3. QED  BY <1>4, <2>2 DEF WritesTo
  <1>6. /\ messages[jobs[Loop].message].status \notin Terminal
        /\ FinalPending(Loop) => messages[sink.messageId].status \notin Terminal
    BY <1>1, <1>2, <1>3 DEF EndedInv
  <1>7. FinalPending(Loop)' => FinalPending(Loop)
    BY AnsweredPending, TaskKinds
  <1>8. /\ jobs[Loop].message \in Turns /\ sink.messageId \in Turns
    BY <1>3, BusyParts, TypedParts, TaskKinds DEF MessagesInOrder
  <1>9. \/ jobs'[Loop].message = jobs[Loop].message
        \/ jobs'[Loop].message = sink.messageId /\ FinalPending(Loop)
    BY AnsweredJobs, TaskKinds
  <1>10. QED  BY <1>1, <1>5, <1>6, <1>7, <1>8, <1>9

LEMMA EndedBegins ==
  ASSUME PipeInv, EndedInv, NEW k \in Turns, BeginsTurn(k)
  PROVE  EndedInv'
  <1>1. /\ jobs' = jobs /\ messages' = messages /\ sink'.messageId = sink.messageId
        /\ fetch' = fetch /\ seen'.misplaced = seen.misplaced
    BY BeginsParts
  <1>2. Busy(Loop)' <=> Busy(Loop)
    BY <1>1 DEF Busy
  <1>3. FinalPending(Loop)' <=> FinalPending(Loop)
    BY <1>1 DEF FinalPending
  <1>4. QED  BY <1>1, <1>2, <1>3 DEF EndedInv

LEMMA EndedStarted ==
  ASSUME PipeInv, EndedInv, NEW k \in Turns, NEW ok \in BOOLEAN, Starts(k, ok)
  PROVE  EndedInv'
  <1>1. /\ seen'.misplaced = seen.misplaced /\ fetch' = fetch
        /\ OthersKeep(Flush(k)) /\ Flush(k) # Loop
        /\ \A j \in Turns \ {k} : messages'[j] = messages[j]
        /\ messages[k] = NewMessage
        /\ messages'[k] = messages[k] \/ messages'[k].status = "streaming"
        /\ ok => sink'.messageId = k
        /\ ~ok => sink' = sink
    BY StartedTyped DEF Starts
  <1>2. /\ jobs'[Loop] = jobs[Loop] /\ (Busy(Loop)' <=> Busy(Loop))
        /\ FinalPending(Loop)' <=> FinalPending(Loop)
    BY <1>1, TaskKinds DEF OthersKeep
  <1>3. messages'[k].status \notin Terminal
    BY <1>1 DEF NewMessage, Terminal
  <1>4. Busy(Loop) => jobs[Loop].message \in Turns /\ sink.messageId \in Turns
    BY BusyParts, TypedParts, TaskKinds DEF PipeInv, MessagesInOrder
  <1>5. Busy(Loop) /\ messages[jobs[Loop].message].status \notin Terminal
          => messages'[jobs'[Loop].message].status \notin Terminal
    BY <1>1, <1>2, <1>3, <1>4
  <1>6. Busy(Loop) /\ messages[sink.messageId].status \notin Terminal
          => messages'[sink'.messageId].status \notin Terminal
    BY <1>1, <1>3, <1>4
  <1>7. QED  BY <1>1, <1>2, <1>5, <1>6 DEF EndedInv

-----------------------------------------------------------------------------
(* The inductive invariant *)

PipelineInv ==
  /\ PipeInv
  /\ PendingInv
  /\ OnceInv
  /\ DrivenInv
  /\ ReportsInv
  /\ TextInv
  /\ EndedInv

(* Every step is of one of five kinds.                                        *)
LEMMA StepKinds ==
  ASSUME PipelineInv, Next
  PROVE  \/ Rests
         \/ SomeApplies
         \/ \E t, outcome : Answered(t, outcome)
         \/ \E k \in Turns : BeginsTurn(k)
         \/ \E k \in Turns : \E ok \in BOOLEAN : Starts(k, ok)
  <1> USE DEF PipelineInv
  <1>1. Outcomes \subseteq {"answered", "refused", "lost"}
    BY DEF Outcomes
  <1>2. CASE \E k \in Turns : Sends(k) \/ SendFails(k)
    BY <1>2, SendsRests
  <1>3. CASE \E k \in Turns : Started(k)
    <2>1. PICK k \in Turns : Started(k)
      BY <1>3
    <2>2. Starts(k, TRUE)
      BY <2>1, StartedParts
    <2>3. QED  BY <2>2
  <1>4. CASE \E k \in Turns : \E named \in {k, NoRun} : Begins(k, named)
    BY <1>4 DEF BeginsTurn
  <1>5. CASE \E k \in Turns, outcome \in Outcomes : StartFails(k, outcome)
    <2>1. PICK k \in Turns, outcome \in Outcomes : StartFails(k, outcome)
      BY <1>5
    <2>2. Starts(k, FALSE)
      BY <2>1, StartedParts
    <2>3. QED  BY <2>2
  <1>6. CASE \E k \in Turns : \E f \in FramesOf(k) : Feeds(k, f) \/ FeedsInactive(k, f)
    <2>1. PICK k \in Turns : \E f \in FramesOf(k) : Feeds(k, f) \/ FeedsInactive(k, f)
      BY <1>6
    <2>2. PICK f \in FramesOf(k) : Feeds(k, f) \/ FeedsInactive(k, f)
      BY <2>1
    <2>3. CASE Feeds(k, f)
      BY <2>3, FeedsApplies
    <2>4. CASE FeedsInactive(k, f)
      BY <2>4, InactiveRests
    <2>5. QED  BY <2>2, <2>3, <2>4
  <1>7. CASE Ticks
    BY <1>7, TicksApplies, InactiveRests
  <1>8. CASE Closes
    BY <1>8, ClosesApplies
  <1>9. CASE \E outcome \in Outcomes : LoopWritten(outcome)
    BY <1>1, <1>9, LoopAnswered
  <1>10. CASE \E t \in Tasks \ {Loop}, outcome \in Outcomes : TaskWritten(t, outcome)
    BY <1>1, <1>10, TaskAnswered
  <1>11. CASE \E k \in Turns : \E said \in {<<>>, Recovered(k)} : Recovers(k, said)
    BY <1>11, RecoversApplies
  <1>12. CASE Elapses
    BY <1>12, ElapsesRests
  <1>13. QED  BY <1>2, <1>3, <1>4, <1>5, <1>6, <1>7, <1>8, <1>9, <1>10, <1>11, <1>12 DEF Next

(* Nothing happened yet.                                                      *)
LEMMA InitPipeline ==
  ASSUME Init
  PROVE  PipelineInv
  <1>1. /\ nz = NewNormalizer
        /\ sink = [messageId |-> NoMessage, active |-> FALSE, provenanceCount |-> 0]
        /\ stash = <<>> /\ loop = "racing" /\ race = Off
        /\ send = [k \in Turns |-> "idle"]
        /\ fetch = [k \in Turns |-> "none"]
        /\ jobs = [t \in Tasks |-> NoJob]
        /\ messages = [k \in Turns |-> NewMessage]
        /\ ackRunId = [k \in Turns |-> NoRun]
        /\ seen = [turn |-> 0, misplaced |-> {}, overlapped |-> {}, crossed |-> {},
                   failed |-> {}, stale |-> FALSE, strayed |-> {}, missed |-> {}]
    BY DEF Init
  <1>2. /\ MaxTurns \in Nat \ {0} /\ Turns \subseteq Nat \ {0} /\ NoMessage = 0
        /\ MAX_PROVENANCE_PARTS_PER_TURN \in Nat \ {0}
    BY TurnPipelineAssumption DEF Turns, NoMessage
  <1>3. /\ NoJob \in JobRecord /\ NoJob.writes = <<>> /\ NoJob.status = "none"
        /\ \A S, U : JobSays(NoJob, S, U)
    BY NoJobTyped
  <1>4. NewMessage \in Message
    BY DEF NewMessage, Message, Statuses, Text
  <1>5. \A S \in SUBSET Chunks : Kept(nz, nz, S)
    <2>1. \A S : <<>> \in Seq(S)
      BY EmptySeq
    <2>2. <<>> \in Text /\ NoDeadlines \in [Waits -> Nat \cup {Off}]
      BY DEF Text, NoDeadlines
    <2>3. nz \in Normalizer
      BY <1>1, <2>2 DEF Normalizer, NewNormalizer
    <2>4. nz.text = <<>> /\ nz.pendingAckText = <<>> /\ nz.finalized
      BY <1>1 DEF NewNormalizer
    <2>5. QED  BY <2>1, <2>3, <2>4, OwnCleaned DEF Kept
  <1>5a. Kept(nz, nz, Chunks)
    BY <1>5
  <1>6. /\ \A t \in Tasks : /\ jobs[t] = NoJob /\ ~Busy(t) /\ ~FinalPending(t)
                            /\ \A k : ~Issued(t, k)
        /\ \A k \in Turns : /\ send[k] = "idle" /\ fetch[k] = "none"
                            /\ messages[k] = NewMessage /\ ackRunId[k] = NoRun
        /\ seen.turn = 0 /\ sink.messageId = 0 /\ ~sink.active
        /\ seen.crossed = {} /\ seen.strayed = {}
    BY <1>1, <1>2, <1>3 DEF Busy, FinalPending, Issued
  <1>7. Typed
    <2>1. TypeOK
      <3>1. /\ nz \in Normalizer
            /\ sink \in SinkRecord
            /\ stash \in Seq(Turns) /\ Len(stash) <= MAX_PROVENANCE_PARTS_PER_TURN
            /\ loop \in {"racing", "applying", "ended"}
            /\ race \in Nat \cup {Off}
            /\ send \in [Turns -> {"idle", "sent", "starting", "flushing", "done", "failed"}]
            /\ ackRunId \in [Turns -> Turns \cup {NoRun}]
            /\ fetch \in [Turns -> {"none", "asked", "done"}]
            /\ messages \in [Turns -> Message]
        BY <1>1, <1>2, <1>4, <1>5a DEF Kept, SinkRecord
      <3>2. seen \in SeenRecord
        BY <1>1, <1>2 DEF SeenRecord
      <3>3. \A i \in DOMAIN NoJob.writes : FALSE
        BY <1>3
      <3>4. DOMAIN jobs = Tasks
            /\ \A t \in Tasks :
                 /\ jobs[t].message \in {NoMessage} \cup Turns
                 /\ jobs[t].status \in {"none"} \cup Terminal
                 /\ \A i \in DOMAIN jobs[t].writes : jobs[t].writes[i].type # "run.status"
        BY <1>1, <1>3, <3>3, NoJobTyped
      <3>5. QED  BY <3>1, <3>2, <3>4 DEF TypeOK, SinkRecord, Message, SeenRecord, Runs
    <2>2. jobs \in [Tasks -> JobRecord] /\ \A t \in Tasks : JobSays(jobs[t], Chunks, Runs)
      BY <1>1, <1>3
    <2>3. QED  BY <1>5, <2>1, <2>2 DEF Typed
  <1>8. TasksInOrder
    <2>1. \A i \in 1 .. Len(<<>>) : FALSE
      OBVIOUS
    <2>2. QED  BY <1>3, <1>6, <2>1, TaskKinds DEF TasksInOrder
  <1>9. TurnsInOrder
    <2>1. nz.finalized
      BY <1>1 DEF NewNormalizer
    <2>2. \A k \in Turns : 0 < k
      BY <1>2
    <2>3. NewMessage.status = "none" /\ 0 <= 0
      BY DEF NewMessage
    <2>4. QED  BY <1>6, <2>1, <2>2, <2>3 DEF TurnsInOrder, RunsOf
  <1>10. MessagesInOrder
    <2>1. NewMessage.status = "none" /\ NewMessage.finals = 0 /\ ~(0 > 0) /\ "none" \notin Terminal
      BY DEF NewMessage, Terminal
    <2>2. QED  BY <1>2, <1>6, <2>1 DEF MessagesInOrder, Closed
  <1>11. PendingInv /\ OnceInv /\ DrivenInv
    <2>1. NewMessage.status = "none" /\ NewMessage.finals = 0 /\ 0 <= 1 /\ 0 # 1
      BY DEF NewMessage
    <2>2. QED  BY <1>6, <2>1 DEF PendingInv, OnceInv, DrivenInv
  <1>12. ReportsInv
    <2>1. NewMessage.reports = {} /\ 0 \notin Turns
      BY <1>2 DEF NewMessage
    <2>2. QED  BY <1>3, <1>6, <2>1 DEF ReportsInv
  <1>13. TextInv
    <2>1. NewMessage.text = <<>> /\ \A k : <<>> \in Seq(Own(k))
      BY EmptySeq DEF NewMessage
    <2>2. QED  BY <1>5, <1>6, <2>1, OwnChunks DEF TextInv
  <1>14. EndedInv
    BY <1>6, TaskKinds DEF EndedInv
  <1>15. QED  BY <1>7, <1>8, <1>9, <1>10, <1>11, <1>12, <1>13, <1>14
              DEF PipelineInv, PipeInv

(* Each kind of step keeps the invariant.                                     *)
LEMMA StepKeeps ==
  ASSUME PipelineInv, Next
  PROVE  PipelineInv'
  <1> USE DEF PipelineInv
  <1>1. CASE Rests
    <2>1. PipeInv'
      BY <1>1, RestsTyped, TasksRests, MessagesRests, TurnsRests DEF PipeInv
    <2>2. PendingInv' /\ OnceInv' /\ DrivenInv'
      BY <1>1, PendingRests, OnceRests, DrivenRests
    <2>3. ReportsInv' /\ TextInv' /\ EndedInv'
      BY <1>1, ReportsRests, TextRests, EndedRests
    <2>4. QED  BY <2>1, <2>2, <2>3
  <1>2. CASE SomeApplies
    <2>1. PICK t \in Tasks : \E n, w, st : Applies(t, n, w, st)
      BY <1>2 DEF SomeApplies
    <2>2. PICK n, w, st : Applies(t, n, w, st)
      BY <2>1
    <2>3. PipeInv'
      BY <2>2, AppliesTyped, TasksApplies, AppliesTurns, MessagesApplies DEF PipeInv
    <2>4. PendingInv' /\ OnceInv' /\ DrivenInv'
      BY <2>2, PendingApplies, OnceApplies, DrivenApplies
    <2>5. ReportsInv' /\ TextInv' /\ EndedInv'
      BY <2>2, ReportsApplies, TextApplies, EndedApplies
    <2>6. QED  BY <2>3, <2>4, <2>5
  <1>3. CASE \E t, outcome : Answered(t, outcome)
    <2>1. PICK t, outcome : Answered(t, outcome)
      BY <1>3
    <2>2. Answered(t, outcome)
      BY <2>1
    <2>3. PipeInv'
      BY <2>2, AnsweredTyped, TasksAnswered, AnsweredTurns, MessagesAnswered DEF PipeInv
    <2>4. PendingInv' /\ OnceInv' /\ DrivenInv'
      BY <2>2, PendingAnswered, OnceAnswered, DrivenAnswered
    <2>5. ReportsInv' /\ TextInv' /\ EndedInv'
      BY <2>2, ReportsAnswered, TextAnswered, EndedAnswered
    <2>6. QED  BY <2>3, <2>4, <2>5
  <1>4. CASE \E k \in Turns : BeginsTurn(k)
    <2>1. PICK k \in Turns : BeginsTurn(k)
      BY <1>4
    <2>2. PipeInv'
      BY <2>1, BeginsTyped, TasksBegins, BeginsTurns, MessagesBegins DEF PipeInv
    <2>3. PendingInv' /\ OnceInv' /\ DrivenInv'
      BY <2>1, PendingBegins, OnceBegins, DrivenBegins
    <2>4. ReportsInv' /\ TextInv' /\ EndedInv'
      BY <2>1, ReportsBegins, TextBegins, EndedBegins
    <2>5. QED  BY <2>2, <2>3, <2>4
  <1>5. CASE \E k \in Turns : \E ok \in BOOLEAN : Starts(k, ok)
    <2>1. PICK k \in Turns : \E ok \in BOOLEAN : Starts(k, ok)
      BY <1>5
    <2>3. PICK ok \in BOOLEAN : Starts(k, ok)
      BY <2>1
    <2>4. PipeInv'
      BY <2>3, StartedTyped, TasksStarted, StartedTurns, MessagesStarted DEF PipeInv
    <2>5. PendingInv' /\ OnceInv' /\ DrivenInv'
      BY <2>3, PendingStarted, OnceStarted, DrivenStarted
    <2>6. ReportsInv' /\ TextInv' /\ EndedInv'
      BY <2>3, ReportsStarted, TextStarted, EndedStarted
    <2>7. QED  BY <2>4, <2>5, <2>6
  <1>6. QED  BY <1>1, <1>2, <1>3, <1>4, <1>5, StepKinds

LEMMA StutterKeeps ==
  ASSUME PipelineInv, UNCHANGED vars
  PROVE  PipelineInv' /\ Rests
  <1> USE DEF PipelineInv
  <1>1. UNCHANGED <<nz, sink, stash, loop, race, send, ackRunId, fetch, jobs, messages, seen>>
    BY DEF vars
  <1>2. Typed
    BY DEF PipeInv
  <1>3. Continues(nz)
    BY <1>1, <1>2, SameContinues DEF Typed, TypeOK
  <1>4. Rests
    BY <1>1, <1>2, <1>3, SameSends, SameSeen, RestsParts DEF Typed, TypeOK
  <1>5. PipeInv'
    BY <1>4, RestsTyped, TasksRests, MessagesRests, TurnsRests DEF PipeInv
  <1>6. PendingInv' /\ OnceInv' /\ DrivenInv'
    BY <1>4, PendingRests, OnceRests, DrivenRests
  <1>7. ReportsInv' /\ TextInv' /\ EndedInv'
    BY <1>4, ReportsRests, TextRests, EndedRests
  <1>8. QED  BY <1>4, <1>5, <1>6, <1>7

-----------------------------------------------------------------------------
(* The theorems *)

(* The order of turns, tasks and messages, and what each batch still to be     *)
(* written can do, hold in every reachable state.                             *)
THEOREM PipelineInvariant == Spec => []PipelineInv
  <1>1. Init => PipelineInv
    BY InitPipeline
  <1>2. PipelineInv /\ [Next]_vars => PipelineInv'
    BY StepKeeps, StutterKeeps
  <1>3. QED  BY <1>1, <1>2, PTL DEF Spec

(* The state keeps its types, the stash and the reports of a turn their caps,  *)
(* and no run.status is ever written (run-manager.ts, turn-sink.ts).          *)
THEOREM PipelineTypeCorrect == Spec => []TypeOK
  <1>1. PipelineInv => TypeOK
    BY DEF PipelineInv, PipeInv, Typed
  <1>2. QED  BY <1>1, PipelineInvariant, PTL

(* flushFinal ends the turn before its write is awaited, so whatever timers,   *)
(* frames, recoveries and closes race, and whatever turn supersedes another,   *)
(* a message is finalized once.                                               *)
THEOREM MessagesFinalizedOnce == Spec => []FinalizedOnce
  <1>1. PipelineInv => FinalizedOnce
    BY DEF PipelineInv, OnceInv, FinalizedOnce
  <1>2. QED  BY <1>1, PipelineInvariant, PTL

(* A message shown as streaming has an armed silence budget, or a final on its *)
(* way, if its startAssistant was answered and no write of its final's batch   *)
(* failed.                                                                    *)
THEOREM StreamingDriven == Spec => []StreamingIsDriven
  <1>1. ASSUME PipelineInv
        PROVE  StreamingIsDriven
    <2> SUFFICES ASSUME NEW k \in Turns \ (seen.misplaced \cup seen.overlapped \cup seen.failed),
                        messages[k].status = "streaming"
                 PROVE  \/ sink.messageId = k /\ sink.active /\ ~nz.finalized /\ Armed(nz, "recv")
                        \/ FinalInFlight(k)
      BY DEF StreamingIsDriven
    <2>1. \/ \E t \in Tasks : Issued(t, k)
          \/ /\ k = seen.turn /\ sink.messageId = k /\ sink.active
             /\ ~nz.finalized \/ \E t \in Tasks : FinalPending(t) /\ jobs[t].message = k
      BY <1>1 DEF PipelineInv, DrivenInv
    <2>2. \A t \in Tasks : Issued(t, k) \/ FinalPending(t) => Busy(t)
      BY <1>1, IdleTask DEF PipelineInv, PipeInv
    <2>3. ~nz.finalized => Armed(nz, "recv")
      BY <1>1 DEF PipelineInv, PipeInv, Typed, Kept
    <2>4. QED  BY <2>1, <2>2, <2>3 DEF FinalInFlight, Issued, FinalPending
  <1>2. QED  BY <1>1, PipelineInvariant, PTL

(* A report that names its run is stashed, flushed and heard by that run,      *)
(* unless a frame of another run strayed into the turn.                       *)
THEOREM ReportsStay == Spec => []ReportsStayWithTheirRun
  <1>1. PipelineInv => ReportsStayWithTheirRun
    BY DEF PipelineInv, ReportsInv, RunsOf, ReportsStayWithTheirRun
  <1>2. QED  BY <1>1, PipelineInvariant, PTL

(* A message holds what its own run said, and the acks, unless a frame of      *)
(* another run strayed into its turn.                                         *)
THEOREM TurnsStayApart == Spec => []TurnsDoNotMix
  <1>1. ASSUME PipelineInv
        PROVE  TurnsDoNotMix
    <2> SUFFICES ASSUME Unmixed, NEW k \in Turns \ seen.strayed
                 PROVE  OwnText(k, messages[k].text)
      BY DEF TurnsDoNotMix, Unmixed
    <2>1. messages[k].text \in Seq(AckChunks \cup {k})
      BY <1>1, RunsSayTheirOwn DEF PipelineInv, TextInv
    <2>2. \A S : \A x \in Seq(S) : \A i \in DOMAIN x : x[i] \in S
      OBVIOUS
    <2>3. QED  BY <2>1, <2>2 DEF OwnText
  <1>2. QED  BY <1>1, PipelineInvariant, PTL

(* An answered write leaves the text of an ended message alone: the loop has   *)
(* nothing left for it, and a flush writes reports.                           *)
LEMMA EndedTextStays ==
  ASSUME PipelineInv, NEW t, NEW outcome, Answered(t, outcome), NEW k \in Turns,
         messages[k].status \in Terminal, seen'.misplaced = {},
         \A j \in Turns : fetch[j] = "none"
  PROVE  messages'[k].text = messages[k].text
  <1> USE DEF PipelineInv
  <1>1. t \in Tasks /\ Busy(t) /\ seen.misplaced = {}
    BY AnsweredTyped, AnsweredEffect
  <1>2. JobSays(jobs[t], Chunks, Runs)
    BY <1>1, TypedParts DEF PipeInv
  <1>3. WritesTo(t, outcome, jobs[t].message, Chunks, Runs)
    BY <1>1, <1>2, AnswerWritten
  <1>4. CASE t = Loop
    <2>1. messages[jobs[t].message].status \notin Terminal
      BY <1>1, <1>4 DEF EndedInv
    <2>2. QED  BY <1>3, <2>1 DEF WritesTo
  <1>5. CASE t # Loop
    <2>1. jobs[t].writes[1].type = "provenance"
      BY <1>1, <1>5, WithoutRecovery
    <2>2. QED  BY <1>3, <2>1 DEF WritesTo
  <1>6. QED  BY <1>4, <1>5

(* Unless a recovery ran beside the loop, no step changes the text of a        *)
(* message that has ended.                                                    *)
THEOREM EndedTextsStay == Spec => FinalTextStays
  <1>1. ASSUME PipelineInv, [Next]_vars, NEW k \in Turns,
               messages[k].status \in Terminal, seen'.misplaced = {},
               \A j \in Turns : fetch[j] = "none"
        PROVE  messages'[k].text = messages[k].text
    <2>1. CASE UNCHANGED vars
      BY <2>1 DEF vars
    <2>2. CASE Next
      <3>1. CASE Rests
        BY <3>1 DEF Rests
      <3>2. CASE SomeApplies
        BY <3>2 DEF SomeApplies, Applies
      <3>3. CASE \E t, outcome : Answered(t, outcome)
        BY <1>1, <3>3, EndedTextStays
      <3>4. CASE \E j \in Turns : BeginsTurn(j)
        BY <3>4 DEF BeginsTurn, Begins
      <3>5. CASE \E j \in Turns : \E ok \in BOOLEAN : Starts(j, ok)
        BY <3>5 DEF Starts
      <3>6. QED  BY <1>1, <2>2, <3>1, <3>2, <3>3, <3>4, <3>5, StepKinds
    <2>3. QED  BY <1>1, <2>1, <2>2
  <1>2. PipelineInv /\ [Next]_vars =>
          \A k \in Turns :
            messages[k].status \in Terminal /\ seen'.misplaced = {}
              /\ (\A j \in Turns : fetch[j] = "none")
            => messages'[k].text = messages[k].text
    BY <1>1
  <1>3. QED  BY <1>2, PipelineInvariant, PTL DEF Spec, FinalTextStays
=============================================================================
