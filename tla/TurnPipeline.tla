---------------------------- MODULE TurnPipeline ----------------------------
(***************************************************************************)
(* The turns of one chat session with every awaited call a step of its own: *)
(* POST /send (server.ts performSend), the consume loop and the recovery    *)
(* task (session.ts), the run manager's gates and provenance stash          *)
(* (run-manager.ts), and the sink that applies a batch of events to the     *)
(* message write by write (core/turn-sink.ts).  Node runs them on one       *)
(* thread: they interleave at awaits only.                                  *)
(*                                                                          *)
(* Turn k has gateway run k and, once created, assistant message k.  An ack  *)
(* or a frame of the run need not name it.  A write takes effect when its    *)
(* answer comes, or is lost; DeltaWriter has the buffering and queueing below *)
(* it.                                                                      *)
(***************************************************************************)
EXTENDS Normalizer

CONSTANTS
  MaxTurns,                        \* bound: sends of one behaviour
  MaxText,                         \* bound: chunks a turn's text may hold
  FramesOf(_),                     \* the frames the gateway may send for a run
  Recovered(_),                    \* what the transcript holds for a run
  MAX_PROVENANCE_PARTS_PER_TURN,
  WritesMayFail                    \* whether writes are refused, or their answers lost

Turns == 1 .. MaxTurns

ASSUME TurnPipelineAssumption ==
  /\ MaxTurns \in Nat \ {0}
  /\ MaxText \in Nat
  /\ RunIds = Turns
  /\ Chunks = AckChunks \cup Turns   \* a chunk of a reply is named by its run
  /\ \A c \in Chunks : Cleaned[c] = [alone |-> c, within |-> c]   \* whatever is left of it
  /\ \A k \in Turns : Recovered(k) \in Said \cap Seq(AckChunks \cup {k})
  /\ \A k \in Turns : \A f \in FramesOf(k) :
       f \in Frame /\ f.run \in {k, NoRun} /\ FrameText(f) \subseteq Seq(AckChunks \cup {k})
  /\ MAX_PROVENANCE_PARTS_PER_TURN \in Nat \ {0}
  /\ WritesMayFail \in BOOLEAN

VARIABLES
  nz,         \* the session's normalizer
  sink,       \* the TurnSink: messageId, turnActive, provenanceCount
  stash,      \* pendingProvenance, by run id
  loop,       \* the consume loop: racing, applying a batch, or ended
  race,       \* the timer of the loop's race, Off for none
  send,       \* performSend of each turn
  ackRunId,   \* the run that the ack of each turn named
  fetch,      \* recoverDeliveredReply of each turn
  jobs,       \* the sink.apply of each task: the message captured, writes left
  messages,   \* the assistant messages, as Convex has them
  seen        \* what happened to the session (no state of the code)

vars == <<nz, sink, stash, loop, race, send, ackRunId, fetch, jobs, messages, seen>>

-----------------------------------------------------------------------------
(* Data *)

NoMessage == 0

(* The tasks that apply batches: the loop, and per turn its send's stash     *)
(* flush and its recovery.                                                   *)
Loop == 0
Flush(k) == k
Recovery(k) == MaxTurns + k
Tasks == 0 .. 2 * MaxTurns

NoJob == [message |-> NoMessage, writes |-> <<>>, status |-> "none"]
Busy(t) == jobs[t].writes # <<>>

Statuses == {"none", "streaming", "complete", "error", "aborted"}
Terminal == {"complete", "error", "aborted"}

TERMINAL_STATUS == [final |-> "complete", error |-> "error", aborted |-> "aborted"]

NewMessage ==
  [status |-> "none", text |-> <<>>, reports |-> {}, finals |-> 0]

TypeOK ==
  /\ nz \in Normalizer
  /\ sink \in [messageId : {NoMessage} \cup Turns, active : BOOLEAN,
               provenanceCount : 0 .. MAX_PROVENANCE_PARTS_PER_TURN]
  /\ stash \in Seq(Turns) /\ Len(stash) <= MAX_PROVENANCE_PARTS_PER_TURN
  /\ loop \in {"racing", "applying", "ended"}
  /\ race \in Nat \cup {Off}
  /\ ackRunId \in [Turns -> Turns \cup {NoRun}]
  /\ send \in [Turns -> {"idle", "sent", "starting", "flushing", "done", "failed"}]
  /\ fetch \in [Turns -> {"none", "asked", "done"}]
  /\ DOMAIN jobs = Tasks
  /\ \A t \in Tasks :
       /\ jobs[t].message \in {NoMessage} \cup Turns
       /\ jobs[t].status \in {"none"} \cup Terminal
       /\ \A i \in DOMAIN jobs[t].writes : jobs[t].writes[i].type # "run.status"
  /\ messages \in [Turns -> [status : Statuses, text : Text, reports : SUBSET (Turns \cup {NoRun}),
                             finals : Nat]]
  /\ seen \in [turn : 0 .. MaxTurns, misplaced : SUBSET Turns, overlapped : SUBSET Turns,
               crossed : SUBSET Turns, failed : SUBSET Turns, stale : BOOLEAN, strayed : SUBSET Turns,
               missed : SUBSET Turns]

Init ==
  /\ nz = NewNormalizer
  /\ sink = [messageId |-> NoMessage, active |-> FALSE, provenanceCount |-> 0]
  /\ stash = <<>>
  /\ loop = "racing"
  /\ race = Off
  /\ send = [k \in Turns |-> "idle"]
  /\ ackRunId = [k \in Turns |-> NoRun]
  /\ fetch = [k \in Turns |-> "none"]
  /\ jobs = [t \in Tasks |-> NoJob]
  /\ messages = [k \in Turns |-> NewMessage]
  /\ seen = [turn |-> 0, misplaced |-> {}, overlapped |-> {}, crossed |-> {},
             failed |-> {}, stale |-> FALSE, strayed |-> {}, missed |-> {}]

-----------------------------------------------------------------------------
(* TurnSink.apply *)

(* Mutant: the final is written before the text that goes with it. *)
WritesFinalFirst(ev) ==
  SelectSeq(ev, LAMBDA e : e.type = "message.final")
    \o SelectSeq(ev, LAMBDA e : e.type \notin {"run.status", "message.final"})

(* A run.status is the last of its batch, if there is one.                   *)
EndsInStatus(ev) == ev # <<>> /\ ev[Len(ev)].type = "run.status"

(* The awaited writes of a batch: a terminal run.status goes with its final, *)
(* the intermediate ones have no representation.                             *)
Writes(ev) == IF EndsInStatus(ev) THEN SubSeq(ev, 1, Len(ev) - 1) ELSE ev

StatusOf(ev) ==
  IF EndsInStatus(ev) /\ ev[Len(ev)].status \in DOMAIN TERMINAL_STATUS
  THEN TERMINAL_STATUS[ev[Len(ev)].status] ELSE "none"

(* Issue the next write of a job, running up to its await.  A final goes     *)
(* through flushFinal: it takes the CURRENT message, and ends the turn before *)
(* the write is answered; when the turn is over already there is no write.   *)
(* Reports come in batches of their own: at the cap, the rest are skipped.   *)
Unwritten(s) == [sink |-> s, job |-> NoJob]

(* Mutant: the turn ends only when the final is answered. *)
FlushFinalUnguarded(s, job) ==
  [sink |-> s, job |-> [job EXCEPT !.message = s.messageId]]

FlushFinal(s, job) ==
  IF ~s.active THEN Unwritten(s)
  ELSE [sink |-> [s EXCEPT !.active = FALSE],
        job |-> [job EXCEPT !.message = s.messageId]]

(* Mutant: one report too many. *)
IssueReportPastCap(s, job) ==
  IF s.provenanceCount > MAX_PROVENANCE_PARTS_PER_TURN THEN Unwritten(s)
  ELSE [sink |-> [s EXCEPT !.provenanceCount = @ + 1], job |-> job]

IssueReport(s, job) ==
  IF s.provenanceCount >= MAX_PROVENANCE_PARTS_PER_TURN THEN Unwritten(s)
  ELSE [sink |-> [s EXCEPT !.provenanceCount = @ + 1], job |-> job]

Issue(s, job) ==
  IF job.writes = <<>> THEN Unwritten(s)
  ELSE CASE Head(job.writes).type = "message.final" -> FlushFinal(s, job)
         [] Head(job.writes).type = "provenance" -> IssueReport(s, job)
         [] OTHER -> [sink |-> s, job |-> job]

(* apply captures the message at its entry: none yet, nothing is written.    *)
Apply(s, ev) ==
  IF s.messageId = NoMessage \/ Writes(ev) = <<>> THEN Unwritten(s)
  ELSE Issue(s, [message |-> s.messageId, writes |-> Writes(ev),
                 status |-> StatusOf(ev)])

(* What a write does to its message.                                         *)
Written(m, e, status) ==
  CASE e.type = "message.delta" -> [m EXCEPT !.text = @ \o e.text]
    [] e.type = "message.snapshot" -> [m EXCEPT !.text = e.text]
    [] e.type = "provenance" -> [m EXCEPT !.reports = @ \cup {e.run}]
    [] e.type = "message.final" ->
         [m EXCEPT !.status = status, !.text = e.text, !.finals = @ + 1]
    [] OTHER -> m

(* What the answer of a write makes of its message, its job and the sink: a    *)
(* refused one did nothing, and nothing of its batch follows one that failed. *)
MessagesAfter(job, outcome) ==
  IF outcome = "refused" THEN messages
  ELSE [messages EXCEPT ![job.message] = Written(@, Head(job.writes), job.status)]

AfterWrite(job, outcome) ==
  IF outcome = "answered" THEN Issue(sink, [job EXCEPT !.writes = Tail(@)])
                          ELSE Unwritten(sink)

(* A failed write of a closing batch takes the final along.                  *)
MarkedWrite(job, outcome) ==
  IF outcome = "answered" \/ job.status = "none" THEN seen
  ELSE [seen EXCEPT !.failed = @ \cup {job.message}]

Starting == {k \in Turns : send[k] = "starting"}

(* The turns whose message the sink does not have: startAssistant is           *)
(* unanswered, was refused, or its answer was lost.  A batch applied then goes *)
(* to the message of the turn before, or to none.                              *)
Homeless ==
  Starting \cup {k \in Turns : k = seen.turn /\ sink.messageId # k}

Marked(ev) ==
  [seen EXCEPT !.misplaced = IF Writes(ev) = <<>> THEN @ ELSE @ \cup Homeless]

(* The windows in which a frame of another run strays into the current turn:  *)
(* a grace takes it for a follow-on, it names no run, or the ack named none.  *)
LetsStrays(f) ==
  \/ Armed(nz, "lifecycle_end") \/ nz.compactionPending
  \/ f.run = NoRun
  \/ seen.turn \in Turns /\ ackRunId[seen.turn] = NoRun

MarkedFeed(k, f, ev) ==
  [Marked(ev) EXCEPT !.strayed =
     IF k # seen.turn /\ LetsStrays(f) THEN @ \cup ({seen.turn} \cap Turns) ELSE @]

-----------------------------------------------------------------------------
(* The consume loop *)

(* The bottom of an iteration and the top of the next: takeRecoveryRequest   *)
(* starts the turn's fetch beside the loop, then the loop races again.       *)
Iterate(n) ==
  /\ IF WantsHistoryRecovery(n)
       THEN /\ nz' = MarkRecoveryAttempted(n)
            /\ fetch' = [fetch EXCEPT ![seen.turn] = "asked"]
       ELSE nz' = n /\ UNCHANGED fetch
  /\ race' = NextTimeout(n)
  /\ loop' = "racing"

(* A batch for the loop's own task: without a write to await the iteration   *)
(* ends at once.                                                             *)
LoopApplies(r, marked) ==
  LET a == Apply(sink, r.ev)
  IN /\ sink' = a.sink
     /\ jobs' = [jobs EXCEPT ![Loop] = a.job]
     /\ seen' = marked
     /\ IF a.job.writes = <<>>
          THEN Iterate(r.nz)
          ELSE /\ nz' = r.nz
               /\ loop' = "applying"
               /\ race' = Off
               /\ UNCHANGED fetch

AddsDelta(f) ==
  \/ f.stream = "chat" /\ f.deltaText # <<>>
  \/ f.stream = "assistant" /\ f.delta # <<>>

(* RunManager.feed of a frame of run k, which the gateway may send from the  *)
(* moment it has accepted chat.send, before the bridge has read the ack.     *)
Feeds(k, f) ==
  /\ loop = "racing"
  /\ send[k] # "idle"
  /\ f \in FramesOf(k)
  /\ AddsDelta(f) => Len(nz.text) < MaxText
  /\ sink.active
  /\ LET r == Feed(nz, f) IN LoopApplies(r, MarkedFeed(k, f, r.ev))
  /\ UNCHANGED <<stash, send, ackRunId, messages>>

(* The stash after a frame of run k came between turns: parseProvenanceFrame   *)
(* wants the run by its name.                                                 *)
Stashed(k, f) ==
  IF f.stream = "provenance" /\ f.valid /\ f.run = k /\ Len(stash) < MAX_PROVENANCE_PARTS_PER_TURN
    THEN Append(stash, k) ELSE stash

(* Between turns only a provenance report is kept, for the run it names.     *)
FeedsInactive(k, f) ==
  /\ loop = "racing"
  /\ send[k] # "idle"
  /\ f \in FramesOf(k)
  /\ ~sink.active
  /\ stash' = Stashed(k, f)
  /\ seen' = IF send[k] = "sent" /\ f.stream # "provenance"
             THEN [seen EXCEPT !.missed = @ \cup {k}] ELSE seen
  /\ Iterate(nz)
  /\ UNCHANGED <<sink, send, ackRunId, jobs, messages>>

(* RunManager.tick when the timer wins; between turns it returns at once,    *)
(* leaving the deadlines as they are.                                        *)
Ticks ==
  /\ loop = "racing"
  /\ race = 0
  /\ IF sink.active
       THEN LET r == Tick(nz) IN LoopApplies(r, Marked(r.ev))
       ELSE Iterate(nz) /\ UNCHANGED <<sink, jobs, seen>>
  /\ UNCHANGED <<stash, send, ackRunId, messages>>

(* The read ends with the connection: an unfinished turn is aborted, and the *)
(* loop is over.  Requests in flight are rejected.                           *)
Closes ==
  /\ loop = "racing"
  /\ LET r == IF sink.active /\ ~nz.finalized THEN EndTurn(nz, "aborted") ELSE Result(nz)
         a == Apply(sink, r.ev)
     IN /\ nz' = r.nz
        /\ sink' = a.sink
        /\ jobs' = [jobs EXCEPT ![Loop] = a.job]
        /\ seen' = Marked(r.ev)
  /\ loop' = "ended"
  /\ race' = Off
  /\ fetch' = [k \in Turns |-> IF fetch[k] = "asked" THEN "done" ELSE fetch[k]]
  /\ send' = [k \in Turns |-> IF send[k] = "sent" THEN "failed" ELSE send[k]]
  /\ UNCHANGED <<stash, ackRunId, messages>>

(* Convex answers the loop's write, and the rest of the batch follows; or it   *)
(* refuses it, or its answer is lost, and the rest goes with the exception     *)
(* that the loop only logs.                                                   *)
LoopWritten(outcome) ==
  /\ Busy(Loop)
  /\ LET a == AfterWrite(jobs[Loop], outcome)
     IN /\ sink' = a.sink
        /\ jobs' = [jobs EXCEPT ![Loop] = a.job]
        /\ IF a.job.writes = <<>> /\ loop = "applying"
             THEN Iterate(nz)
             ELSE UNCHANGED <<nz, loop, race, fetch>>
  /\ messages' = MessagesAfter(jobs[Loop], outcome)
  /\ seen' = MarkedWrite(jobs[Loop], outcome)
  /\ UNCHANGED <<stash, send, ackRunId>>

-----------------------------------------------------------------------------
(* POST /send *)

(* chat.send goes out; the gateway starts run k.                             *)
Sends(k) ==
  /\ loop # "ended"
  /\ send[k] = "idle"
  /\ \A j \in Turns : j < k => send[j] # "idle"
  /\ send' = [send EXCEPT ![k] = "sent"]
  /\ UNCHANGED <<nz, sink, stash, loop, race, ackRunId, fetch, jobs, messages, seen>>

(* It is refused, or times out with the gateway running it all the same.     *)
SendFails(k) ==
  /\ send[k] = "sent"
  /\ send' = [send EXCEPT ![k] = "failed"]
  /\ UNCHANGED <<nz, sink, stash, loop, race, ackRunId, fetch, jobs, messages, seen>>

(* A final that has still to be issued, and will take the message of then.   *)
FinalPending(t) == jobs[t].status # "none" /\ Len(jobs[t].writes) > 1

(* The turn that a turn begun now crosses: its message may be hit by the final *)
(* that waits, and by its own, the sink being active again.                   *)
Crossed == IF \E t \in Tasks : FinalPending(t) THEN {seen.turn} \cap Turns ELSE {}

(* The turns that a turn begun now disturbs: the one it crosses, or that is    *)
(* still active, and the new one itself when a final waits for some message.  *)
Superseded(k) ==
  Crossed \cup (IF sink.active THEN {seen.turn} \cap Turns ELSE {})
          \cup (IF \E t \in Tasks : FinalPending(t) THEN {k} ELSE {})

(* Its ack, which may name its run: RunManager.beginTurn up to the await of    *)
(* startAssistant.  The gateway acks the sends of a connection in their order. *)
Begins(k, named) ==
  /\ send[k] = "sent"
  /\ \A j \in Turns : j < k => send[j] # "sent"
  /\ nz' = IF named = NoRun THEN BeginTurn(nz) ELSE NoteRunStarted(BeginTurn(nz), named)
  /\ sink' = [sink EXCEPT !.active = TRUE, !.provenanceCount = 0]
  /\ send' = [send EXCEPT ![k] = "starting"]
  /\ ackRunId' = [ackRunId EXCEPT ![k] = named]
  /\ seen' = [seen EXCEPT !.turn = k,
                          !.overlapped = @ \cup Superseded(k),
                          !.crossed = @ \cup Crossed,
                          !.stale = @ \/ \E j \in Turns : fetch[j] = "asked"]
  /\ UNCHANGED <<stash, loop, race, fetch, jobs, messages>>

(* Mutant: the whole stash goes to the turn that begins. *)
AllReports(run, reports) == reports

(* The stashed reports a turn takes over: those of the run its ack named. *)
ReportsOf(run, reports) ==
  [i \in 1 .. Cardinality({j \in DOMAIN reports : reports[j] = run}) |-> run]

(* startAssistant answers, in the order of the writer's chain: the message   *)
(* exists, and the stashed reports of this run are flushed to it.            *)
Started(k) ==
  /\ send[k] = "starting"
  /\ \A j \in Turns : j < k => send[j] # "starting"
  /\ LET s == [sink EXCEPT !.messageId = k]
         matched == ReportsOf(ackRunId[k], stash)
         a == Apply(s, [i \in DOMAIN matched |->
                          [type |-> "provenance", run |-> matched[i]]])
     IN /\ sink' = a.sink
        /\ jobs' = [jobs EXCEPT ![Flush(k)] = a.job]
        /\ send' = [send EXCEPT ![k] = IF a.job = NoJob THEN "done" ELSE "flushing"]
  /\ messages' = [messages EXCEPT ![k].status = "streaming"]
  /\ stash' = <<>>
  /\ UNCHANGED <<nz, loop, race, ackRunId, fetch, seen>>

(* It fails: Convex refused it, or created the message and the answer was     *)
(* lost.  The send is answered with an error, the sink keeps the old message. *)
StartFails(k, outcome) ==
  /\ send[k] = "starting"
  /\ \A j \in Turns : j < k => send[j] # "starting"
  /\ outcome # "answered"
  /\ messages' = IF outcome = "refused" THEN messages
                 ELSE [messages EXCEPT ![k].status = "streaming"]
  /\ send' = [send EXCEPT ![k] = "failed"]
  /\ seen' = [seen EXCEPT !.failed = @ \cup {k}]
  /\ UNCHANGED <<nz, sink, stash, loop, race, ackRunId, fetch, jobs>>

(* A step of a task other than the loop: the flush of a send, a recovery.    *)
TaskWritten(t, outcome) ==
  /\ Busy(t)
  /\ LET a == AfterWrite(jobs[t], outcome)
     IN /\ sink' = a.sink
        /\ jobs' = [jobs EXCEPT ![t] = a.job]
        /\ send' = [k \in Turns |->
                      IF t = Flush(k) /\ a.job = NoJob
                      THEN IF outcome = "answered" THEN "done" ELSE "failed"
                      ELSE send[k]]
  /\ messages' = MessagesAfter(jobs[t], outcome)
  /\ seen' = MarkedWrite(jobs[t], outcome)
  /\ UNCHANGED <<nz, stash, loop, race, ackRunId, fetch>>

(* sessions.get answers: the delivered text is applied if a turn is active,  *)
(* whichever turn that is by now.                                            *)
Recovers(k, said) ==
  /\ fetch[k] = "asked"
  /\ fetch' = [fetch EXCEPT ![k] = "done"]
  /\ LET r == IF sink.active THEN RecoverVisibleText(nz, said) ELSE Result(nz)
         a == Apply(sink, r.ev)
     IN /\ nz' = r.nz
        /\ sink' = a.sink
        /\ jobs' = [jobs EXCEPT ![Recovery(k)] = a.job]
        /\ seen' = Marked(r.ev)
  /\ UNCHANGED <<stash, loop, race, send, ackRunId, messages>>

(* Time passes for the deadlines and for the timer of a race.                *)
Elapses ==
  /\ \/ race > 0
     \/ \E w \in Waits : nz.deadlines[w] > 0
  /\ nz' = Elapse(nz)
  /\ race' = Less(race)
  /\ UNCHANGED <<sink, stash, loop, send, ackRunId, fetch, jobs, messages, seen>>

Outcomes == IF WritesMayFail THEN {"answered", "refused", "lost"} ELSE {"answered"}

Next ==
  \/ \E k \in Turns : Sends(k) \/ SendFails(k) \/ Started(k)
  \/ \E k \in Turns : \E named \in {k, NoRun} : Begins(k, named)
  \/ \E k \in Turns, outcome \in Outcomes : StartFails(k, outcome)
  \/ \E k \in Turns : \E f \in FramesOf(k) : Feeds(k, f) \/ FeedsInactive(k, f)
  \/ Ticks
  \/ Closes
  \/ \E outcome \in Outcomes : LoopWritten(outcome)
  \/ \E t \in Tasks \ {Loop}, outcome \in Outcomes : TaskWritten(t, outcome)
  \/ \E k \in Turns : \E said \in {<<>>, Recovered(k)} : Recovers(k, said)
  \/ Elapses

Spec == Init /\ [][Next]_vars

-----------------------------------------------------------------------------
(* Properties *)

(* The calls that finalize a message: a batch in flight that ends in a final. *)
FinalInFlight(k) ==
  \E t \in Tasks : /\ Busy(t)
                   /\ jobs[t].message = k
                   /\ jobs[t].status # "none"

(* A message shown as streaming is never an orphan: it is the sink's current  *)
(* message with an open turn whose silence budget is armed, or its finalize   *)
(* is on its way.  Except for a turn whose batches came before its message,   *)
(* that another turn superseded, whose startAssistant was not answered, or    *)
(* that lost its final to a failed write of the same batch: nobody drives      *)
(* those any more.  A failed write of any other batch leaves the turn driven.  *)
StreamingIsDriven ==
  \A k \in Turns \ (seen.misplaced \cup seen.overlapped \cup seen.failed) :
    messages[k].status = "streaming" =>
      \/ sink.messageId = k /\ sink.active /\ ~nz.finalized /\ Armed(nz, "recv")
      \/ FinalInFlight(k)

(* A message is finalized at most once, whatever timers, frames, recoveries   *)
(* and closes race to end its turn, and whatever turn supersedes it.  Unless a *)
(* turn found its final before its own message, or the next turn began while  *)
(* a final still waited: beginTurn then makes the sink active for one more.   *)
FinalizedOnce ==
  seen.misplaced = {} =>
    \A k \in Turns \ seen.crossed : messages[k].finals <= 1

(* No text of one turn shows in the message of another, unless a batch came   *)
(* misplaced, sends overlapped, a recovery outlived its turn, or the message is *)
(* that of a turn a frame of another run strayed into: in a grace, without a   *)
(* run of its own, or because the ack of the turn named none.                 *)
OwnText(k, text) == \A i \in DOMAIN text : text[i] \in AckChunks \cup {k}

TurnsDoNotMix ==
  seen.misplaced = {} /\ seen.overlapped = {} /\ ~seen.stale =>
    \A k \in Turns \ seen.strayed : OwnText(k, messages[k].text)

(* A provenance report that names its run reaches only the message of that    *)
(* run, whether it came before the ack, during the turn or after it.          *)
ReportsStayWithTheirRun ==
  seen.misplaced = {} =>
    \A k \in Turns \ seen.strayed : messages[k].reports \subseteq {k, NoRun}

(* Once finalized, a message keeps its text, unless a recovery ran beside the *)
(* loop.                                                                      *)
FinalTextStays ==
  [][\A k \in Turns :
       messages[k].status \in Terminal /\ seen'.misplaced = {}
         /\ (\A j \in Turns : fetch[j] = "none")
       => messages'[k].text = messages[k].text]_vars

-----------------------------------------------------------------------------
(* What the repository says, and the code does not do *)

Quiet == (\A t \in Tasks : ~Busy(t)) /\ Starting = {}

(* session.ts:108-109: on a close the turn is finalized as aborted "so the UI *)
(* never stays stuck on a ""streaming"" message".                             *)
ClosedLeavesNothingStreaming ==
  loop = "ended" /\ Quiet => \A k \in Turns : messages[k].status # "streaming"

(* normalizer.ts:350: nextTimeout is "null when idle (wait forever)".         *)
IdleWaitsForever == ~sink.active /\ Quiet => Idle(nz)

(* server.ts:635-636: the turn is reset "BEFORE the ack so frames arriving    *)
(* before the ack are admitted".                                              *)
FramesBeforeAckAdmitted == seen.missed = {}
=============================================================================
