------------------------------ MODULE TurnLoop ------------------------------
(***************************************************************************)
(* One chat session: the consume loop (session.ts) drives the run manager   *)
(* (run-manager.ts) and its Normalizer, while POST /send begins turns and   *)
(* the history recovery answers late.  The loop awaits the writes of its     *)
(* batch before it reads on, so here they are one step with it; the           *)
(* recovery's run beside the loop, and the sink stays active until its final  *)
(* is issued.  TurnPipeline opens the windows that the other awaits leave.    *)
(***************************************************************************)
EXTENDS Normalizer

CONSTANTS
  Frames,        \* the gateway frames a behaviour may receive
  Recovered,     \* what the transcript may answer: <<>> or one chunk
  MaxStream,     \* bound: chunks a streaming message shows before deltas stop
  MaxWaiting     \* bound: finals of recoveries behind an unanswered write

ASSUME TurnLoopAssumption ==
  /\ Frames \subseteq Frame
  /\ Recovered \subseteq Said
  /\ MaxStream \in Nat
  /\ MaxWaiting \in Nat

VARIABLES
  nz,        \* the session's normalizer
  active,    \* TurnSink.turnActive
  waiting,   \* finals of recoveries, each behind an unanswered write of its batch
  loop,      \* the consume loop: "running", or "ended" with its connection
  race,      \* the timer raced against the pending read, Off for none
  fetching,  \* sessions.get requests in flight: asked by "this" turn, or "earlier"
  turn       \* what this turn has seen and shown (no state of the code)

vars == <<nz, active, waiting, loop, race, fetching, turn>>

TurnRecord ==
  [ack : RunIds \cup {NoRun}, contributors : SUBSET (RunIds \cup {NoRun}),
   followOn : BOOLEAN, stream : Text, abandoned : BOOLEAN, lateEnd : BOOLEAN,
   files : SUBSET MediaPaths, filedTwice : BOOLEAN,
   recoveries : Nat, closings : Nat, answer : Text]

NewTurn(ack) ==
  [ack |-> ack, contributors |-> {}, followOn |-> FALSE,
   stream |-> <<>>, abandoned |-> FALSE, lateEnd |-> FALSE, files |-> {}, filedTwice |-> FALSE,
   recoveries |-> 0, closings |-> 0, answer |-> <<>>]

TypeOK ==
  /\ nz \in Normalizer
  /\ active \in BOOLEAN
  /\ waiting \in 0 .. MaxWaiting
  /\ loop \in {"running", "ended"}
  /\ race \in Nat \cup {Off}
  /\ fetching \in SUBSET {"this", "earlier"}
  /\ turn \in TurnRecord

Init ==
  /\ nz = NewNormalizer
  /\ active = FALSE
  /\ waiting = 0
  /\ loop = "running"
  /\ race = Off
  /\ fetching = {}
  /\ turn = [NewTurn(NoRun) EXCEPT !.closings = 1]

-----------------------------------------------------------------------------
(* What a batch of events does to the message, and to the record of the turn. *)

Events(ev, type) == {i \in DOMAIN ev : ev[i].type = type}

StreamAfter(stream, ev) ==
  IF Events(ev, "message.snapshot") # {}
    THEN ev[CHOOSE i \in Events(ev, "message.snapshot") : TRUE].text
  ELSE IF Events(ev, "message.delta") # {}
    THEN stream \o ev[CHOOSE i \in Events(ev, "message.delta") : TRUE].text
  ELSE stream

FilesOf(ev) == UNION {ev[i].items : i \in Events(ev, "media")}

(* Two media events of one batch that name the same file. *)
NamesTwice(ev) ==
  \E i, j \in Events(ev, "media") : i # j /\ ev[i].items \cap ev[j].items # {}

Applied(t, ev) ==
  [t EXCEPT !.stream = StreamAfter(@, ev),
            !.files = @ \cup FilesOf(ev),
            !.filedTwice = @ \/ FilesOf(ev) \cap t.files # {} \/ NamesTwice(ev),
            !.closings = @ + Cardinality(Events(ev, "message.final")),
            !.answer = IF Events(ev, "message.final") = {} THEN @
                       ELSE ev[CHOOSE i \in Events(ev, "message.final") : TRUE].text]

(* The frame's own marks on the record: who contributed, which windows its    *)
(* own run has opened, and whether it came when the turn was closed already.  *)
Noted(t, f, ev) ==
  LET acked == t.ack = NoRun \/ f.run \in {t.ack, NoRun}
      ends == f.stream = "lifecycle" /\ f.phase \in {"end", "abandoned"}
      abandons == ev # <<>> /\ f.stream = "lifecycle" /\ f.phase = "abandoned"
  IN [t EXCEPT !.contributors = IF ev = <<>> THEN @ ELSE @ \cup {f.run},
               !.followOn = @ \/ (acked /\ ends),
               !.abandoned = @ \/ abandons,
               !.lateEnd = @ \/ (ev # <<>> /\ t.closings = 1 /\ ends),
               !.files = IF abandons THEN {} ELSE @]

-----------------------------------------------------------------------------
(* Actions *)

Closing(ev) == Events(ev, "message.final") # {}
FinalFirst(ev) == Head(ev).type = "message.final"

(* The end of a loop iteration: takeRecoveryRequest, then the next race.     *)
NextIteration(n, t) ==
  /\ IF WantsHistoryRecovery(n)
       THEN /\ nz' = MarkRecoveryAttempted(n)
            /\ fetching' = fetching \cup {"this"}
            /\ turn' = [t EXCEPT !.recoveries = @ + 1]
       ELSE /\ nz' = n
            /\ turn' = t
            /\ UNCHANGED fetching
  /\ race' = NextTimeout(n)

(* The loop's batch is written: its final ends the turn of the sink, unless a *)
(* write before it was refused and took the rest of the batch with it.       *)
LoopFlushes(ev) ==
  IF Closing(ev) THEN active' \in (IF FinalFirst(ev) THEN {FALSE} ELSE BOOLEAN)
                 ELSE UNCHANGED active

(* performSend -> RunManager.beginTurn, from an HTTP handler: the loop is    *)
(* left in the race it is in.                                                *)
StartTurn(ack) ==
  /\ loop = "running"
  /\ nz' = IF ack = NoRun THEN BeginTurn(nz)
           ELSE NoteRunStarted(BeginTurn(nz), ack)
  /\ active' = TRUE
  /\ turn' = NewTurn(ack)
  /\ fetching' = IF fetching = {} THEN {} ELSE {"earlier"}
  /\ UNCHANGED <<waiting, loop, race>>

AddsDelta(f) ==
  \/ f.stream = "chat" /\ f.deltaText # <<>>
  \/ f.stream = "assistant" /\ f.delta # <<>>

(* The read wins the race: RunManager.feed, dropped while the sink has no turn. *)
Receive(f) ==
  /\ loop = "running"
  /\ AddsDelta(f) => Len(turn.stream) < MaxStream
  /\ IF active
       THEN LET r == Feed(nz, f)
            IN NextIteration(r.nz, Applied(Noted(turn, f, r.ev), r.ev)) /\ LoopFlushes(r.ev)
       ELSE NextIteration(nz, turn) /\ UNCHANGED active
  /\ UNCHANGED <<waiting, loop>>

(* The timer wins the race: RunManager.tick, ignored while the sink has none. *)
Timeout ==
  /\ loop = "running"
  /\ race = 0
  /\ IF active
       THEN LET r == Tick(nz)
            IN NextIteration(r.nz, Applied(turn, r.ev)) /\ LoopFlushes(r.ev)
       ELSE NextIteration(nz, turn) /\ UNCHANGED active
  /\ UNCHANGED <<waiting, loop>>

(* The read ends: the connection closed, which also rejects its requests.  An *)
(* open turn is aborted, if the sink has one.                                *)
Close ==
  /\ loop = "running"
  /\ loop' = "ended"
  /\ LET r == IF active THEN EndTurn(nz, "aborted") ELSE Result(nz)
     IN nz' = r.nz /\ turn' = Applied(turn, r.ev) /\ LoopFlushes(r.ev)
  /\ fetching' = {}
  /\ race' = Off
  /\ UNCHANGED waiting

(* recoverDeliveredReply: sessions.get answered with the delivered text, with *)
(* none, or failed.  It runs beside the loop, whose race it leaves alone, and *)
(* its final waits for the write of the text before it.                      *)
RecoveryAnswer(asker, said) ==
  /\ asker \in fetching
  /\ waiting < MaxWaiting
  /\ fetching' = fetching \ {asker}
  /\ LET r == IF active THEN RecoverVisibleText(nz, said) ELSE Result(nz)
     IN /\ nz' = r.nz
        /\ turn' = Applied(turn, r.ev)
        /\ IF ~Closing(r.ev) THEN UNCHANGED <<active, waiting>>
           ELSE IF FinalFirst(r.ev) THEN active' = FALSE /\ UNCHANGED waiting
           ELSE waiting' = waiting + 1 /\ UNCHANGED active
  /\ UNCHANGED <<loop, race>>

(* Convex answers the write before a waiting final.  flushFinal then ends     *)
(* whatever turn the sink has by now; a refused write takes the final along.  *)
RecoveryWritten(ok) ==
  /\ waiting > 0
  /\ waiting' = waiting - 1
  /\ active' = (active /\ ~ok)
  /\ UNCHANGED <<nz, loop, race, fetching, turn>>

(* Time passes for every deadline and for the loop's timer alike. *)
Elapses ==
  /\ \/ race > 0
     \/ \E w \in Waits : nz.deadlines[w] > 0
  /\ nz' = Elapse(nz)
  /\ race' = Less(race)
  /\ UNCHANGED <<active, waiting, loop, fetching, turn>>

Next ==
  \/ \E ack \in RunIds \cup {NoRun} : StartTurn(ack)
  \/ \E f \in Frames : Receive(f)
  \/ Timeout
  \/ Close
  \/ \E asker \in fetching, said \in Recovered : RecoveryAnswer(asker, said)
  \/ \E ok \in BOOLEAN : RecoveryWritten(ok)
  \/ Elapses

(* Timers fire and time passes; the gateway and the user owe nothing. *)
Spec == Init /\ [][Next]_vars /\ WF_vars(Timeout) /\ WF_vars(Elapses)

-----------------------------------------------------------------------------
(* Properties *)

(* An open turn always has its silence budget armed, so the loop has a time  *)
(* to wake up at.  A closed one has none of the waits that are a turn's: only *)
(* a lifecycle end that the gateway sent after the close, and that the sink   *)
(* still let in, its final not yet issued, leaves a grace behind.            *)
DeadlinesMatchTurn ==
  IF nz.finalized
    THEN \A w \in Waits : Armed(nz, w) => w = "lifecycle_end" /\ turn.lateEnd
    ELSE Armed(nz, "recv")

(* Between its beginning and its end a turn emits one terminal pair, and it  *)
(* has emitted it exactly when the normalizer is finalized: finals, timers,  *)
(* errors, a recovery and a close all race to end it.                        *)
OneClosingPerTurn == turn.closings = IF nz.finalized THEN 1 ELSE 0

(* Frames of another run than the acked one reach the message only once the  *)
(* turn's own run has ended or was abandoned to compaction.                  *)
BackgroundRunsStayOut ==
  turn.ack # NoRun /\ ~turn.followOn => turn.contributors \subseteq {turn.ack, NoRun}

(* A turn nobody abandoned closes with the text its message has been showing, *)
(* chunk by chunk, except for the paths of a reply that came in pieces; or,   *)
(* having shown none, with nothing or the ack it held.  No order of deltas,    *)
(* snapshots, acks, graces, recoveries and late frames makes the final differ *)
(* in anything else.                                                          *)
AnswerIsWhatWasShown ==
  nz.finalized /\ ~turn.abandoned =>
    \/ /\ Len(turn.answer) = Len(turn.stream)
       /\ \A i \in DOMAIN turn.answer :
            \/ turn.answer[i] = turn.stream[i]
            \/ Len(nz.text) > 1 /\ InDirective(nz.text, i)
    \/ turn.stream = <<>> /\ IsPrivateAck(turn.answer)

(* While a turn is held on the grace of an ack or of an empty final, it has  *)
(* shown no reply that the grace could cut short.                            *)
GraceMeansNoReply ==
  (Armed(nz, "private_ack") \/ Armed(nz, "empty_final")) /\ ~turn.abandoned =>
    turn.stream = <<>> \/ IsPrivateAck(turn.stream)

(* A file is attached to the message once, whichever of the media list, the  *)
(* tool results and the reply's text name it again, in one frame or in many.  *)
EachFileOnce == ~turn.filedTwice

(* The transcript is fetched at most once for a turn, however often the turn *)
(* comes back to a grace.                                                    *)
RecoveryOnce ==
  /\ turn.recoveries <= 1
  /\ "this" \in fetching => turn.recoveries = 1

(* The frames that may start a grace over. *)
SaidBy(f) ==
  CASE f.stream = "chat" -> f.message
    [] f.stream = "assistant" -> f.text
    [] f.stream = "tool" /\ f.name = "message" -> f.args.text
    [] OTHER -> <<>>

Restarts(w, f) ==
  CASE w = "private_ack" -> IsPrivateAck(SaidBy(f))
    [] w = "empty_final" -> f.stream = "chat" /\ f.state = "final"
    [] w = "lifecycle_end" -> f.stream = "lifecycle" /\ f.phase = "end"

(* A running grace is never extended by an unrelated frame: only another ack, *)
(* empty final or lifecycle end of the session starts its own grace over.     *)
GracesNotExtended ==
  [][\A w \in Waits \ {"recv"} :
       0 <= nz.deadlines[w] /\ nz.deadlines[w] < nz'.deadlines[w] =>
         \E f \in Frames : Receive(f) /\ Restarts(w, f)]_vars

(* A grace ends even if frames keep coming: while the loop runs and its sink  *)
(* has a turn, it cannot stay armed for ever unless it is started over again   *)
(* and again.  (Once the sink has none, tick leaves the deadlines as they are.) *)
GracesEnd ==
  \A w \in Waits \ {"recv"} :
    \/ []<>(~Armed(nz, w) \/ ~active \/ loop = "ended")
    \/ []<><<nz'.deadlines[w] > nz.deadlines[w]>>_vars

(* Once the loop races a timer, a turn whose gateway falls silent closes,      *)
(* unless the final of an earlier turn ended it for the sink.                 *)
TimedTurnsClose ==
  \/ []<>(nz.finalized \/ race = Off \/ ~active)
  \/ []<><<\E f \in Frames : Receive(f)>>_vars
  \/ []<><<\E ack \in RunIds \cup {NoRun} : StartTurn(ack)>>_vars

-----------------------------------------------------------------------------
(* What the repository says, and the code does not do *)

(* normalizer.ts:359, "Guarantees an armed wait always finalizes".           *)
ArmedWaitsFinalize ==
  \/ []<>(nz.finalized)
  \/ []<><<\E f \in Frames : Receive(f)>>_vars
  \/ []<><<\E ack \in RunIds \cup {NoRun} : StartTurn(ack)>>_vars
=============================================================================
