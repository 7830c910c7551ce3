----------------------------- MODULE Normalizer -----------------------------
(***************************************************************************)
(* The streaming normalizer (providers/openclaw/normalizer.ts) as a pure   *)
(* transducer.  The object is a record nz; every method is an operator      *)
(* that takes a result [nz, ev] (the object so far and the events already   *)
(* pushed) and returns the next one, so handlers compose the way the code   *)
(* calls one from another.                                                  *)
(*                                                                          *)
(* A text is the sequence of chunks it was put together from, its line      *)
(* breaks left out; what sanitization cuts out of it, it cuts out of its    *)
(* chunks.  A deadline is held as the time it has left, 0 when it has       *)
(* expired: the code only compares deadlines with `now` (dl <= now).        *)
(* currentRunId and the deprecated raw passthrough only decorate events     *)
(* that nothing persists; turnActive is never read.  They are left out.     *)
(***************************************************************************)
EXTENDS Integers, Sequences, FiniteSets

CONSTANTS
  RunIds, NoRun,           \* gateway run ids; a frame without one
  Chunks, AckChunks,       \* candidate texts; those PRIVATE_ACK_RE matches
  MediaPaths, MediaIn,     \* outbound paths; the paths embedded in a chunk
  Directives,              \* the runs of chunks that together spell an outbound path
  Cleaned,                 \* what is left of a chunk of one: shown alone, in a longer text
  ToolCalls,               \* toolCallId values
  BASE_RECV_TIMEOUT, COMPACTION_RECV_TIMEOUT, EMPTY_FINAL_GRACE,
  PRIVATE_ACK_GRACE, LIFECYCLE_END_GRACE

ASSUME NormalizerAssumption ==
  /\ NoRun \notin RunIds
  /\ AckChunks \subseteq Chunks
  /\ MediaIn \in [Chunks -> SUBSET MediaPaths]
  /\ Directives \subseteq Seq(Chunks) \ {<<>>}
  /\ Cleaned \in [Chunks -> [alone : Chunks, within : Chunks]]
  /\ \A a \in AckChunks : <<a>> \notin Directives
  /\ BASE_RECV_TIMEOUT \in Nat \ {0}
  /\ COMPACTION_RECV_TIMEOUT \in Nat \ {0}
  /\ EMPTY_FINAL_GRACE \in Nat \ {0}
  /\ PRIVATE_ACK_GRACE \in Nat \ {0}
  /\ LIFECYCLE_END_GRACE \in Nat \ {0}

-----------------------------------------------------------------------------
(* Data *)

Text == Seq(Chunks)

(* What one frame field can say: nothing, or one chunk. *)
Said == {<<>>} \cup {<<c>> : c \in Chunks}

IsPrivateAck(text) == \E a \in AckChunks : text = <<a>>

(* sanitizeText: the MEDIA: lines and the outbound paths go, wherever they   *)
(* stand in the text it is given.  A path that streaming broke into chunks is *)
(* there for the whole text only, not for any one of its chunks; and whether  *)
(* a directive is a line of its own, so that nothing of it is left, is a      *)
(* matter of the text around it.                                              *)
Occurs(d, text, j) ==
  j + Len(d) <= Len(text) /\ \A n \in DOMAIN d : text[j + n] = d[n]

InDirective(text, i) ==
  \E d \in Directives, j \in 0 .. Len(text) :
    Occurs(d, text, j) /\ j < i /\ i <= j + Len(d)

Sanitized(text) ==
  [i \in DOMAIN text |->
     IF ~InDirective(text, i) THEN text[i]
     ELSE IF Len(text) = 1 THEN Cleaned[text[i]].alone ELSE Cleaned[text[i]].within]

Waits == {"recv", "empty_final", "private_ack", "lifecycle_end"}
Off == -1
NoDeadlines == [w \in Waits |-> Off]

(* data.args of a message-tool start: who it is addressed to, and its text. *)
ToolArgs == [action : {"none", "send", "thread-reply", "other"},
             target : BOOLEAN,
             channel : {"none", "current", "external"},
             text : Said]

ChatFrame == [stream : {"chat"}, run : RunIds \cup {NoRun}, seq : Nat,
              state : {"delta", "final"}, message : Said, deltaText : Said]
AssistantFrame == [stream : {"assistant"}, run : RunIds \cup {NoRun},
                   mediaUrls : SUBSET MediaPaths, text : Said, delta : Said]
MessageToolFrame == [stream : {"tool"}, run : RunIds \cup {NoRun},
                     name : {"message"}, phase : {"start", "result"},
                     args : ToolArgs, result : SUBSET MediaPaths]
OtherToolFrame == [stream : {"tool"}, run : RunIds \cup {NoRun},
                   name : {"other"}, phase : {"start", "result"},
                   call : ToolCalls, result : SUBSET MediaPaths]
LifecycleFrame == [stream : {"lifecycle"}, run : RunIds \cup {NoRun},
                   phase : {"start", "end", "abandoned", "error"}]
ItemFrame == [stream : {"item"}, run : RunIds \cup {NoRun}, messageTool : BOOLEAN]
ProvenanceFrame == [stream : {"provenance"}, run : RunIds \cup {NoRun},
                    valid : BOOLEAN]
(* A response, another event, or another session's sessionKey. *)
UnattributableFrame == [stream : {"unattributable"}, run : RunIds \cup {NoRun}]

Frame == ChatFrame \cup AssistantFrame \cup MessageToolFrame
           \cup OtherToolFrame \cup LifecycleFrame \cup ItemFrame
           \cup ProvenanceFrame \cup UnattributableFrame

(* What a frame may say of the reply. *)
FrameText(f) ==
  CASE f.stream = "chat" -> {f.message, f.deltaText}
    [] f.stream = "assistant" -> {f.text, f.delta}
    [] f.stream = "tool" /\ f.name = "message" -> {f.args.text}
    [] OTHER -> {}

(* lastDedupKey is the chat frame itself (its run, seq, state, deltaText and  *)
(* content): at most one of them, none before the first.                     *)
Normalizer ==
  [ownRunIds : SUBSET RunIds, finalized : BOOLEAN, compactionPending : BOOLEAN,
   text : Text, hasSnapshot : BOOLEAN, hasVisibleToolText : BOOLEAN,
   pendingAckText : Text, mediaPaths : SUBSET MediaPaths,
   lastDedupKey : SUBSET ChatFrame, sawMessageToolItem : BOOLEAN,
   recoveryAttempted : BOOLEAN, toolArgs : SUBSET ToolCalls,
   deadlines : [Waits -> Nat \cup {Off}]]

(* The constructor: finalized until the first beginTurn. *)
NewNormalizer ==
  [ownRunIds |-> {}, finalized |-> TRUE, compactionPending |-> FALSE,
   text |-> <<>>, hasSnapshot |-> FALSE, hasVisibleToolText |-> FALSE,
   pendingAckText |-> <<>>, mediaPaths |-> {}, lastDedupKey |-> {},
   sawMessageToolItem |-> FALSE, recoveryAttempted |-> FALSE,
   toolArgs |-> {}, deadlines |-> NoDeadlines]

-----------------------------------------------------------------------------
(* Deadlines and finalization *)

HasRealContent(nz) ==
  \/ nz.hasVisibleToolText
  \/ nz.mediaPaths # {}
  \/ nz.text # <<>> /\ ~IsPrivateAck(nz.text)

Armed(nz, w) == nz.deadlines[w] # Off

Arm(nz, w, budget) == [nz EXCEPT !.deadlines[w] = budget]

ClearWait(nz, w) == [nz EXCEPT !.deadlines[w] = Off]

(* Mutant: every armed wait starts over with the silence budget. *)
ArmRecvAndGraces(nz) ==
  IF nz.finalized THEN nz
  ELSE [nz EXCEPT !.deadlines = [w \in Waits |->
          IF w = "recv" \/ nz.deadlines[w] # Off THEN BASE_RECV_TIMEOUT ELSE Off]]

ArmRecv(nz) ==
  IF nz.finalized THEN nz
  ELSE Arm(nz, "recv", IF nz.compactionPending THEN COMPACTION_RECV_TIMEOUT
                                               ELSE BASE_RECV_TIMEOUT)

(* this.text || this.pendingAckText: the text a turn closing now would get. *)
AnswerText(nz) == IF nz.text # <<>> THEN nz.text ELSE nz.pendingAckText

(* Mutant: a turn without text closes without a final. *)
TerminalPairUnlessBlank(nz, status) ==
  IF AnswerText(nz) = <<>> THEN << [type |-> "run.status", status |-> status] >>
  ELSE << [type |-> "message.final", text |-> Sanitized(AnswerText(nz)),
           error |-> status = "error"],
          [type |-> "run.status", status |-> status] >>

(* The whole text, sanitized at once.  A failed turn carries its error in the  *)
(* final and the status "error".                                              *)
TerminalPair(nz, status) ==
  << [type |-> "message.final", text |-> Sanitized(AnswerText(nz)),
      error |-> status = "error"],
     [type |-> "run.status", status |-> status] >>

(* Mutant: the deadlines of the turn survive it. *)
FinalizeKeepsDeadlines(r, status) ==
  IF r.nz.finalized THEN r
  ELSE [nz |-> [r.nz EXCEPT !.finalized = TRUE, !.compactionPending = FALSE],
        ev |-> r.ev \o TerminalPair(r.nz, status)]

(* Mutant: a turn may be finalized again. *)
FinalizeTwice(r, status) ==
  [nz |-> [r.nz EXCEPT !.finalized = TRUE, !.compactionPending = FALSE,
                       !.deadlines = NoDeadlines],
   ev |-> r.ev \o TerminalPair(r.nz, status)]

Finalize(r, status) ==
  IF r.nz.finalized THEN r
  ELSE [nz |-> [r.nz EXCEPT !.finalized = TRUE, !.compactionPending = FALSE,
                            !.deadlines = NoDeadlines],
        ev |-> r.ev \o TerminalPair(r.nz, status)]

ResetForCompaction(nz) ==
  ArmRecv([nz EXCEPT !.compactionPending = TRUE, !.text = <<>>,
                     !.hasSnapshot = FALSE, !.hasVisibleToolText = FALSE,
                     !.pendingAckText = <<>>, !.mediaPaths = {},
                     !.lastDedupKey = {},
                     !.deadlines = [@ EXCEPT !["empty_final"] = Off,
                                             !["private_ack"] = Off,
                                             !["lifecycle_end"] = Off]])

Push(r, event) == [r EXCEPT !.ev = Append(@, event)]

(* Mutant: a path is pushed again each time it is named. *)
CollectMediaAgain(r, paths) ==
  IF paths = {} THEN r
  ELSE Push([r EXCEPT !.nz.mediaPaths = @ \cup paths],
            [type |-> "media", items |-> paths])

(* One media event for the paths not yet seen this turn, none when all are. *)
CollectMedia(r, paths) ==
  LET new == paths \ r.nz.mediaPaths
  IN IF new = {} THEN r
     ELSE Push([r EXCEPT !.nz.mediaPaths = @ \cup new],
               [type |-> "media", items |-> new])

-----------------------------------------------------------------------------
(* The visible-text state machine *)

(* Mutant: an ack is held even when the reply is there. *)
HoldAckAlways(r, ack, isFinal) ==
  [r EXCEPT !.nz = Arm([@ EXCEPT !.pendingAckText = ack],
                       "private_ack", PRIVATE_ACK_GRACE)]

(* A snapshot that is a private ack: the real reply wins if there is one,   *)
(* otherwise the ack is held for a grace.                                   *)
HoldAck(r, ack, isFinal) ==
  IF HasRealContent(r.nz)
    THEN IF isFinal THEN Finalize(r, "final") ELSE r
    ELSE [r EXCEPT !.nz = Arm([@ EXCEPT !.pendingAckText = ack],
                              "private_ack", PRIVATE_ACK_GRACE)]

(* Mutant: a snapshot adds to the text instead of replacing it. *)
ShowTextAppends(r, said, isSnapshot, isFinal) ==
  LET shown == [r.nz EXCEPT !.text = @ \o said,
                            !.hasSnapshot = @ \/ isSnapshot,
                            !.pendingAckText = <<>>,
                            !.deadlines = [@ EXCEPT !["empty_final"] = Off,
                                                    !["private_ack"] = Off]]
      event == [type |-> IF isSnapshot THEN "message.snapshot" ELSE "message.delta",
                text |-> Sanitized(said)]
      pushed == CollectMedia(Push([r EXCEPT !.nz = shown], event),
                             MediaIn[Head(said)])
  IN IF isFinal THEN Finalize(pushed, "final") ELSE pushed

(* Text that becomes the answer so far: each piece is shown sanitized on its  *)
(* own, and its media are looked for in the piece as it came.                *)
ShowText(r, said, isSnapshot, isFinal) ==
  LET shown == [r.nz EXCEPT !.text = IF isSnapshot THEN said ELSE @ \o said,
                            !.hasSnapshot = @ \/ isSnapshot,
                            !.pendingAckText = <<>>,
                            !.deadlines = [@ EXCEPT !["empty_final"] = Off,
                                                    !["private_ack"] = Off]]
      event == [type |-> IF isSnapshot THEN "message.snapshot" ELSE "message.delta",
                text |-> Sanitized(said)]
      pushed == CollectMedia(Push([r EXCEPT !.nz = shown], event),
                             MediaIn[Head(said)])
  IN IF isFinal THEN Finalize(pushed, "final") ELSE pushed

ApplyVisible(r, said, isSnapshot, isFinal) ==
  IF r.nz.finalized THEN r
  ELSE IF isSnapshot /\ IsPrivateAck(said) THEN HoldAck(r, said, isFinal)
  ELSE IF ~isSnapshot /\ r.nz.hasSnapshot THEN r
  ELSE ShowText(r, said, isSnapshot, isFinal)

-----------------------------------------------------------------------------
(* One handler per stream *)

(* A final with nothing deliverable: close, or wait for follow-on content. *)
EmptyFinal(r) ==
  IF r.nz.finalized THEN r
  ELSE IF HasRealContent(r.nz) THEN Finalize(r, "final")
  ELSE [r EXCEPT !.nz = Arm(@, "empty_final", EMPTY_FINAL_GRACE)]

HandleChat(r, f) ==
  LET fresh == [r EXCEPT !.nz.lastDedupKey = {f}]
      isFinal == f.state = "final"
  IN IF f \in r.nz.lastDedupKey THEN r
     ELSE IF f.message # <<>> THEN ApplyVisible(fresh, f.message, TRUE, isFinal)
     ELSE IF f.deltaText # <<>> THEN ApplyVisible(fresh, f.deltaText, FALSE, isFinal)
     ELSE IF isFinal THEN EmptyFinal(fresh)
     ELSE fresh

HandleAssistant(r, f) ==
  LET collected == CollectMedia(r, f.mediaUrls)
  IN IF f.text # <<>> THEN ApplyVisible(collected, f.text, TRUE, FALSE)
     ELSE IF f.delta # <<>> THEN ApplyVisible(collected, f.delta, FALSE, FALSE)
     ELSE collected

(* The text a message-tool call shows in THIS chat: none when the call is   *)
(* not a send, names an external target, or goes through another channel.   *)
MessageToolText(args) ==
  IF \/ args.action = "other"
     \/ args.target
     \/ args.channel = "external"
  THEN <<>> ELSE args.text

MessageTool(r, f) ==
  LET card == Push(r, [type |-> "tool.status", name |-> "message",
                       phase |-> f.phase, input |-> FALSE])
      visible == MessageToolText(f.args)
  IN IF f.phase = "start" /\ visible # <<>>
       THEN ApplyVisible([card EXCEPT !.nz.hasVisibleToolText = TRUE],
                         visible, TRUE, FALSE)
       ELSE card

(* start only buffers its args; the result emits one card with them. *)
OtherTool(r, f) ==
  IF f.phase = "start" THEN [r EXCEPT !.nz.toolArgs = @ \cup {f.call}]
  ELSE Push([r EXCEPT !.nz.toolArgs = @ \ {f.call}],
            [type |-> "tool.status", name |-> "other", phase |-> "completed",
             input |-> f.call \in r.nz.toolArgs])

HandleTool(r, f) ==
  CollectMedia(IF f.name = "message" THEN MessageTool(r, f) ELSE OtherTool(r, f),
               f.result)

HandleLifecycle(r, f) ==
  CASE f.phase = "error" -> Finalize(r, "error")
    [] f.phase = "abandoned" ->
         Push([r EXCEPT !.nz = ResetForCompaction(@)],
              [type |-> "run.status", status |-> "compacting"])
    [] f.phase = "end" ->
         Push([r EXCEPT !.nz = Arm(@, "lifecycle_end", LIFECYCLE_END_GRACE)],
              [type |-> "run.status", status |-> "working"])
    [] f.phase = "start" ->
         LET restarted == IF r.nz.compactionPending
                            THEN ArmRecv([r.nz EXCEPT !.compactionPending = FALSE])
                            ELSE r.nz
         IN Push([r EXCEPT !.nz = ClearWait(restarted, "lifecycle_end")],
                 [type |-> "run.status", status |-> "running"])

Dispatch(r, f) ==
  CASE f.stream = "chat" -> HandleChat(r, f)
    [] f.stream = "assistant" -> HandleAssistant(r, f)
    [] f.stream = "tool" -> HandleTool(r, f)
    [] f.stream = "lifecycle" -> HandleLifecycle(r, f)
    [] f.stream = "item" ->
         [r EXCEPT !.nz.sawMessageToolItem = @ \/ f.messageTool]
    [] f.stream = "provenance" ->
         IF f.valid THEN Push(r, [type |-> "provenance", run |-> f.run]) ELSE r

(* The isolation gate: a frame of another run than the turn's own. *)
ForeignRun(nz, f) ==
  /\ f.run # NoRun
  /\ nz.ownRunIds # {}
  /\ f.run \notin nz.ownRunIds

(* Mutant: the grace of an empty final admits other runs too. *)
FollowOnOpenOnAnyGrace(nz) == \E w \in Waits \ {"recv"} : Armed(nz, w)

FollowOnOpen(nz) == Armed(nz, "lifecycle_end") \/ nz.compactionPending

Admits(nz, f) ==
  /\ f.stream # "unattributable"
  /\ ForeignRun(nz, f) => FollowOnOpen(nz)

-----------------------------------------------------------------------------
(* The methods the run manager calls *)

Result(nz) == [nz |-> nz, ev |-> <<>>]

(* Mutant: the text of the turn before is not reset. *)
BeginTurnKeepsText(nz) ==
  ArmRecv([NewNormalizer EXCEPT !.finalized = FALSE, !.text = nz.text])

BeginTurn(nz) == ArmRecv([NewNormalizer EXCEPT !.finalized = FALSE])

NoteRunStarted(nz, run) == ArmRecv([nz EXCEPT !.ownRunIds = @ \cup {run}])

Feed(nz, f) ==
  IF ~Admits(nz, f) THEN Result(nz)
  ELSE LET admitted == IF ForeignRun(nz, f)
                         THEN [nz EXCEPT !.ownRunIds = @ \cup {f.run}] ELSE nz
       IN Dispatch(Result(ArmRecv(admitted)), f)

Expired(nz, w) == nz.deadlines[w] = 0

Due(nz) == \E w \in Waits : Expired(nz, w)

(* Mutant: the silence budget is not looked at. *)
TickIgnoresRecv(nz) ==
  IF nz.finalized THEN Result([nz EXCEPT !.deadlines = NoDeadlines])
  ELSE IF Expired(nz, "private_ack")
         THEN Finalize(Result([nz EXCEPT !.text = AnswerText(nz)]), "final")
  ELSE IF \E w \in Waits \ {"recv"} : Expired(nz, w) THEN Finalize(Result(nz), "final")
  ELSE Result(nz)

(* An ack whose grace elapsed becomes the best-effort text. *)
Tick(nz) ==
  IF nz.finalized THEN Result([nz EXCEPT !.deadlines = NoDeadlines])
  ELSE IF Expired(nz, "private_ack")
         THEN Finalize(Result([nz EXCEPT !.text = AnswerText(nz)]), "final")
  ELSE IF Due(nz) THEN Finalize(Result(nz), "final")
  ELSE Result(nz)

EndTurn(nz, status) == Finalize(Result(nz), status)

WantsHistoryRecovery(nz) ==
  /\ ~nz.finalized
  /\ nz.sawMessageToolItem
  /\ ~nz.recoveryAttempted
  /\ ~HasRealContent(nz)
  /\ Armed(nz, "private_ack") \/ Armed(nz, "empty_final")

(* Mutant: the attempt is not remembered. *)
MarkNothing(nz) == nz

MarkRecoveryAttempted(nz) == [nz EXCEPT !.recoveryAttempted = TRUE]

RecoverVisibleText(nz, said) ==
  IF nz.finalized \/ said = <<>> THEN Result(nz)
  ELSE ApplyVisible(Result([nz EXCEPT !.hasVisibleToolText = TRUE]), said, TRUE, TRUE)

(* nextTimeout: the time left to the nearest deadline, Off when idle. *)
Idle(nz) == \A w \in Waits : ~Armed(nz, w)

(* Mutant: only the silence budget wakes the loop. *)
NextTimeoutOfRecv(nz) == nz.deadlines["recv"]

NextTimeout(nz) ==
  IF Idle(nz) THEN Off
  ELSE CHOOSE t \in {nz.deadlines[w] : w \in {v \in Waits : Armed(nz, v)}} :
         \A w \in Waits : Armed(nz, w) => t <= nz.deadlines[w]

(* Mutant: an expired countdown goes below zero. *)
LessUnclamped(t) == t - 1

(* One unit of time passes for a countdown. *)
Less(t) == IF t > 0 THEN t - 1 ELSE t

Elapse(nz) ==
  [nz EXCEPT !.deadlines = [w \in Waits |-> Less(nz.deadlines[w])]]
=============================================================================
