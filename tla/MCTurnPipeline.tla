--------------------------- MODULE MCTurnPipeline ---------------------------
(* The turns of one chat; run k says chunk k.                                 *)
EXTENDS TurnPipeline

CONSTANTS ack

MCChunks == {ack} \cup Turns
MCMediaIn == [c \in MCChunks |-> {}]
MCCleaned == [c \in MCChunks |-> [alone |-> c, within |-> c]]

Chat(k, seq, state, message, delta) ==
  [stream |-> "chat", run |-> k, seq |-> seq, state |-> state,
   message |-> message, deltaText |-> delta]
Delta(k) == Chat(k, 1, "delta", <<>>, <<k>>)
Final(k) == Chat(k, 2, "final", <<k>>, <<>>)
DeltaFinal(k) == Chat(k, 2, "final", <<>>, <<k>>)
AckFinal(k) == Chat(k, 3, "final", <<ack>>, <<>>)
Lifecycle(k, phase) == [stream |-> "lifecycle", run |-> k, phase |-> phase]
Item(k) == [stream |-> "item", run |-> k, messageTool |-> TRUE]
Report(k) == [stream |-> "provenance", run |-> k, valid |-> TRUE]
MessageToolStart(k) ==
  [stream |-> "tool", run |-> k, name |-> "message", phase |-> "start",
   args |-> [action |-> "send", target |-> FALSE, channel |-> "current", text |-> <<k>>],
   result |-> {}]

(* The frame without the run it is of. *)
Unnamed(f) == [f EXCEPT !.run = NoRun]

Reply(k) == <<k>>

(* A turn's frames in each of the scenarios of MCPipeline.                   *)
TurnFrames(k) == {Final(k), Lifecycle(k, "end"), Report(k)}
FailingFrames(k) == {Delta(k), MessageToolStart(k), DeltaFinal(k), Lifecycle(k, "error")}
RecoveryFrames(k) == {AckFinal(k), Item(k), Lifecycle(k, "end")}
HoldingFrames(k) == {AckFinal(k), Item(k)}
UnnamedFrames(k) ==
  {IF k = 1 THEN Unnamed(Final(k)) ELSE Final(k), Report(k), Unnamed(Report(k))}
AllFrames(k) ==
  TurnFrames(k) \cup FailingFrames(k) \cup RecoveryFrames(k) \cup UnnamedFrames(k)

(* A turn that just answers. *)
ClosingFrames(k) == {Final(k)}
=============================================================================
