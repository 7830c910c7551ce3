----------------------------- MODULE MCTurnLoop -----------------------------
(* Frame alphabets for TurnLoop: one per question, each a few frames of the  *)
(* shapes test/fixtures/openclaw_frames.json records.                        *)
EXTENDS TurnLoop

CONSTANTS own, bg, ack, hello, world, rest, link, cut, report

MCRunIds == {own, bg}
MCOneRun == {own}
MCChunks == {ack, hello, world, rest, link, cut}
MCAckChunks == {ack}
MCMediaPaths == {report}
(* `world` is a directive that names an outbound path, as is `hello` with `rest` *)
(* behind it.  Nothing is left of a directive that is a line of its own, a link *)
(* of one that other text runs into.                                            *)
MCMediaIn == [c \in MCChunks |-> IF c = world THEN {report} ELSE {}]
MCDirectives == {<<world>>, <<hello, rest>>}
MCCleaned ==
  [c \in MCChunks |->
     [alone |-> cut, within |-> IF c = world THEN link ELSE cut]]

Snapshot(r, seq, state, c) ==
  [stream |-> "chat", run |-> r, seq |-> seq, state |-> state,
   message |-> <<c>>, deltaText |-> <<>>]
Delta(r, seq, state, c) ==
  [stream |-> "chat", run |-> r, seq |-> seq, state |-> state,
   message |-> <<>>, deltaText |-> <<c>>]
Empty(r, seq) ==
  [stream |-> "chat", run |-> r, seq |-> seq, state |-> "final",
   message |-> <<>>, deltaText |-> <<>>]
Assistant(r, text, delta, media) ==
  [stream |-> "assistant", run |-> r, mediaUrls |-> media, text |-> text,
   delta |-> delta]
Lifecycle(r, phase) == [stream |-> "lifecycle", run |-> r, phase |-> phase]
ToCurrent(c) ==
  [action |-> "send", target |-> FALSE, channel |-> "current", text |-> <<c>>]
ToExternal(c) ==
  [action |-> "send", target |-> TRUE, channel |-> "none", text |-> <<c>>]
Message(r, phase, args, result) ==
  [stream |-> "tool", run |-> r, name |-> "message", phase |-> phase,
   args |-> args, result |-> result]
Tool(r, phase, result) ==
  [stream |-> "tool", run |-> r, name |-> "other", phase |-> phase,
   call |-> "call1", result |-> result]
Item(r) == [stream |-> "item", run |-> r, messageTool |-> TRUE]
Report(r, ok) == [stream |-> "provenance", run |-> r, valid |-> ok]
Noise == [stream |-> "unattributable", run |-> NoRun]

(* Text, acks, empty finals and the recovery of a gateway-delivered reply. *)
ReplyFrames ==
  {Delta(own, 1, "delta", hello), Snapshot(own, 2, "delta", hello),
   Snapshot(own, 3, "final", ack), Snapshot(own, 4, "final", world),
   Delta(own, 5, "final", rest), Empty(own, 6),
   Assistant(own, <<>>, <<ack>>, {}), Item(own), Lifecycle(own, "end"), Noise}

(* Tools, media and external deliveries. *)
ToolFrames ==
  {Tool(own, "start", {}), Tool(own, "result", {report}),
   Message(own, "start", ToCurrent(world), {}),
   Message(own, "start", ToExternal(hello), {}),
   Message(own, "result", ToCurrent(world), {report}),
   Assistant(own, <<world>>, <<>>, {report}), Assistant(NoRun, <<>>, <<hello>>, {}),
   Snapshot(own, 1, "final", ack), Empty(own, 2), Lifecycle(own, "abandoned"),
   Report(own, TRUE), Report(own, FALSE)}

(* Follow-on runs, compaction and a background run of the same session. *)
RunFrames ==
  {Lifecycle(r, phase) : r \in {own, bg}, phase \in {"start", "end"}}
    \cup {Lifecycle(own, "abandoned"), Lifecycle(own, "error")}
    \cup {Delta(r, 1, "delta", hello) : r \in {own, bg}}
    \cup {Snapshot(r, 2, "final", c) : r \in {own, bg}, c \in {ack, world}}
    \cup {Assistant(NoRun, <<>>, <<world>>, {})}

(* A gateway that acks a run and never sends a frame of it. *)
NoFrames == {}
NothingRecovered == {<<>>}
ReplyRecovered == {<<>>, <<hello>>}
=============================================================================
