# Verification of openclaw-webchat-bridge

TLA+ models of the bridge between an OpenClaw gateway (a WebSocket that streams
frames) and Convex (HTTP endpoints that hold the chat's messages). The modules
follow the TypeScript under `src/src/`; `PROJECT.json` gives, for every
definition, the lines it models. TLC checks the models on small instances;
TLAPS proves the safety of most of them for every value of their constants.

## 1. The system

One Node process, one thread. Things interleave at `await`s only, but there are
many: HTTP handlers, one consume loop per session, a recovery task beside it,
flush timers, request timers, and one promise chain of POSTs.

```
POST /send ──> SessionRegistry ──> Session ── consume loop ──> RunManager ──> Normalizer
 (server.ts)    (session.ts)          │         (session.ts)      │            (events)
                                      │                           └──> TurnSink ──> ConvexWriter ──> Convex
                              OpenClawConnection <── gateway frames
```

| Component | State | Operations | Hard because |
|---|---|---|---|
| **Normalizer** `providers/openclaw/normalizer.ts` | text so far, what was shown, four deadlines, own run ids, follow-on and compaction marks, media paths seen | `beginTurn`, `noteRunStarted`, `feed` (chat, assistant, tool, lifecycle, item, provenance frames), `tick`, `endTurn`, `recoverVisibleText`, `nextTimeout` | replies, acks, empty finals, tool texts, replays and background runs come in any order; four waits start, restart and expire |
| **Session / consume loop** `session.ts` | the pending read, the raced timer | race the read with the next deadline, `feed` or `tick`, finalize at close, start a recovery | the timer is computed before the race; the HTTP handler changes deadlines meanwhile |
| **RunManager** `run-manager.ts` | provenance stash | `beginTurn`, gates on `feed`/`tick`/recovery/`endTurn` | frames that overtake the `chat.send` ack |
| **TurnSink** `core/turn-sink.ts` | message id, turn active, provenance count | `startTurn`, `apply`, `flushFinal` | every event is an awaited write; two tasks may apply batches |
| **POST /send** `server.ts` `performSend` | – | verbose patch, knob patches, `sessions.describe`, rehydration, `chat.send`, ack, `beginTurn` | up to seven awaited requests, each of which may fail, be lost or be served late; sends overlap and are retried; what is decided from one answer is used in a later request |
| **POST /patch, /reset, /compact** `server.ts` | `verboseFullApplied` of the connection | one or more requests on the chat's session | what the bridge remembers of the gateway's session goes stale when it is reset or rolls |
| **ConvexWriter** `convex-writer.ts` | delta buffer and flush timer per message, one promise chain | `startAssistant`, `appendDelta`, `setSnapshot`, parts, media upload, `finalize` | a flush takes the buffer when it executes; POSTs are refused or their answer is lost |
| **OpenClawConnection** `openclaw-client.ts` | handshake phase, pending requests, frame queue, one waiter | `connect`, `request`, `frames`, `close` | answer, timeout and close race for one promise |
| **SessionRegistry** `session.ts` | sessions and pending creations per chat | `acquire`, `create`, `closeAll` | acquires of one chat join, wait, re-key and fail together |
| SessionMultiplexer `multiplex.ts` | normalizers by session key | not wired into the service | routing is the isolation boundary |
| **POST /agent-files, /config-defaults** `conf.ts`, `server.ts` | – (the gateway's file and configuration) | read, compare, write, read again; patch with a base hash, one retry; read back after a restart | check-then-act across requests, other editors, answers lost to a restart that the patch itself causes |
| History recovery, provenance contract, compat, health, sanitize (beyond what `Normalizer` takes of it), media fetcher, dispatch errors, config | pure functions, counters, I/O | | |

## 2. The modules

| Module | Models | State ↔ code |
|---|---|---|
| `Normalizer` | the transducer, as functions from a normalizer record and a frame to the next record and a batch of events | record fields bear the names of the class's fields; `Feed`, `Tick`, `EndTurn`, `BeginTurn`, ... are its methods, `Dispatch` the handlers behind the admission gates |
| `TurnLoop` | one session: consume loop, timers, recovery, close, and the turns POST /send begins; the loop's batch is one step with what caused it, because the loop awaits it, and a recovery's final waits behind the write before it | `nz` the normalizer, `active` = `turnActive` of the sink, which is what `feed`, `tick`, the close and a recovery ask, `waiting` the recoveries' finals not yet issued, `race` the timer of `raceWithTimeout`, `fetching` the recovery tasks, `turn` a record of what this turn saw and showed (not in the code) |
| `TurnPipeline` | the same with every awaited write, ack and answer a step of its own; the sink, the run manager's gates and stash | `sink` = `TurnSink`'s fields, `stash` = `pendingProvenance`, `jobs` = where each task is inside `sink.apply`, `ackRunId` the run each ack named, if any, `messages` = Convex; `seen` is a record for the properties |
| `DeltaLog` | abstract: what callers of the writer rely on | per message, a queue of what was given and the log of what shows |
| `DeltaWriter` | `HttpConvexWriter` | `pendingDelta`, `flushTimer`, `chain` as in the class; `posted` is the POST in flight; `given`, `failed`, `failures` are records for the properties |
| `GatewayConnection` | `OpenClawConnection` | `pending`, `queue` as in the class, `reader` is the consumer and the `waiter` slot, `request` each caller's promise |
| `SessionRegistry` | `SessionRegistry` | `sessions`, `inflight` as in the class; `request` where each `acquire` is; `connection` the one each creation made |
| `GatewayCalls` | what the HTTP handlers share: one awaited request at a time, which is answered, times out or loses its connection, and may be served after its caller has gone | `step` where each handler is, `call` what it awaits, `link` the connections, `reply` the status it answered; `late` the requests the gateway may still serve |
| `OperatorRoutes` | `performAgentFilesOp`, `performConfigDefaultsOp`, `withOperatorConnection`, `confirmDefaultsAfterRestart` | `edit`, `change` the locals of a handler; `file`, `config` are the gateway's; `author`, `edit.wrote`, `change.applied` records for the properties |
| `ChatRoutes` | `performSend` up to the ack, `performPatch`, `performReset`, `performCompact` for one chat | `local` the locals of a handler, `verboseFull` = `verboseFullApplied`, `current` what `acquire` would find; `row`, `accepted` the gateway's session and the idempotency keys it knows, `thread` Convex; `alone`, `deleted` and the record fields the comments name are for the properties |
| `BridgeServer` | `createBridgeServer`: the two together over one gateway, whose restart drops the connections of both | – |
| `MCServer`, `MCTurnLoop`, `MCTurn`, `MCTurnPipeline`, `MCPipeline`, `MCDelta` | constants for TLC | `MCTurn` and `MCPipeline` pick one of three frame alphabets per behaviour: their steps are steps of the module below with fewer frames, which keeps three questions in one run; `MCServer` likewise picks which requests come |
| `TurnLoopProofs`, `TurnPipelineProofs`, `DeltaWriterProofs`, `GatewayConnectionProofs`, `SessionRegistryProofs`, `OperatorRoutesProofs`, `ChatRoutesProofs`; `NormalizerLemmas` | proofs, and the lemmas about the operators of `Normalizer` | see 5 |

`TurnLoop` and `TurnPipeline` both instantiate the session around the one
`Normalizer`: the first is small enough to vary the frames widely, the second
opens the windows between awaits and keeps to a few frames per question. The
other three stand alone; they meet at what each promises the next. `ConnectSettles`
of `GatewayConnection` is the fairness `SessionRegistry` assumes of a creation;
`ReadToTheEnd` is why `Closes` of the pipeline comes at all. A write of the
pipeline is answered, refused, or applied with its answer lost, each a branch
of its step; `ImplementsLog` of `DeltaWriter` adds that below it the writes of a
message show in the order they were given, but it does not say that a failed one
is not applied, and the pipeline does not assume so.

Definitions headed `(* Mutant: ... *)` are plausible bugs, one per property;
nothing uses them in the models. Putting one in the place of the definition it
imitates must make TLC report the property violated.

`BridgeServer` is the layer above: what the HTTP handlers do before a turn
exists, and what the operator routes do without one. It takes `acquire` by what
`SessionRegistry` establishes (one live connection per chat, given to all) and ends
where `TurnPipeline` begins, at the ack.

### Abstractions

* Text is a sequence of chunks, each standing for one distinct text; a chunk in
  `AckChunks` is one `isPrivateAck` recognises, one with a `MediaIn` names
  outbound paths. Wording, labels and logs are left out.
* Sanitizing is modelled by what it does to the chunks of a path. The code
  sanitizes each delta when it is shown and the whole text when it is final
  (`normalizer.ts` 720, 824), and the two differ: a path or a `MEDIA:` directive
  that streaming broke into chunks is in no single chunk (`Directives` has the
  sequences of chunks that are one), and a directive that is a chunk of its own
  loses its line breaks, or not, by the text around it (`Cleaned`: what is left
  of it `alone`, and `within` a longer text). A chunk outside any directive is
  left as it is. `TurnPipeline` does not tell a chunk from what is left of it.
* A frame keeps the fields that some branch tests. `run = NoRun` is a frame
  without a run id. Frames of other sessions are dropped before any state is
  read; the `unattributable` stream stands for them. An ack, too, may name no
  run: then the turn owns none, and any run of the session is admitted to it.
* Budgets are 1..6 units in the order of the code's seconds (ack < lifecycle
  end < empty final < receive < compaction). Time passes one unit per `Elapses`.
* Real time between the ack and `beginTurn` is not modelled: `performSend` takes
  `now` before it awaits `chat.send`, so a real silence budget may be shorter by
  as long as the gateway took to ack.
* `DeltaWriter` assumes one caller per message that awaits its calls. The
  pipeline shows the recovery task can be a second one; the properties of the
  pipeline say where that matters (`FinalTextStays`).
* In `SessionRegistry` the continuations of a settled promise run before any
  other event, in any order among themselves.
* `GatewayConnection` takes the byte stream for granted: a peer that is gone is
  reported by the socket at some time. There is no ping in the code, so a
  half-open TCP connection may delay that for as long as the operating system
  does.

* `GatewayCalls`: a request is served in one step or never. A timed-out
  request, or one whose connection was lost on the way, may be served at any
  later time; a restart drops all that was waiting. A dispatch error is a
  disconnect, a timeout, or any other code. Per the comments in the code a lost
  socket that reports `ECONNRESET` has a text `classifyGatewayError` does not know.
* `OperatorRoutes`: a stamp is the version of the file, so two saves never share
  a millisecond. The hash of a configuration is the configuration, so one that
  was changed and changed back has its old hash. A list reads the stamp of the
  file like a get, and hands it out. A `config.get` may come without a hash: the
  patch then goes without one, and the gateway compares nothing. The content of the file is not needed by any property.
* `ChatRoutes`: one chat with its one session key. The gateway remembers every
  idempotency key it has accepted (the bridge relies on it, for how long the
  code does not say). Convex's history is "a bounded block" of the prior turns
  (`convex-writer.ts` 75, 144): of all messages stored, or of those the gateway has
  taken, without the one being sent; all of them up to `HistoryBlock`, and if there
  are more, any `HistoryBlock` of them, as which is Convex's choice. `LeftOut` records
  what a full block had no room for. Bodies that are refused
  (400, `instance_mismatch`, 401, 413) change nothing and are left out; so are
  `models.list` and the session meta, which are for display. The clock that a
  request's timer needs is left out: a timer may fire at any time.

## 3. The runs

Each passing run's properties have a mutant that breaks them.

| Run | Checks | Instance |
|---|---|---|
| `turn` | one turn after another in every order of frames, timers, recoveries and a close: closes once, deadlines match, background runs stay out, the final is what was shown, a grace never cuts a reply short, each file once, one recovery | 3 alphabets of 10–12 frames, 2 runs, stream of ≤ 3 chunks: every handler and gate is reached, a path in two chunks and one that is a chunk of its own among them; a fourth chunk repeats a third. `MaxWaiting` = 1 final behind a write: frames, timers, a close and the next turn come while it waits; a second recovery answers once the first is written |
| `graces` | no unrelated frame extends a grace, every grace ends, a timed turn of a silent gateway closes | 1 run, reply frames, stream ≤ 1 |
| `pipeline` | overlapping sends at every await: texts and reports stay with their run, a streaming message has someone to finish it, one finalize, final text stays | four scenarios: two turns that answer and report, under acks and frames that may name no run, two that hold an ack and recover, two that stream while any write, `startAssistant` included, may be refused or applied with its answer lost, and three quick ones of which the first holds an ack: its recovered final can wait behind a write while two turns begin |
| `delta_writer` | order, no gaps, no lost text, and everything shows in the end, under refused and lost POSTs | 2 messages with 4 and 2 items, 2 failures: a failure, one during its retry, and a neighbour to queue behind |
| `gateway` | answers, timeouts and closes settle each request once; frames in order, read to the end | 2 requests, 3 frames (waiter, queue of two) |
| `registry` | one live connection per chat, its own key for each acquire, failed creations forgotten, every acquire settles | 3 acquires, 2 chats, 2 keys: join, wait for another key, acquire again |
| `server` | a pinned save overwrites nothing its author has not seen; a defaults change is applied once and a 200 tells the truth, through retries and restarts; the model reads no message twice and misses none it should know, through retries, resets, rolls and losses; the verbose patch is skipped only when it holds; a turn runs with the knobs its send asked for; every request is answered | ten scenarios, each with the lines it needs: three requests to `/agent-files` and another editor, and two on a file that is missing at first; two defaults changes with lost connections, and with another editor; one with both; a change beside a send; two sends beside a reset and deletions; two sends (one message, its retry, or two) with rolls and lost connections; a send beside a `/patch`; a `/patch` beside a `/compact` with lost connections. Restarts, timeouts, failures and requests served late come in each. 3 file versions (the original, a save, another editor's; on the missing file two saves and another editor's), 2 read-backs for the code's 8 (one that fails and one that does not, so the end is reached too), intents that set or clear two of the three knobs (a level and a Boolean). `HistoryBlock` = 1: with no prior turn the history has room, with one it is just full, with two it leaves one out |

Violation runs: the repository says one thing and the code does another.

| Run | What it shows |
|---|---|
| `silent_gateway` | a turn begun while the loop races without a timer: the armed budget is never looked at until a frame comes ("Guarantees an armed wait always finalizes", normalizer.ts:359) |
| `closed_streaming` | the connection closes while `startAssistant` is unanswered: the message stays streaming (session.ts:108-109) |
| `idle_spin` | a recovery closes the normalizer and awaits the write of its text before its final; a lifecycle end fed meanwhile arms a grace that nobody clears once the final has ended the sink's turn: the idle loop spins on a zero timer (normalizer.ts:350) |
| `missed_frames` | frames that overtake the ack are dropped (server.ts:635-636) |
| `stranded` | a finalize whose flush is refused is never posted, and its text stays behind without a timer (convex-writer.ts:421, 302-303) |

Disagreements met on the way and not kept as runs: a recovery answer that comes
in the next turn is applied to that turn; text shown before a compaction stays
in the message; a snapshot that reads like an ack at the start of a reply arms
the ack grace; text streamed in pieces of a path is shown as it comes and sanitized
in the final only (`InDirective` in `AnswerIsWhatWasShown`); a tool text dropped as an ack lets an empty final close the turn
blank; a second send supersedes a turn whose message then gets no final; of three
quick sends, the final of the first, waiting behind a write, may finalize the
message of the second, and once the third has begun the second's own final,
waiting likewise, finalizes it again (`flushFinal` reads `messageId` when it runs,
and `beginTurn` has made the sink active for one more); the recovery task writes
beside the loop; a `startAssistant` that Convex applied and whose answer is lost
leaves a message that streams for ever, while its run streams into the message
before it; under an ack without a run id, or in frames without one, another run
speaks in the turn. The properties that hold say so in their antecedents: each
names the window in which the code makes no promise.

| Mark | Window |
|---|---|
| `turn.abandoned` | the text of the turn was given up to a compaction |
| `turn.followOn` | the turn's own run has ended or was compacted: another is taken for its follow-on |
| `turn.lateEnd` | a lifecycle end reached a closed turn that the sink had not ended yet |
| `seen.misplaced` | a batch was applied while the sink had no message of the turn (unanswered, refused or lost `startAssistant`) |
| `seen.overlapped`, `seen.crossed` | a turn superseded, or begun while a final waited behind a write |
| `seen.stale` | a recovery was still out when the next turn began |
| `seen.strayed` | a frame of another run was let into the turn: by a grace, by an ack that named no run, or for naming none itself |
| `seen.failed` | the turn's `startAssistant` failed, or a failed write took its final along |

What these windows hide is listed under "hazards" in `PROJECT.json` without a
property. In `SessionRegistry`, an acquire that waited with one of another key
may be given a session that the other has closed already; and a creation's
failure is the failure of all who wait for it, whatever their key.

`BridgeServer` has windows of its own, which its properties name:

* `/agent-files` compares before it writes, in two requests: a version saved in
  between is overwritten (`lost > before`), and the stamp a save returns is read
  after it, so it may be that of a version its author has never seen. A missing
  file has no stamp, so the first save of one pins nothing.
* A defaults change whose answer is lost to a plain loss, not to a restart, is
  confirmed the same way; one whose loss reads as another code, or that times
  out, is answered 502 though it may be, or may come to be, applied.
* Whether to rehydrate is decided from a describe: two sends that overlap on a
  fresh session both bring the history (`mixed`), a history may hold a message
  whose own send has not been taken yet (`early`), and one failed describe or
  history on a fresh session leaves the model without the thread until the next
  reset (`whole`), and a thread longer than the block without the rest (`cut`). A reset that is not answered 200 promises nothing (`deleted`).
* `verboseFullApplied` is not told of a session that rolls on an open connection:
  it stays without verbosity until the next connection or `/reset`. A `/reset`
  whose answer is lost does the same.

`CHECK_DEADLOCK FALSE` is set everywhere: a session ends with its connection, a
bounded stream with its last item.

## 4. Fairness

* `TurnLoop`: `WF(Elapses)`, `WF(Timeout)`: time passes and Node fires a due
  timer. `Promise.race` prefers a frame that is ready, so this assumes that the
  queue leaves a gap now and then. Frames, sends, recoveries, close: none.
* `DeltaWriter`: timers fire, the chain runs, `fetch` ends one way or other
  (there is no explicit timeout; undici has one). Callers: none.
* `GatewayConnection`: timers fire, a lost socket is reported, the consume loop
  reads on. The gateway: none.
* `SessionRegistry`: a handshake settles, continuations run. Requests, peers,
  shutdown: none.
* `TurnPipeline`: only safety is checked.
* `BridgeServer`: some handler that can go on does. Every await of a handler has
  a timer in `request` or in `connect`, or ends with `fetch`; so the model's
  `Outcomes` always offers one, and the fairness asks no more than that the event
  loop runs on. The gateway, Convex, restarts and their end: none.

## 5. Proofs

Checked by TLAPS for every value of the constants. Unless said otherwise they need
only the named assumptions of the modules they are about.

* `NormalizerLemmas` says of every helper and handler of the normalizer, bottom up,
  what it gives from any well typed object: the sanitized text is a text of the same
  chunks but for those of a path; `Sound`, a well typed result whose
  deadlines match its turn and whose events hold one final just if it closed; and
  what its events are, a batch that goes on, ends the turn or tells a status, with
  texts out of what the object held and the frame said (`FeedBatches`,
  `TickBatches`, `EndTurnBatches`, `RecoverBatches`). The two modules about a
  session's turns use it.
* `TurnLoopProofs` has two layers, with one step per action in each.
  * `LoopInvariant`: what a handler does to `finalized`, to the deadlines and to the
    closing events. From it `TypeCorrect`, `DeadlinesMatch`, `ClosesOnce`.
    `OneClosingPerTurn` is not inductive alone: whether a handler finalizes depends
    on the types and on `finalized` agreeing with the deadlines. Frames and timers
    reach a finalized normalizer, too, as long as the sink is active: then nothing
    closes a second time, and of the waits only a lifecycle end is armed, which
    `turn.lateEnd` remembers.
  * `TurnInvariant`: what the object holds agrees with what the record of the turn
    says (`TurnOf`): the stream that was told is chunk by chunk what sanitizing alone
    makes of the text it holds, each file told is in `mediaPaths`, a final that was
    told is what sanitizing makes of the whole of it or of a held ack, and in
    a turn whose own run has neither ended nor been compacted no grace has let
    another run in. `Told` and `Batch` carry this from the object before a frame to
    the events of the frame; the normalizer mentions neither the record nor the
    events it sent before, so no property about them is inductive without it. From it
    `RecoveredOnce`, `BackgroundStaysOut`, `FilesAttachedOnce`, `AnswerShown`, and
    with the deadlines `GraceWithoutReply`; `GracesKeepTime` is the action property
    `GracesNotExtended`.
* `TurnPipelineProofs` proves all six properties of the pipeline, every await of
  the send, the loop, the recovery task and the sink being a step. Each step is one
  of five kinds (`StepKinds`): it writes nothing, issues a batch, has a write
  answered, begins a turn, or gets that turn its message. `PipelineInv` has seven
  parts, with one lemma per part and kind:
  * `PipeInv`: types, and the order of things. The loop does not read on while it
    writes, a send's flush carries reports only, a recovery follows the one fetch
    of its turn, turns begin and get their messages in the order of their sends,
    nothing is written to a message that does not exist, and the sink is inactive
    once the message of the turn of now has its final. `TypeOK` follows.
  * `PendingInv`, `OnceInv`: a final whose batch still waits behind a write takes
    whichever message is current when it is issued, so while one is pending the
    only message it can hit beside that of the turn of now is one whose turn was
    crossed (the next began while a final waited). `FinalizedOnce`, which speaks of
    superseded turns too, is not inductive without it.
  * `DrivenInv`: a turn that is starting is the one the normalizer holds, open; a
    streaming message is that turn's, or a final for it is issued or pending.
    `StreamingIsDriven` says this of the messages; the proof needs it of the time
    before the message exists. A message whose creation was not answered is in
    `seen.failed` and nobody's.
  * `ReportsInv`: what the batches in flight report is the report of the run their
    message belongs to, or of none, unless a foreign frame strayed into its turn.
  * `TextInv`: the same of texts, and of what the normalizer holds: its text is what
    its own run said, if none strayed in. `TurnsDoNotMix` follows.
  * `EndedInv`: without a recovery beside it the loop has nothing left to write to a
    message that has ended; the action property `FinalTextStays` follows.

  It assumes that the frames of run `k` name `k` or no run, that their texts are chunk
  `k` or acks, and so are the recovered ones, and that sanitizing leaves a chunk
  recognisable: that is how the model tells whose a text is.
* `DeltaWriterProofs`: `WriterInv` adds to `TextHasAFlush` that the promise chain and
  the callers agree: a message has at most one awaited operation on the chain, its
  caller awaits just that and holds the item it is for, and a POST in flight
  carries what the head is for. Without this a settled flush could queue a POST of
  nothing, and an answered POST could show what is not an item. `FlushComing`
  follows. `LogInv` is for the refinement: a call carries its item while it is under
  way (`CallsCarry`), an awaited flush has taken all text of its message
  (`AwaitedTakesAll`) and once it is done none is left (`Drained`), and what is POSTed
  for a call is what its caller gave (`PostsAreCalls`). With it every step maps to
  one of `DeltaLog` or to a stutter: `WriterImplementsLog`.
* `GatewayConnectionProofs`: `TypeOK`, `WaitersAreKnown` and `FramesInOrder` are
  inductive together. The work is in three sequence lemmas: pushing at the end of
  the queue, taking its head, and the next number.
* `SessionRegistryProofs`: `RegistryInv` strengthens the stated invariants by what
  the maps say of the connections they name: a registered session was connected,
  a pending creation has no session registered beside it (else `Connects` would
  overwrite an open one), and a request without a creation of its own has no
  connection (else acquiring again would drop one). From it `OneLive`,
  `PendingConnecting`, `GivenOwnKey` for any number of acquires, chats and keys.
* `OperatorRoutesProofs` proves `NoUnseenOverwrite` and `DefaultsSavedOnce` of the
  whole of `BridgeServer`, chats included. It begins with what every step of the
  bridge leaves alone: a handler that goes on touches its own call and connection
  (`GoesOnAlone`), a service one call (`ServesOne`), a late one none
  (`LateAnswersNobody`). An invariant that speaks of one request at a time then
  needs a look at that request's own steps only. `FileInv` adds where a save stands: its
  pin was given to somebody, it is sent only after a read equal to its pin, and one
  that may still be served late belongs to a handler that is done. `ConfigInv` adds
  how a patch that is out relates to its handler: not applied while it is
  unanswered or refused, applied once it is answered, at most one left behind, and
  that one not applied; and that what was applied is in the configuration or has
  another author since. Without the last the report after a patch proves nothing;
  without the rest the retry on a fresh hash could apply a patch twice. Two of the
  assumptions of `GatewayCalls` are for these proofs: `None` is no error code, and
  no outcome.
* `ChatRoutesProofs` proves the four properties of the chat routes, again of the
  whole of `BridgeServer`. `ChatBase` (`ChatInvariant`) says what each handler awaits
  and of whom, that an open connection is the registered one, that what may be
  served late was asked for by a handler that came, and that a handler in `alone`
  that is pending is the only pending one: an overlap, a late service, a roll or a
  deletion takes the pending out of `alone`. So between the describe of an alone
  send and its turn nobody else moves the session, which is what each property
  needs of the code's check-then-act:
  * `VerboseInv`: a connection marked verbose has the row verbose, or a reset
    overtook it (`VerboseApplies`);
  * `TurnsInv`: how often the row has read each message against what was accepted,
    and for an alone send that the history it carries fits the row it described, and
    brings what was accepted of the thread but for what a full block left out
    (`Brings`, `TurnsRunOnce`, `ContextIsThread`);
  * `KnobsInv`: the row's overrides and the patches that are left come to what the
    intent wants, the clears before the sets (`IntentsHonoured`). `PatchesSettle`
    proves this of the order in `applySessionSettings`, for any intent.
  `BridgeTypeCorrect` is `TypeOK` of the whole bridge from all three invariants:
  answered handlers await nothing, and no operator route leaves its connection open.

Only model-checked: all liveness (`GracesEnd`, `TimedTurnsClose`, `ConnectSettles`,
`RequestsSettle`, `ReadToTheEnd`, `AcquireSettles`, `GivenIsShown`,
`EveryRequestAnswered`), as fairness and ENABLED are out of the prover's reach, and
the violations, which are counterexamples. Every safety invariant and every
action property of a passing run is stated by a theorem.

## 6. Not modelled, and the plan

Done, in order: Normalizer and TurnLoop, TurnPipeline, DeltaWriter with DeltaLog,
GatewayConnection, SessionRegistry, OperatorRoutes and ChatRoutes with BridgeServer.

Not modelled:

* `SessionMultiplexer`: nothing in the service constructs one.
* History recovery extraction, the provenance contract, version compatibility:
  pure functions of one JSON value, whose work is telling shapes and strings
  apart; their unit tests reach that better than a model would. The recovery of
  a text and a report that is valid or not are inputs of `TurnPipeline`.
* `GET /health`, `/capabilities`, `/agents`: they read state and keep counters.
* Formatting and how sanitizing rewrites a path (strings put together character by
  character; that it does so piece by piece and again all at once is modelled),
  Ed25519 signing, the media fetcher's file access, environment parsing,
  development tooling under `src/local-openclaw`.

What is left to do: a retried send in `TurnPipeline`, whose second ack begins a
second turn for a run that is being streamed.
