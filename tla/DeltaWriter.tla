----------------------------- MODULE DeltaWriter -----------------------------
(***************************************************************************)
(* HttpConvexWriter (convex-writer.ts): deltas are buffered per message    *)
(* and flushed by a timer or before any other operation; every POST goes   *)
(* through one promise chain that all messages share.                      *)
(*                                                                         *)
(* The head of the chain is the operation that executes.  A flush takes    *)
(* the buffer when it executes, not when it is queued.  A POST is answered,*)
(* refused, or applied with its answer lost: the writer cannot tell the    *)
(* last two apart.                                                         *)
(*                                                                         *)
(* Each message has one caller that awaits its calls, the sink of its      *)
(* session; items are numbered in the order they are given.                *)
(***************************************************************************)
EXTENDS Naturals, Sequences

CONSTANTS
  Messages,
  MaxItems,        \* bound, per message: the items it is given
  MaxFailures      \* bound: POSTs refused or unanswered

ASSUME DeltaWriterAssumption ==
  /\ MaxItems \in [Messages -> Nat]
  /\ MaxFailures \in Nat

VARIABLES
  pendingDelta,    \* per message, the text not sent yet
  flushTimer,      \* per message, whether its flush timer is set
  chain,           \* the operations queued, the executing one first
  posted,          \* what the POST in flight carries, empty for none
  call,            \* per message, how far its caller's call has come
  shown,           \* per message, what Convex has applied
  given,           \* per message, the items given so far (no state of the code)
  failed,          \* the messages a POST failed for (no state of the code)
  failures         \* POSTs failed so far (no state of the code)

vars == <<pendingDelta, flushTimer, chain, posted, call, shown, given, failed, failures>>

-----------------------------------------------------------------------------
(* Data *)

Calls == {"snapshot", "part", "media", "final"}
Item == [kind : Calls \cup {"start", "delta"}, nr : UNION {1 .. MaxItems[m] : m \in Messages}]
IsText(item) == item.kind = "delta"

NoItem == [kind |-> "none", nr |-> 0]
(* The first step of a media part: it shows nothing.                         *)
UploadUrl == [kind |-> "uploadUrl", nr |-> 0]

Flush(m, awaited) ==
  [kind |-> "flush", message |-> m, awaited |-> awaited, item |-> NoItem]
Post(m, item) ==
  [kind |-> "post", message |-> m, awaited |-> TRUE, item |-> item]
Op == {Flush(m, awaited) : m \in Messages, awaited \in BOOLEAN}
        \cup {Post(m, item) : m \in Messages, item \in Item \cup {UploadUrl}}

(* Where a caller is: before its message exists, between calls, awaiting the *)
(* flush, the file, the POST or the upload of a call, or done.               *)
Steps == {"none", "idle", "flushing", "opening", "posting", "uploading", "closed"}

NextItem(m, kind) == [kind |-> kind, nr |-> given[m] + 1]

TypeOK ==
  /\ pendingDelta \in [Messages -> Seq({i \in Item : IsText(i)})]
  /\ flushTimer \in [Messages -> BOOLEAN]
  /\ chain \in Seq(Op)
  /\ posted \in Seq(Item \cup {UploadUrl}) /\ (posted # <<>> => chain # <<>>)
  /\ call \in [Messages -> [step : Steps, item : Item \cup {NoItem}]]
  /\ shown \in [Messages -> Seq(Item)]
  /\ given \in [Messages -> Nat] /\ \A m \in Messages : given[m] <= MaxItems[m]
  /\ failed \in SUBSET Messages
  /\ failures \in 0 .. MaxFailures

Init ==
  /\ pendingDelta = [m \in Messages |-> <<>>]
  /\ flushTimer = [m \in Messages |-> FALSE]
  /\ chain = <<>>
  /\ posted = <<>>
  /\ call = [m \in Messages |-> [step |-> "none", item |-> NoItem]]
  /\ shown = [m \in Messages |-> <<>>]
  /\ given = [m \in Messages |-> 0]
  /\ failed = {}
  /\ failures = 0

-----------------------------------------------------------------------------
(* Calls *)

Gives(m) ==
  /\ given[m] < MaxItems[m]
  /\ given' = [given EXCEPT ![m] = @ + 1]

StartAssistant(m) ==
  /\ call[m].step = "none"
  /\ Gives(m)
  /\ call' = [call EXCEPT ![m] = [step |-> "posting", item |-> NextItem(m, "start")]]
  /\ chain' = Append(chain, Post(m, NextItem(m, "start")))
  /\ UNCHANGED <<pendingDelta, flushTimer, posted, shown, failed, failures>>

(* Text only goes to the buffer; a timer is set unless there is one.         *)
AppendDelta(m) ==
  /\ call[m].step = "idle"
  /\ Gives(m)
  /\ pendingDelta' = [pendingDelta EXCEPT ![m] = Append(@, NextItem(m, "delta"))]
  /\ flushTimer' = [flushTimer EXCEPT ![m] = TRUE]
  /\ UNCHANGED <<chain, posted, call, shown, failed, failures>>

(* Mutant: the timer leaves it to a flush that is already on its way. *)
FlushDeltaOnce(m, awaited) ==
  /\ flushTimer' = [flushTimer EXCEPT ![m] = FALSE]
  /\ chain' = IF ~awaited /\ \E i \in DOMAIN chain : chain[i] = Flush(m, FALSE)
              THEN chain ELSE Append(chain, Flush(m, awaited))

FlushDelta(m, awaited) ==
  /\ flushTimer' = [flushTimer EXCEPT ![m] = FALSE]
  /\ chain' = Append(chain, Flush(m, awaited))

(* setSnapshot, addToolPart, addProvenancePart, addMedia and finalize first   *)
(* drain the text given before them.                                         *)
CallsFlush(m, kind) ==
  /\ call[m].step = "idle"
  /\ Gives(m)
  /\ call' = [call EXCEPT ![m] = [step |-> "flushing", item |-> NextItem(m, kind)]]
  /\ FlushDelta(m, TRUE)
  /\ UNCHANGED <<pendingDelta, posted, shown, failed, failures>>

TimerFires(m) ==
  /\ flushTimer[m]
  /\ FlushDelta(m, FALSE)
  /\ UNCHANGED <<pendingDelta, posted, call, shown, given, failed, failures>>

-----------------------------------------------------------------------------
(* The chain *)

(* The caller of m after its call: a final was its last, and without a       *)
(* message id there is nothing to call.                                      *)
Returned(m, ok) ==
  LET kind == call[m].item.kind
  IN [step |-> IF kind = "final" \/ (kind = "start" /\ ~ok) THEN "closed" ELSE "idle",
      item |-> NoItem]

(* The head of the chain is settled: what its caller does next, with the     *)
(* operation it queues then, if any.                                         *)
Settles(op, ok) ==
  LET m == op.message
      item == call[m].item
      At(step) == call' = [call EXCEPT ![m].step = step]
  IN \/ ~op.awaited /\ chain' = Tail(chain) /\ UNCHANGED call
     \/ /\ op.awaited /\ op.kind = "flush" /\ ok
        /\ \/ /\ item.kind # "media"
              /\ chain' = Append(Tail(chain), Post(m, item))
              /\ At("posting")
           \/ item.kind = "media" /\ chain' = Tail(chain) /\ At("opening")
     \/ /\ op.kind = "post" /\ op.item = UploadUrl /\ ok
        /\ chain' = Tail(chain)
        /\ At("uploading")
     \/ /\ op.awaited
        /\ ~ok \/ (op.kind = "post" /\ op.item # UploadUrl)
        /\ chain' = Tail(chain)
        /\ call' = [call EXCEPT ![m] = Returned(m, ok)]

(* The head of the chain executes, once the operation before it is settled. *)
Text(op) ==
  IF op.kind = "flush" THEN pendingDelta[op.message] ELSE <<op.item>>

Executes ==
  /\ chain # <<>>
  /\ posted = <<>>
  /\ Text(Head(chain)) # <<>>
  /\ posted' = Text(Head(chain))
  /\ pendingDelta' = IF Head(chain).kind = "flush"
                       THEN [pendingDelta EXCEPT ![Head(chain).message] = <<>>]
                       ELSE pendingDelta
  /\ UNCHANGED <<flushTimer, chain, call, shown, given, failed, failures>>

(* A flush that finds everything carried by an earlier one does not POST.    *)
SkipsFlush ==
  /\ chain # <<>>
  /\ posted = <<>>
  /\ Text(Head(chain)) = <<>>
  /\ Settles(Head(chain), TRUE)
  /\ UNCHANGED <<pendingDelta, flushTimer, posted, shown, given, failed, failures>>

Applied(m) ==
  IF posted = <<UploadUrl>> THEN shown
  ELSE [shown EXCEPT ![m] = @ \o posted]

Answered ==
  /\ posted # <<>>
  /\ shown' = Applied(Head(chain).message)
  /\ posted' = <<>>
  /\ Settles(Head(chain), TRUE)
  /\ UNCHANGED <<pendingDelta, flushTimer, given, failed, failures>>

(* Mutant: whatever was not sent goes back to the buffer. *)
RebufferedAlways(op) ==
  [pendingDelta EXCEPT ![op.message] = posted \o @]

(* Mutant: text that was not sent goes behind what arrived since. *)
RebufferedBehind(op) ==
  IF op.kind = "flush" THEN [pendingDelta EXCEPT ![op.message] = @ \o posted]
  ELSE pendingDelta

(* Text that was not sent goes back in front of what arrived since.          *)
Rebuffered(op) ==
  IF op.kind = "flush" THEN [pendingDelta EXCEPT ![op.message] = posted \o @]
  ELSE pendingDelta

(* The POST is refused, or applied (lost) without the writer knowing.        *)
Fails(lost) ==
  /\ posted # <<>>
  /\ failures < MaxFailures
  /\ shown' = IF lost THEN Applied(Head(chain).message) ELSE shown
  /\ posted' = <<>>
  /\ pendingDelta' = Rebuffered(Head(chain))
  /\ Settles(Head(chain), FALSE)
  /\ failed' = failed \cup {Head(chain).message}
  /\ failures' = failures + 1
  /\ UNCHANGED <<flushTimer, given>>

(* The media fetcher has the file, or the attachment is skipped.             *)
Opens(m, found) ==
  /\ call[m].step = "opening"
  /\ IF found
       THEN /\ call' = [call EXCEPT ![m].step = "posting"]
            /\ chain' = Append(chain, Post(m, UploadUrl))
       ELSE call' = [call EXCEPT ![m] = Returned(m, TRUE)] /\ UNCHANGED chain
  /\ UNCHANGED <<pendingDelta, flushTimer, posted, shown, given, failed, failures>>

(* The bytes go to the upload URL beside the chain; a failure only skips the *)
(* attachment.                                                               *)
Uploads(m, ok) ==
  /\ call[m].step = "uploading"
  /\ IF ok
       THEN /\ call' = [call EXCEPT ![m].step = "posting"]
            /\ chain' = Append(chain, Post(m, call[m].item))
       ELSE call' = [call EXCEPT ![m] = Returned(m, TRUE)] /\ UNCHANGED chain
  /\ UNCHANGED <<pendingDelta, flushTimer, posted, shown, given, failed, failures>>

Next ==
  \/ \E m \in Messages : StartAssistant(m) \/ AppendDelta(m) \/ TimerFires(m)
  \/ \E m \in Messages, kind \in Calls : CallsFlush(m, kind)
  \/ Executes
  \/ SkipsFlush
  \/ Answered
  \/ \E lost \in BOOLEAN : Fails(lost)
  \/ \E m \in Messages, ok \in BOOLEAN : Opens(m, ok) \/ Uploads(m, ok)

(* Timers fire, the chain runs, and fetch comes to an end one way or other;  *)
(* the callers owe nothing.                                                  *)
Fairness ==
  /\ \A m \in Messages : WF_vars(TimerFires(m))
  /\ WF_vars(Executes)
  /\ WF_vars(SkipsFlush)
  /\ WF_vars(Answered \/ \E lost \in BOOLEAN : Fails(lost))
  /\ \A m \in Messages : WF_vars(\E ok \in BOOLEAN : Opens(m, ok) \/ Uploads(m, ok))

Spec == Init /\ [][Next]_vars /\ Fairness

-----------------------------------------------------------------------------
(* Properties *)

(* What a message was given and Convex has not applied, oldest first: the    *)
(* text in flight, the text buffered, the call in progress.                  *)
InFlight(m) ==
  IF posted # <<>> /\ Head(chain).kind = "flush" /\ Head(chain).message = m
    THEN posted ELSE <<>>

Unapplied(m) ==
  InFlight(m) \o pendingDelta[m]
    \o (IF call[m].item # NoItem
        THEN <<call[m].item>> ELSE <<>>)

(* Coalescing, the timer and the shared chain never reorder what a message   *)
(* is given, leave a gap in it or drop text, whatever POSTs fail.            *)
Log == INSTANCE DeltaLog WITH pending <- [m \in Messages |-> Unapplied(m)]
ImplementsLog == Log!Spec

FlushQueued(m) ==
  \E i \in DOMAIN chain :
    /\ chain[i].kind = "flush" /\ chain[i].message = m
    /\ i > 1 \/ posted = <<>>

(* Buffered text always has a flush coming, a timer's or a call's, until a   *)
(* POST of its message fails: a failed flush puts its text back without one. *)
TextHasAFlush ==
  \A m \in Messages \ failed :
    pendingDelta[m] # <<>> => flushTimer[m] \/ FlushQueued(m)

(* What a message is given shows in the end, however slow the POSTs before   *)
(* it and whatever POSTs of other messages fail.                             *)
GivenIsShown ==
  \A m \in Messages : Unapplied(m) # <<>> ~> (Unapplied(m) = <<>> \/ m \in failed)

(* convex-writer.ts:421: finalize flushes first to "never strand buffered    *)
(* deltas behind final"; 302-303: "a transient ingest failure loses nothing".*)
NothingStrandedBehindFinal ==
  \A m \in Messages :
    call[m].step = "closed" /\ (\A i \in DOMAIN chain : chain[i].message # m)
      => pendingDelta[m] = <<>> \/ flushTimer[m]
=============================================================================
