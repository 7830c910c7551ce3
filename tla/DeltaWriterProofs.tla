-------------------------- MODULE DeltaWriterProofs --------------------------
(***************************************************************************)
(* TextHasAFlush of DeltaWriter, and that DeltaWriter implements DeltaLog, *)
(* for any messages and bounds.  The first needs that the chain and the    *)
(* callers agree: a message has at most one operation on the chain that    *)
(* somebody awaits, its caller awaits just that, and a POST in flight      *)
(* carries what the head of the chain is for (WriterInv).  The second needs *)
(* moreover that a call finds nothing of its message before it: once its   *)
(* flush is done no text is left in the writer, and what is POSTed for it  *)
(* is what the caller gave (LogInv).                                       *)
(***************************************************************************)
EXTENDS DeltaWriter, SequenceTheorems, TLAPS

Texts == Seq({i \in Item : IsText(i)})
Payload == Item \cup {UploadUrl}

(* The calls the operations of a chain belong to. *)
OneAwaited(ops) ==
  \A i, j \in DOMAIN ops :
    ops[i].awaited /\ ops[j].awaited /\ ops[i].message = ops[j].message => i = j

AwaitedBy(ops, calls) ==
  \A i \in DOMAIN ops :
    ops[i].awaited =>
      calls[ops[i].message].step = IF ops[i].kind = "flush" THEN "flushing" ELSE "posting"

NoneAwaited(ops, m) == \A i \in DOMAIN ops : ops[i].awaited => ops[i].message # m

ChainInv == OneAwaited(chain) /\ AwaitedBy(chain, call)

CallInv ==
  \A m \in Messages :
    call[m].step \in {"flushing", "opening", "posting", "uploading"} => call[m].item \in Item

InFlightInv ==
  posted # <<>> =>
    \/ Head(chain).kind = "flush" /\ posted \in Texts
    \/ Head(chain).kind = "post" /\ posted = <<Head(chain).item>>

WriterInv ==
  /\ TypeOK
  /\ ChainInv
  /\ CallInv
  /\ InFlightInv
  /\ TextHasAFlush

USE DeltaWriterAssumption

-----------------------------------------------------------------------------
(* Data *)

(* What an operation of the chain looks like. *)
OpShape(op) ==
  /\ op.message \in Messages /\ op.awaited \in BOOLEAN
  /\ \/ op.kind = "flush" /\ op = Flush(op.message, op.awaited)
     \/ op.kind = "post" /\ op.awaited /\ op.item \in Payload

LEMMA OpsAreShaped == \A op \in Op : OpShape(op)
<1>1. ASSUME NEW m \in Messages, NEW awaited \in BOOLEAN PROVE OpShape(Flush(m, awaited))
  BY DEF OpShape, Flush
<1>2. ASSUME NEW m \in Messages, NEW item \in Payload PROVE OpShape(Post(m, item))
  BY DEF OpShape, Post
<1> QED
  BY <1>1, <1>2 DEF Op, Payload

LEMMA FlushIsOp ==
  ASSUME NEW m \in Messages, NEW awaited \in BOOLEAN
  PROVE  /\ Flush(m, awaited) \in Op
         /\ Flush(m, awaited).kind = "flush" /\ Flush(m, awaited).message = m
         /\ Flush(m, awaited).awaited = awaited
  BY DEF Op, Flush

LEMMA PostIsOp ==
  ASSUME NEW m \in Messages, NEW item \in Payload
  PROVE  /\ Post(m, item) \in Op
         /\ Post(m, item).kind = "post" /\ Post(m, item).message = m
         /\ Post(m, item).awaited = TRUE
<1>1. Post(m, item) \in Op
  BY DEF Op, Payload
<1> QED
  BY <1>1 DEF Post

LEMMA KindsDiffer ==
  /\ NoItem \notin Item /\ UploadUrl \notin Item
  /\ \A i \in Item : i.kind \in Calls \cup {"start", "delta"}
  BY DEF NoItem, UploadUrl, Item, Calls

LEMMA NextItemIsItem ==
  ASSUME TypeOK, NEW m \in Messages, given[m] < MaxItems[m],
         NEW kind \in Calls \cup {"start", "delta"}
  PROVE  NextItem(m, kind) \in Item
<1>1. given[m] + 1 \in 1 .. MaxItems[m]
  BY DEF TypeOK
<1> QED
  BY <1>1 DEF NextItem, Item

LEMMA TextsAreItems == \A t \in Texts : t \in Seq(Item)
<1>1. {i \in Item : IsText(i)} \subseteq Item
  OBVIOUS
<1> QED
  BY <1>1, SeqMonotonic DEF Texts

-----------------------------------------------------------------------------
(* Chains *)

LEMMA TailOps ==
  ASSUME NEW ops \in Seq(Op), ops # <<>>
  PROVE  /\ Head(ops) \in Op /\ Head(ops) = ops[1]
         /\ Tail(ops) \in Seq(Op)
         /\ 1 \in DOMAIN ops
         /\ \A i \in DOMAIN Tail(ops) : i + 1 \in DOMAIN ops /\ Tail(ops)[i] = ops[i + 1]
         /\ \A i \in DOMAIN ops : i # 1 => i - 1 \in DOMAIN Tail(ops)
                                            /\ Tail(ops)[i - 1] = ops[i]
<1>1. /\ Head(ops) \in Op /\ Tail(ops) \in Seq(Op) /\ Len(Tail(ops)) = Len(ops) - 1
      /\ \A i \in 1 .. Len(Tail(ops)) : Tail(ops)[i] = ops[i + 1]
  BY HeadTailProperties
<1>2. Len(ops) \in Nat \ {0} /\ DOMAIN ops = 1 .. Len(ops)
  BY EmptySeq, LenProperties
<1>3. DOMAIN Tail(ops) = 1 .. Len(Tail(ops))
  BY <1>1, LenProperties
<1>4. Head(ops) = ops[1]
  OBVIOUS
<1> QED
  BY <1>1, <1>2, <1>3, <1>4

LEMMA AppendOps ==
  ASSUME NEW ops \in Seq(Op), NEW op \in Op
  PROVE  /\ Append(ops, op) \in Seq(Op) /\ Append(ops, op) # <<>>
         /\ \A i \in DOMAIN ops : i \in DOMAIN Append(ops, op) /\ Append(ops, op)[i] = ops[i]
         /\ \A i \in DOMAIN Append(ops, op) :
              \/ i \in DOMAIN ops
              \/ i = Len(ops) + 1 /\ Append(ops, op)[i] = op
         /\ Len(ops) + 1 \in DOMAIN Append(ops, op)
         /\ Append(ops, op)[Len(ops) + 1] = op
         /\ (ops # <<>> => Len(ops) + 1 > 1 /\ Head(Append(ops, op)) = Head(ops))
<1>1. /\ Append(ops, op) \in Seq(Op) /\ Append(ops, op) # <<>>
      /\ Len(Append(ops, op)) = Len(ops) + 1
      /\ \A i \in 1 .. Len(ops) : Append(ops, op)[i] = ops[i]
      /\ Append(ops, op)[Len(ops) + 1] = op
  BY AppendProperties
<1>2. Len(ops) \in Nat /\ DOMAIN ops = 1 .. Len(ops)
  BY LenProperties
<1>3. DOMAIN Append(ops, op) = 1 .. (Len(ops) + 1)
  BY <1>1, LenProperties
<1>4. ops # <<>> => Len(ops) >= 1
  BY EmptySeq
<1>5. ops # <<>> => Head(Append(ops, op)) = Head(ops)
  BY HeadTailAppend
<1> QED
  BY <1>1, <1>2, <1>3, <1>4, <1>5

(* The awaited operation of a message is one of a kind: without it, none is   *)
(* left.                                                                      *)
LEMMA TailChain ==
  ASSUME NEW ops \in Seq(Op), ops # <<>>, NEW calls, OneAwaited(ops), AwaitedBy(ops, calls)
  PROVE  /\ OneAwaited(Tail(ops)) /\ AwaitedBy(Tail(ops), calls)
         /\ Head(ops).awaited => NoneAwaited(Tail(ops), Head(ops).message)
<1>1. OneAwaited(Tail(ops))
  <2> SUFFICES ASSUME NEW i \in DOMAIN Tail(ops), NEW j \in DOMAIN Tail(ops),
                      Tail(ops)[i].awaited, Tail(ops)[j].awaited,
                      Tail(ops)[i].message = Tail(ops)[j].message
               PROVE  i = j
    BY DEF OneAwaited
  <2>1. i + 1 = j + 1
    BY TailOps DEF OneAwaited
  <2>2. i \in Nat /\ j \in Nat
    BY TailOps, LenProperties
  <2> QED
    BY <2>1, <2>2
<1>2. AwaitedBy(Tail(ops), calls)
  BY TailOps DEF AwaitedBy
<1>3. ASSUME Head(ops).awaited, NEW i \in DOMAIN Tail(ops), Tail(ops)[i].awaited
      PROVE  Tail(ops)[i].message # Head(ops).message
  <2>1. i \in Nat /\ i >= 1
    BY TailOps, LenProperties
  <2>2. i + 1 # 1
    BY <2>1
  <2> QED
    BY <1>3, <2>2, TailOps DEF OneAwaited
<1> QED
  BY <1>1, <1>2, <1>3 DEF NoneAwaited

(* Nobody else awaits an operation of m: m's call may go anywhere.            *)
LEMMA CallMoves ==
  ASSUME NEW ops \in Seq(Op), NEW calls, NEW calls2, NEW m \in Messages,
         AwaitedBy(ops, calls), NoneAwaited(ops, m),
         \A n \in Messages \ {m} : calls2[n] = calls[n]
  PROVE  AwaitedBy(ops, calls2)
<1> SUFFICES ASSUME NEW i \in DOMAIN ops, ops[i].awaited
             PROVE  calls2[ops[i].message] = calls[ops[i].message]
  BY DEF AwaitedBy
<1>1. ops[i] \in Op
  BY LenProperties
<1> QED
  BY <1>1, OpsAreShaped DEF NoneAwaited, OpShape

(* An operation of m that m's call comes to await.                            *)
LEMMA AppendChain ==
  ASSUME NEW ops \in Seq(Op), NEW op \in Op, NEW calls,
         OneAwaited(ops), AwaitedBy(ops, calls), NoneAwaited(ops, op.message),
         calls[op.message].step = IF op.kind = "flush" THEN "flushing" ELSE "posting"
  PROVE  OneAwaited(Append(ops, op)) /\ AwaitedBy(Append(ops, op), calls)
<1>1. AwaitedBy(Append(ops, op), calls)
  BY AppendOps DEF AwaitedBy
<1>2. OneAwaited(Append(ops, op))
  BY AppendOps DEF OneAwaited, NoneAwaited
<1> QED
  BY <1>1, <1>2

(* An operation nobody awaits.                                                *)
LEMMA AppendUnawaited ==
  ASSUME NEW ops \in Seq(Op), NEW op \in Op, NEW calls, ~op.awaited,
         OneAwaited(ops), AwaitedBy(ops, calls)
  PROVE  OneAwaited(Append(ops, op)) /\ AwaitedBy(Append(ops, op), calls)
<1>1. AwaitedBy(Append(ops, op), calls)
  BY AppendOps DEF AwaitedBy
<1>2. OneAwaited(Append(ops, op))
  BY AppendOps DEF OneAwaited
<1> QED
  BY <1>1, <1>2

(* A caller that awaits nothing has nothing awaited on the chain.             *)
LEMMA NotAwaiting ==
  ASSUME TypeOK, ChainInv, NEW m \in Messages, call[m].step \notin {"flushing", "posting"}
  PROVE  NoneAwaited(chain, m)
  BY DEF ChainInv, AwaitedBy, NoneAwaited

-----------------------------------------------------------------------------
(* What the parts of TypeOK say. *)
LEMMA Typed ==
  ASSUME TypeOK
  PROVE  /\ chain \in Seq(Op) /\ posted \in Seq(Payload)
         /\ pendingDelta \in [Messages -> Texts] /\ flushTimer \in [Messages -> BOOLEAN]
         /\ call \in [Messages -> [step : Steps, item : Item \cup {NoItem}]]
         /\ (posted # <<>> => chain # <<>>)
  BY DEF TypeOK, Texts, Payload

-----------------------------------------------------------------------------
(* Queueing: an operation goes to the end of the chain, nothing else of the   *)
(* writer moves.                                                              *)
Queues(op) ==
  /\ op \in Op
  /\ chain' = Append(chain, op)
  /\ UNCHANGED <<pendingDelta, posted, shown, failed, failures>>

LEMMA QueuesInFlight ==
  ASSUME WriterInv, NEW op, Queues(op)
  PROVE  InFlightInv'
<1>1. posted # <<>> => Head(chain') = Head(chain)
  BY AppendOps, Typed DEF Queues, WriterInv
<1> QED
  BY <1>1 DEF WriterInv, InFlightInv, Queues

(* A flush that is queued stays queued, and one that joins counts.            *)
LEMMA QueuesFlushes ==
  ASSUME WriterInv, NEW op, Queues(op), NEW m \in Messages
  PROVE  /\ FlushQueued(m) => FlushQueued(m)'
         /\ op.kind = "flush" /\ op.message = m => FlushQueued(m)'
<1>1. chain \in Seq(Op) /\ op \in Op /\ posted' = posted /\ chain' = Append(chain, op)
      /\ (posted # <<>> => chain # <<>>)
  BY Typed DEF Queues, WriterInv
<1>2. FlushQueued(m) => FlushQueued(m)'
  BY <1>1, AppendOps DEF FlushQueued
<1>3. ASSUME op.kind = "flush", op.message = m PROVE FlushQueued(m)'
  <2> DEFINE i == Len(chain) + 1
  <2>1. i \in DOMAIN chain' /\ chain'[i] = op /\ (chain # <<>> => i > 1)
    BY <1>1, AppendOps
  <2> QED
    BY <1>1, <1>3, <2>1 DEF FlushQueued
<1> QED
  BY <1>2, <1>3

LEMMA StartAssistantKeeps ==
  ASSUME WriterInv, NEW m \in Messages, StartAssistant(m)
  PROVE  WriterInv'
<1> DEFINE item == NextItem(m, "start")
           op == Post(m, item)
<1>1. item \in Item
  BY NextItemIsItem DEF WriterInv, StartAssistant, Gives
<1>2. op \in Op /\ op.kind = "post" /\ op.message = m /\ op.awaited = TRUE
  BY <1>1, PostIsOp DEF Payload
<1>3. Queues(op)
  BY <1>2 DEF StartAssistant, Queues
<1>4. /\ call' \in [Messages -> [step : Steps, item : Item \cup {NoItem}]]
      /\ call'[m].step = "posting" /\ call'[m].item = item
      /\ \A n \in Messages \ {m} : call'[n] = call[n]
  BY <1>1 DEF StartAssistant, WriterInv, TypeOK, Steps
<1>5. NoneAwaited(chain, m) /\ chain \in Seq(Op)
  BY NotAwaiting, Typed DEF StartAssistant, WriterInv
<1>6. AwaitedBy(chain, call')
  BY <1>4, <1>5, CallMoves DEF WriterInv, ChainInv
<1>7. ChainInv'
  BY ZenonT(30), <1>2, <1>4, <1>5, <1>6, AppendChain DEF StartAssistant, WriterInv, ChainInv
<1>8. CallInv'
  BY <1>1, <1>4 DEF WriterInv, CallInv
<1>9. given' \in [Messages -> Nat] /\ \A n \in Messages : given'[n] <= MaxItems[n]
  BY DEF StartAssistant, Gives, WriterInv, TypeOK
<1>10. chain' \in Seq(Op) /\ chain' # <<>>
  BY <1>2, <1>5, AppendOps DEF StartAssistant
<1>11. TypeOK'
  BY <1>4, <1>9, <1>10 DEF StartAssistant, WriterInv, TypeOK
<1>12. TextHasAFlush'
  BY <1>3, QueuesFlushes DEF StartAssistant, WriterInv, TextHasAFlush
<1> QED
  BY <1>3, <1>7, <1>8, <1>11, <1>12, QueuesInFlight DEF WriterInv

LEMMA AppendDeltaKeeps ==
  ASSUME WriterInv, NEW m \in Messages, AppendDelta(m)
  PROVE  WriterInv'
<1> DEFINE item == NextItem(m, "delta")
<1>1. item \in {i \in Item : IsText(i)}
  BY NextItemIsItem DEF WriterInv, AppendDelta, Gives, NextItem, IsText
<1>2. pendingDelta' \in [Messages -> Texts]
  <2>1. Append(pendingDelta[m], item) \in Texts
    BY <1>1, Typed, AppendProperties DEF WriterInv, Texts
  <2> QED
    BY <2>1, Typed DEF WriterInv, AppendDelta
<1>3. given' \in [Messages -> Nat] /\ \A n \in Messages : given'[n] <= MaxItems[n]
  BY DEF AppendDelta, Gives, WriterInv, TypeOK
<1>4. /\ flushTimer' \in [Messages -> BOOLEAN] /\ flushTimer'[m]
      /\ \A n \in Messages \ {m} : flushTimer'[n] = flushTimer[n]
                                     /\ pendingDelta'[n] = pendingDelta[n]
      /\ UNCHANGED <<chain, posted, call, shown, failed, failures>>
  BY DEF AppendDelta, WriterInv, TypeOK
<1>5. TypeOK'
  BY <1>2, <1>3, <1>4 DEF WriterInv, TypeOK, Texts
<1>6. ChainInv' /\ CallInv' /\ InFlightInv'
  BY <1>4 DEF WriterInv, ChainInv, CallInv, InFlightInv
<1>7. TextHasAFlush'
  BY <1>4 DEF WriterInv, TextHasAFlush, FlushQueued
<1> QED
  BY <1>5, <1>6, <1>7 DEF WriterInv

LEMMA CallsFlushKeeps ==
  ASSUME WriterInv, NEW m \in Messages, NEW kind \in Calls, CallsFlush(m, kind)
  PROVE  WriterInv'
<1> DEFINE item == NextItem(m, kind)
           op == Flush(m, TRUE)
<1>1. item \in Item
  BY NextItemIsItem DEF WriterInv, CallsFlush, Gives
<1>2. op \in Op /\ op.kind = "flush" /\ op.message = m /\ op.awaited = TRUE
  BY FlushIsOp
<1>3. Queues(op) /\ flushTimer' = [flushTimer EXCEPT ![m] = FALSE]
  BY <1>2 DEF CallsFlush, FlushDelta, Queues
<1>4. /\ call' \in [Messages -> [step : Steps, item : Item \cup {NoItem}]]
      /\ call'[m].step = "flushing" /\ call'[m].item = item
      /\ \A n \in Messages \ {m} : call'[n] = call[n]
  BY <1>1 DEF CallsFlush, WriterInv, TypeOK, Steps
<1>5. NoneAwaited(chain, m) /\ chain \in Seq(Op)
  BY NotAwaiting, Typed DEF CallsFlush, WriterInv
<1>6. AwaitedBy(chain, call')
  BY <1>4, <1>5, CallMoves DEF WriterInv, ChainInv
<1>7. ChainInv'
  BY <1>2, <1>3, <1>4, <1>5, <1>6, AppendChain DEF Queues, WriterInv, ChainInv
<1>8. CallInv'
  BY <1>1, <1>4 DEF WriterInv, CallInv
<1>9. given' \in [Messages -> Nat] /\ \A n \in Messages : given'[n] <= MaxItems[n]
  BY DEF CallsFlush, Gives, WriterInv, TypeOK
<1>10. chain' \in Seq(Op) /\ chain' # <<>>
  <2>1. op \in Op /\ chain' = Append(chain, op)
    BY <1>2, <1>3 DEF Queues
  <2> HIDE DEF op
  <2> QED
    BY <2>1, <1>5, AppendOps
<1>11. TypeOK'
  BY <1>3, <1>4, <1>9, <1>10 DEF Queues, WriterInv, TypeOK
<1>12. TextHasAFlush'
  BY <1>2, <1>3, QueuesFlushes DEF Queues, WriterInv, TypeOK, TextHasAFlush
<1> QED
  BY <1>3, <1>7, <1>8, <1>11, <1>12, QueuesInFlight DEF WriterInv

LEMMA TimerFiresKeeps ==
  ASSUME WriterInv, NEW m \in Messages, TimerFires(m)
  PROVE  WriterInv'
<1> DEFINE op == Flush(m, FALSE)
<1>1. op \in Op /\ op.kind = "flush" /\ op.message = m /\ ~op.awaited
  BY FlushIsOp
<1>2. Queues(op) /\ flushTimer' = [flushTimer EXCEPT ![m] = FALSE] /\ UNCHANGED <<call, given>>
  BY <1>1 DEF TimerFires, FlushDelta, Queues
<1>3. chain \in Seq(Op)
  BY Typed DEF WriterInv
<1>4. ChainInv'
  BY <1>1, <1>2, <1>3, AppendUnawaited DEF Queues, WriterInv, ChainInv
<1>5. chain' \in Seq(Op) /\ chain' # <<>>
  BY <1>1, <1>2, <1>3, AppendOps DEF Queues
<1>6. TypeOK' /\ CallInv'
  BY <1>2, <1>5 DEF Queues, WriterInv, TypeOK, CallInv
<1>7. TextHasAFlush'
  BY <1>1, <1>2, QueuesFlushes DEF Queues, WriterInv, TypeOK, TextHasAFlush
<1> QED
  BY <1>2, <1>4, <1>6, <1>7, QueuesInFlight DEF WriterInv

(* Opens and Uploads: an attachment moves on, or is skipped.                  *)
LEMMA MediaKeeps ==
  ASSUME WriterInv, NEW m \in Messages, NEW item \in Payload,
         call[m].step \in {"opening", "uploading"},
         \/ /\ call' = [call EXCEPT ![m].step = "posting"]
            /\ chain' = Append(chain, Post(m, item))
         \/ call' = [call EXCEPT ![m] = Returned(m, TRUE)] /\ UNCHANGED chain,
         UNCHANGED <<pendingDelta, flushTimer, posted, shown, given, failed, failures>>
  PROVE  WriterInv'
<1> DEFINE op == Post(m, item)
<1>1. op \in Op /\ op.kind = "post" /\ op.message = m /\ op.awaited = TRUE
  BY PostIsOp
<1>2. NoneAwaited(chain, m) /\ chain \in Seq(Op) /\ call[m].item \in Item
  BY NotAwaiting, Typed DEF WriterInv, CallInv
<1>3. CASE /\ call' = [call EXCEPT ![m].step = "posting"]
           /\ chain' = Append(chain, Post(m, item))
  <2>1. Queues(op)
    BY <1>1, <1>3 DEF Queues
  <2>2. /\ call' \in [Messages -> [step : Steps, item : Item \cup {NoItem}]]
        /\ call'[m].step = "posting" /\ call'[m].item = call[m].item
        /\ \A n \in Messages \ {m} : call'[n] = call[n]
    BY <1>3 DEF WriterInv, TypeOK, Steps
  <2>3. AwaitedBy(chain, call')
    BY <1>2, <2>2, CallMoves DEF WriterInv, ChainInv
  <2>4. ChainInv'
    BY <1>1, <1>2, <1>3, <2>2, <2>3, AppendChain DEF WriterInv, ChainInv
  <2>5. CallInv'
    BY <1>2, <2>2 DEF WriterInv, CallInv
  <2>6. chain' \in Seq(Op) /\ chain' # <<>>
    BY <1>1, <1>2, <1>3, AppendOps
  <2>7. TypeOK'
    BY <2>2, <2>6 DEF WriterInv, TypeOK
  <2>8. TextHasAFlush'
    BY <2>1, QueuesFlushes DEF WriterInv, TextHasAFlush
  <2> QED
    BY <2>1, <2>4, <2>5, <2>7, <2>8, QueuesInFlight DEF WriterInv
<1>4. CASE call' = [call EXCEPT ![m] = Returned(m, TRUE)] /\ UNCHANGED chain
  <2>1. /\ call' \in [Messages -> [step : Steps, item : Item \cup {NoItem}]]
        /\ call'[m].step \in {"idle", "closed"}
        /\ \A n \in Messages \ {m} : call'[n] = call[n]
    BY <1>4 DEF WriterInv, TypeOK, Steps, Returned
  <2>2. AwaitedBy(chain, call')
    BY <1>2, <2>1, CallMoves DEF WriterInv, ChainInv
  <2>3. ChainInv' /\ CallInv'
    BY <1>4, <2>1, <2>2 DEF WriterInv, ChainInv, CallInv
  <2>4. TypeOK' /\ InFlightInv' /\ TextHasAFlush'
    BY <1>4, <2>1 DEF WriterInv, TypeOK, InFlightInv, TextHasAFlush, FlushQueued
  <2> QED
    BY <2>3, <2>4 DEF WriterInv
<1> QED
  BY <1>3, <1>4

LEMMA OpensKeeps ==
  ASSUME WriterInv, NEW m \in Messages, NEW found \in BOOLEAN, Opens(m, found)
  PROVE  WriterInv'
<1> UploadUrl \in Payload
  BY DEF Payload
<1> QED
  BY MediaKeeps DEF Opens

LEMMA UploadsKeeps ==
  ASSUME WriterInv, NEW m \in Messages, NEW ok \in BOOLEAN, Uploads(m, ok)
  PROVE  WriterInv'
<1> call[m].item \in Payload
  BY DEF Payload, WriterInv, CallInv, Uploads
<1> QED
  BY MediaKeeps DEF Uploads

-----------------------------------------------------------------------------
(* The head of the chain *)

LEMMA ExecutesKeeps ==
  ASSUME WriterInv, Executes
  PROVE  WriterInv'
<1> DEFINE op == Head(chain)
<1>1. op \in Op /\ op = chain[1] /\ OpShape(op) /\ chain \in Seq(Op)
  BY Typed, TailOps, OpsAreShaped DEF WriterInv, Executes
<1>2. \A t \in Texts : t \in Seq(Payload)
  BY TextsAreItems, SeqMonotonic DEF Payload
<1>3. posted' \in Seq(Payload)
      /\ (op.kind = "flush" => posted' \in Texts)
      /\ (op.kind = "post" => posted' = <<op.item>>)
  <2>1. CASE op.kind = "flush"
    BY <1>1, <1>2, <2>1, Typed DEF WriterInv, Executes, Text, OpShape
  <2>2. CASE op.kind = "post"
    BY <1>1, <2>2 DEF Executes, Text, OpShape, Flush
  <2> QED
    BY <1>1, <2>1, <2>2 DEF OpShape
<1>4. InFlightInv'
  BY <1>1, <1>3 DEF InFlightInv, Executes, OpShape
<1>5. <<>> \in Texts
  BY DEF Texts
<1>6. pendingDelta' \in [Messages -> Texts]
  BY <1>5, Typed DEF WriterInv, Executes
<1>7. TypeOK'
  BY <1>3, <1>6 DEF WriterInv, TypeOK, Executes, Texts, Payload
<1>8. ChainInv' /\ CallInv'
  BY DEF WriterInv, ChainInv, CallInv, Executes
<1>9. TextHasAFlush'
  <2> SUFFICES ASSUME NEW m \in Messages \ failed, pendingDelta'[m] # <<>>, ~flushTimer[m]
               PROVE  FlushQueued(m)'
    BY DEF TextHasAFlush, Executes
  <2>1. pendingDelta[m] # <<>> /\ ~(op.kind = "flush" /\ op.message = m)
    BY <1>1, Typed DEF WriterInv, Executes, OpShape
  <2>2. PICK i \in DOMAIN chain : chain[i].kind = "flush" /\ chain[i].message = m
    BY <2>1 DEF WriterInv, TextHasAFlush, FlushQueued
  <2>3. i \in Nat /\ i >= 1 /\ i # 1
    BY <1>1, <2>1, <2>2, LenProperties
  <2>4. i > 1
    BY <2>3
  <2> QED
    BY <2>2, <2>4 DEF FlushQueued, Executes
<1> QED
  BY <1>4, <1>7, <1>8, <1>9 DEF WriterInv

(* Settling the head moves the rest of the chain up, and its caller on.       *)
LEMMA SettlesKeeps ==
  ASSUME WriterInv, chain # <<>>, NEW ok \in BOOLEAN, Settles(Head(chain), ok)
  PROVE  /\ chain' \in Seq(Op)
         /\ call' \in [Messages -> [step : Steps, item : Item \cup {NoItem}]]
         /\ ChainInv' /\ CallInv'
         /\ \A i \in DOMAIN chain : i # 1 => i - 1 \in DOMAIN chain' /\ chain'[i - 1] = chain[i]
<1> DEFINE op == Head(chain)
           m == op.message
           rest == Tail(chain)
<1>1. /\ chain \in Seq(Op) /\ op \in Op /\ OpShape(op) /\ rest \in Seq(Op) /\ m \in Messages
      /\ \A i \in DOMAIN chain : i # 1 => i - 1 \in DOMAIN rest /\ rest[i - 1] = chain[i]
      /\ op = chain[1] /\ 1 \in DOMAIN chain
  BY Typed, TailOps, OpsAreShaped DEF WriterInv, OpShape
<1>2. /\ OneAwaited(rest) /\ AwaitedBy(rest, call)
      /\ op.awaited => NoneAwaited(rest, m)
  BY <1>1, TailChain DEF WriterInv, ChainInv
<1>3. call \in [Messages -> [step : Steps, item : Item \cup {NoItem}]] /\ CallInv
  BY Typed DEF WriterInv
<1>4. op.awaited => call[m].item \in Item
  <2>1. op.awaited => call[m].step \in {"flushing", "posting"}
    BY <1>1 DEF WriterInv, ChainInv, AwaitedBy
  <2> QED
    BY <1>1, <1>3, <2>1 DEF CallInv
<1>5. CASE ~op.awaited /\ chain' = rest /\ UNCHANGED call
  BY <1>1, <1>2, <1>3, <1>5 DEF ChainInv, CallInv
<1>6. ASSUME op.awaited, NEW step \in {"posting", "opening", "uploading"},
             call' = [call EXCEPT ![m].step = step]
      PROVE  /\ call' \in [Messages -> [step : Steps, item : Item \cup {NoItem}]]
             /\ CallInv' /\ AwaitedBy(rest, call') /\ call'[m].step = step
  <2>1. /\ call' \in [Messages -> [step : Steps, item : Item \cup {NoItem}]]
        /\ call'[m].step = step /\ call'[m].item = call[m].item
        /\ \A n \in Messages \ {m} : call'[n] = call[n]
    BY <1>1, <1>3, <1>6 DEF Steps
  <2>2. NoneAwaited(rest, m) /\ call[m].item \in Item
    BY <1>2, <1>4, <1>6
  <2>3. AwaitedBy(rest, call')
    BY ZenonT(30), <1>1, <1>2, <2>1, <2>2, CallMoves
  <2>4. CallInv'
    BY <1>3, <2>1, <2>2 DEF CallInv
  <2> QED
    BY <2>1, <2>3, <2>4
<1>7. CASE op.awaited /\ chain' = rest /\ \E step \in {"opening", "uploading"} :
                                             call' = [call EXCEPT ![m].step = step]
  BY <1>1, <1>2, <1>6, <1>7 DEF ChainInv
<1>8. CASE /\ op.awaited /\ chain' = Append(rest, Post(m, call[m].item))
           /\ call' = [call EXCEPT ![m].step = "posting"]
  <2> DEFINE next == Post(m, call[m].item)
  <2>a. call[m].item \in Payload
    BY <1>4, <1>8 DEF Payload
  <2>1. next \in Op /\ next.kind = "post" /\ next.message = m
    BY <1>1, <2>a, PostIsOp
  <2>2. /\ call' \in [Messages -> [step : Steps, item : Item \cup {NoItem}]]
        /\ CallInv' /\ AwaitedBy(rest, call') /\ call'[m].step = "posting"
    BY <1>6, <1>8
  <2>3. chain' = Append(rest, next) /\ NoneAwaited(rest, m) /\ OneAwaited(rest)
    BY <1>2, <1>8
  <2> HIDE DEF next, m, rest, op
  <2>4. OneAwaited(chain') /\ AwaitedBy(chain', call')
    BY <1>1, <2>1, <2>2, <2>3, AppendChain
  <2>5. chain' \in Seq(Op) /\ \A i \in DOMAIN rest : i \in DOMAIN chain' /\ chain'[i] = rest[i]
    BY <1>1, <2>1, <2>3, AppendOps
  <2> QED
    BY <1>1, <2>2, <2>4, <2>5 DEF ChainInv
<1>9. CASE op.awaited /\ chain' = rest /\ call' = [call EXCEPT ![m] = Returned(m, ok)]
  <2>1. /\ call' \in [Messages -> [step : Steps, item : Item \cup {NoItem}]]
        /\ call'[m].step \in {"idle", "closed"}
        /\ \A n \in Messages \ {m} : call'[n] = call[n]
    BY <1>1, <1>3, <1>9 DEF Steps, Returned
  <2>2. AwaitedBy(rest, call')
    BY ZenonT(30), <1>1, <1>2, <1>9, <2>1, CallMoves
  <2>3. ChainInv' /\ CallInv'
    BY <1>2, <1>3, <1>9, <2>1, <2>2 DEF ChainInv, CallInv
  <2> QED
    BY <1>1, <1>9, <2>1, <2>3
<1>10. \/ ~op.awaited /\ chain' = rest /\ UNCHANGED call
       \/ op.awaited /\ chain' = rest /\ \E step \in {"opening", "uploading"} :
                                            call' = [call EXCEPT ![m].step = step]
       \/ /\ op.awaited /\ chain' = Append(rest, Post(m, call[m].item))
          /\ call' = [call EXCEPT ![m].step = "posting"]
       \/ op.awaited /\ chain' = rest /\ call' = [call EXCEPT ![m] = Returned(m, ok)]
  BY <1>1 DEF Settles, OpShape
<1> QED
  BY <1>5, <1>7, <1>8, <1>9, <1>10

(* Buffered text that had a flush behind the head has it still.               *)
LEMMA SettledFlushes ==
  ASSUME WriterInv, chain # <<>>, NEW ok \in BOOLEAN, Settles(Head(chain), ok),
         posted' = <<>>, NEW m \in Messages,
         FlushQueued(m), posted = <<>> => ~(Head(chain).kind = "flush" /\ Head(chain).message = m)
  PROVE  FlushQueued(m)'
<1>1. PICK i \in DOMAIN chain :
        /\ chain[i].kind = "flush" /\ chain[i].message = m
        /\ i > 1 \/ posted = <<>>
  BY DEF FlushQueued
<1>2. i # 1
  BY <1>1, Typed, TailOps DEF WriterInv
<1>3. i - 1 \in DOMAIN chain' /\ chain'[i - 1] = chain[i]
  BY <1>2, SettlesKeeps
<1> QED
  BY <1>1, <1>3 DEF FlushQueued

LEMMA SkipsFlushKeeps ==
  ASSUME WriterInv, SkipsFlush
  PROVE  WriterInv'
<1>1. /\ chain' \in Seq(Op)
      /\ call' \in [Messages -> [step : Steps, item : Item \cup {NoItem}]]
      /\ ChainInv' /\ CallInv'
  BY SettlesKeeps DEF SkipsFlush
<1>2. TypeOK' /\ InFlightInv'
  BY <1>1 DEF WriterInv, TypeOK, InFlightInv, SkipsFlush
<1>3. TextHasAFlush'
  <2> SUFFICES ASSUME NEW m \in Messages \ failed, pendingDelta[m] # <<>>, ~flushTimer[m]
               PROVE  FlushQueued(m)'
    BY DEF TextHasAFlush, SkipsFlush
  <2>1. FlushQueued(m)
    BY DEF WriterInv, TextHasAFlush
  <2>2. ~(Head(chain).kind = "flush" /\ Head(chain).message = m)
    BY DEF SkipsFlush, Text
  <2> QED
    BY <2>1, <2>2, SettledFlushes DEF SkipsFlush
<1> QED
  BY <1>1, <1>2, <1>3 DEF WriterInv

(* A POST that carries no upload request carries items.                       *)
LEMMA AppliedIsTyped ==
  ASSUME WriterInv, posted # <<>>
  PROVE  Applied(Head(chain).message) \in [Messages -> Seq(Item)]
<1> DEFINE op == Head(chain)
<1>1. op \in Op /\ OpShape(op) /\ op.message \in Messages
  BY Typed, TailOps, OpsAreShaped DEF WriterInv, OpShape
<1>2. ASSUME posted # <<UploadUrl>> PROVE posted \in Seq(Item)
  <2>1. CASE posted \in Texts
    BY <2>1, TextsAreItems
  <2>2. CASE op.kind = "post" /\ posted = <<op.item>>
    <3>1. op.item \in Item
      BY <1>1, <1>2, <2>2 DEF OpShape, Payload
    <3> QED
      BY <2>2, <3>1
  <2> QED
    BY <2>1, <2>2 DEF WriterInv, InFlightInv
<1>3. shown \in [Messages -> Seq(Item)]
  BY DEF WriterInv, TypeOK
<1>4. ASSUME posted # <<UploadUrl>> PROVE shown[op.message] \o posted \in Seq(Item)
  BY <1>1, <1>2, <1>3, <1>4, ConcatProperties
<1> QED
  BY <1>1, <1>3, <1>4 DEF Applied

LEMMA AnsweredKeeps ==
  ASSUME WriterInv, Answered
  PROVE  WriterInv'
<1> chain # <<>>
  BY Typed DEF WriterInv, Answered
<1>1. /\ chain' \in Seq(Op)
      /\ call' \in [Messages -> [step : Steps, item : Item \cup {NoItem}]]
      /\ ChainInv' /\ CallInv'
  BY SettlesKeeps DEF Answered
<1>2. shown' \in [Messages -> Seq(Item)]
  BY AppliedIsTyped DEF Answered
<1>3. TypeOK' /\ InFlightInv'
  BY <1>1, <1>2 DEF WriterInv, TypeOK, InFlightInv, Answered
<1>4. TextHasAFlush'
  BY SettledFlushes DEF WriterInv, TextHasAFlush, Answered
<1> QED
  BY <1>1, <1>3, <1>4 DEF WriterInv

LEMMA FailsKeeps ==
  ASSUME WriterInv, NEW lost \in BOOLEAN, Fails(lost)
  PROVE  WriterInv'
<1> DEFINE op == Head(chain)
<1> chain # <<>>
  BY Typed DEF WriterInv, Fails
<1>1. /\ chain' \in Seq(Op)
      /\ call' \in [Messages -> [step : Steps, item : Item \cup {NoItem}]]
      /\ ChainInv' /\ CallInv'
  BY SettlesKeeps DEF Fails
<1>2. shown' \in [Messages -> Seq(Item)]
  BY AppliedIsTyped DEF Fails, WriterInv, TypeOK
<1>3. op \in Op /\ OpShape(op) /\ op.message \in Messages
  BY Typed, TailOps, OpsAreShaped DEF WriterInv, OpShape
<1>4. /\ pendingDelta' \in [Messages -> Texts]
      /\ \A m \in Messages \ {op.message} : pendingDelta'[m] = pendingDelta[m]
  <2>1. CASE op.kind = "flush"
    <3>1. posted \in Texts /\ pendingDelta \in [Messages -> Texts]
      BY <2>1, Typed DEF WriterInv, InFlightInv, Fails
    <3>2. posted \o pendingDelta[op.message] \in Texts
      BY <1>3, <3>1, ConcatProperties DEF Texts
    <3> QED
      BY <1>3, <2>1, <3>1, <3>2 DEF Fails, Rebuffered
  <2>2. CASE op.kind # "flush"
    BY <2>2, Typed DEF WriterInv, Fails, Rebuffered
  <2> QED
    BY <2>1, <2>2
<1>5. failures' \in 0 .. MaxFailures /\ failed' \in SUBSET Messages
  BY <1>3 DEF Fails, WriterInv, TypeOK
<1>6. TypeOK' /\ InFlightInv'
  BY <1>1, <1>2, <1>4, <1>5 DEF WriterInv, TypeOK, InFlightInv, Fails, Texts
<1>7. TextHasAFlush'
  <2> SUFFICES ASSUME NEW m \in Messages \ failed', pendingDelta'[m] # <<>>, ~flushTimer[m]
               PROVE  FlushQueued(m)'
    BY DEF TextHasAFlush, Fails
  <2>1. m \in Messages \ failed /\ pendingDelta[m] # <<>>
    BY <1>4 DEF Fails
  <2>2. FlushQueued(m)
    BY <2>1 DEF WriterInv, TextHasAFlush
  <2> QED
    BY <2>2, SettledFlushes DEF Fails
<1> QED
  BY <1>1, <1>6, <1>7 DEF WriterInv

-----------------------------------------------------------------------------
(* The specification *)

LEMMA InitWriter == Init => WriterInv
<1> SUFFICES ASSUME Init PROVE WriterInv
  OBVIOUS
<1>1. TypeOK
  BY DEF Init, TypeOK, Steps
<1> QED
  BY <1>1 DEF Init, WriterInv, ChainInv, OneAwaited, AwaitedBy, CallInv, InFlightInv,
              TextHasAFlush

LEMMA StepsKeep == WriterInv /\ [Next]_vars => WriterInv'
<1> SUFFICES ASSUME WriterInv, [Next]_vars PROVE WriterInv'
  OBVIOUS
<1>1. CASE UNCHANGED vars
  BY <1>1 DEF vars, WriterInv, TypeOK, ChainInv, CallInv, InFlightInv, TextHasAFlush, FlushQueued
<1>2. CASE Next
  BY <1>2, StartAssistantKeeps, AppendDeltaKeeps, CallsFlushKeeps, TimerFiresKeeps,
     ExecutesKeeps, SkipsFlushKeeps, AnsweredKeeps, FailsKeeps, OpensKeeps, UploadsKeeps
     DEF Next
<1> QED
  BY <1>1, <1>2

(* WriterInv is an invariant: the promise chain and the awaiting callers of   *)
(* HttpConvexWriter (flushDelta and post, convex-writer.ts) always agree.     *)
THEOREM WriterInvariant == Spec => []WriterInv
BY InitWriter, StepsKeep, PTL DEF Spec

(* The state of the writer keeps its types, whatever the messages and bounds. *)
THEOREM WriterTypeCorrect == Spec => []TypeOK
<1>1. WriterInv => TypeOK
  BY DEF WriterInv
<1> QED
  BY <1>1, WriterInvariant, PTL

(* Buffered text always has a flush coming until a POST of its message fails: *)
(* the flush that appendDelta schedules may come late, never be missing.      *)
THEOREM FlushComing == Spec => []TextHasAFlush
<1>1. WriterInv => TextHasAFlush
  BY DEF WriterInv
<1> QED
  BY <1>1, WriterInvariant, PTL

-----------------------------------------------------------------------------
(* The refinement of DeltaLog *)

(* Whose call is under way, and with what: never text.                        *)
CallsCarry ==
  \A m \in Messages :
    /\ call[m].item # NoItem <=> call[m].step \in {"flushing", "opening", "posting", "uploading"}
    /\ ~IsText(call[m].item)

(* Once a call's flush is done, and before the message exists, no text of the *)
(* message is left in the writer.                                             *)
Drained ==
  \A m \in Messages :
    call[m].step \in {"none", "opening", "posting", "uploading"} =>
      pendingDelta[m] = <<>> /\ InFlight(m) = <<>>

(* A flush that a call awaits has taken everything.                           *)
AwaitedTakesAll ==
  posted # <<>> /\ Head(chain).kind = "flush" /\ Head(chain).awaited =>
    pendingDelta[Head(chain).message] = <<>>

(* What is POSTed for a call is what the caller gave.                         *)
PostsAreCalls ==
  \A i \in DOMAIN chain :
    chain[i].kind = "post" /\ chain[i].item # UploadUrl =>
      chain[i].item = call[chain[i].message].item

LogInv == CallsCarry /\ Drained /\ AwaitedTakesAll /\ PostsAreCalls

LEMMA LogInit == Init => LogInv
BY DEF Init, LogInv, CallsCarry, Drained, AwaitedTakesAll, PostsAreCalls, InFlight, NoItem, IsText

LEMMA PostsAreAwaited ==
  ASSUME NEW ops \in Seq(Op), NEW i \in DOMAIN ops, ops[i].kind = "post"
  PROVE  ops[i].awaited /\ ops[i].message \in Messages
<1>1. ops[i] \in Op
  BY LenProperties
<1> QED
  BY <1>1, OpsAreShaped DEF OpShape, Flush

(* A step that queues an operation, and moves the call it is for at most.      *)
LEMMA QueuesLog ==
  ASSUME WriterInv, LogInv, NEW op, Queues(op), CallsCarry',
         \A n \in Messages :
           \/ call'[n] = call[n]
           \/ /\ call'[n].item = call[n].item \/ NoneAwaited(chain, n)
              /\ call'[n].step \in {"none", "opening", "posting", "uploading"} =>
                   call[n].step \in {"none", "opening", "posting", "uploading"},
         op.kind = "post" /\ op.item # UploadUrl => op.item = call'[op.message].item
  PROVE  LogInv' /\ \A n \in Messages : InFlight(n)' = InFlight(n)
<1>1. /\ chain \in Seq(Op) /\ op \in Op /\ chain' = Append(chain, op)
      /\ posted' = posted /\ pendingDelta' = pendingDelta /\ (posted # <<>> => chain # <<>>)
  BY Typed DEF WriterInv, Queues
<1>2. posted # <<>> => Head(chain') = Head(chain)
  BY <1>1, AppendOps
<1>3. \A n \in Messages : InFlight(n)' = InFlight(n)
  BY <1>1, <1>2 DEF InFlight
<1>4. Drained'
  BY <1>1, <1>3 DEF LogInv, Drained
<1>5. AwaitedTakesAll'
  BY <1>1, <1>2 DEF LogInv, AwaitedTakesAll
<1>6. PostsAreCalls'
  <2> SUFFICES ASSUME NEW i \in DOMAIN chain', chain'[i].kind = "post", chain'[i].item # UploadUrl
               PROVE  chain'[i].item = call'[chain'[i].message].item
    BY DEF PostsAreCalls
  <2>1. CASE i \in DOMAIN chain
    <3>1. chain'[i] = chain[i] /\ chain[i].awaited /\ chain[i].message \in Messages
      BY <1>1, <2>1, AppendOps, PostsAreAwaited
    <3>2. call'[chain[i].message].item = call[chain[i].message].item
      BY <2>1, <3>1 DEF NoneAwaited
    <3> QED
      BY <2>1, <3>1, <3>2 DEF LogInv, PostsAreCalls
  <2>2. CASE i \notin DOMAIN chain
    BY <1>1, <2>2, AppendOps
  <2> QED
    BY <2>1, <2>2
<1> QED
  BY <1>3, <1>4, <1>5, <1>6 DEF LogInv

(* How the head of the chain is settled. *)
LEMMA SettlesCases ==
  ASSUME WriterInv, LogInv, chain # <<>>, NEW ok \in BOOLEAN, Settles(Head(chain), ok),
         NEW op, op = Head(chain)
  PROVE  /\ op \in Op /\ OpShape(op) /\ op.message \in Messages
         /\ \A n \in Messages \ {op.message} : call'[n] = call[n]
         /\ \/ ~op.awaited /\ chain' = Tail(chain) /\ call' = call
            \/ /\ op.awaited /\ op.kind = "flush" /\ ok
               /\ chain' = Append(Tail(chain), Post(op.message, call[op.message].item))
               /\ call'[op.message].item = call[op.message].item
               /\ call'[op.message].step = "posting"
            \/ /\ op.awaited /\ ok /\ chain' = Tail(chain)
               /\ call'[op.message].item = call[op.message].item
               /\ \/ op.kind = "flush" /\ call'[op.message].step = "opening"
                  \/ /\ op.kind = "post" /\ op.item = UploadUrl
                     /\ call'[op.message].step = "uploading"
            \/ /\ op.awaited /\ chain' = Tail(chain)
               /\ ~ok \/ (op.kind = "post" /\ op.item # UploadUrl)
               /\ call'[op.message] = Returned(op.message, ok)
<1>1. /\ op \in Op /\ OpShape(op) /\ op.message \in Messages
      /\ call \in [Messages -> [step : Steps, item : Item \cup {NoItem}]]
  BY Typed, TailOps, OpsAreShaped DEF WriterInv, OpShape
<1>2. ASSUME NEW step \in Steps, call' = [call EXCEPT ![op.message].step = step]
      PROVE  /\ \A n \in Messages \ {op.message} : call'[n] = call[n]
             /\ call'[op.message].item = call[op.message].item /\ call'[op.message].step = step
  BY <1>1, <1>2
<1>3. ASSUME call' = [call EXCEPT ![op.message] = Returned(op.message, ok)]
      PROVE  /\ \A n \in Messages \ {op.message} : call'[n] = call[n]
             /\ call'[op.message] = Returned(op.message, ok)
  BY <1>1, <1>3
<1>4. \/ ~op.awaited /\ chain' = Tail(chain) /\ call' = call
      \/ /\ op.awaited /\ op.kind = "flush" /\ ok
         /\ chain' = Append(Tail(chain), Post(op.message, call[op.message].item))
         /\ call' = [call EXCEPT ![op.message].step = "posting"]
      \/ /\ op.awaited /\ op.kind = "flush" /\ ok /\ chain' = Tail(chain)
         /\ call' = [call EXCEPT ![op.message].step = "opening"]
      \/ /\ op.awaited /\ op.kind = "post" /\ op.item = UploadUrl /\ ok /\ chain' = Tail(chain)
         /\ call' = [call EXCEPT ![op.message].step = "uploading"]
      \/ /\ op.awaited /\ chain' = Tail(chain)
         /\ ~ok \/ (op.kind = "post" /\ op.item # UploadUrl)
         /\ call' = [call EXCEPT ![op.message] = Returned(op.message, ok)]
  BY <1>1 DEF Settles, OpShape
<1>5. {"posting", "opening", "uploading"} \subseteq Steps
  BY DEF Steps
<1> QED
  BY <1>1, <1>2, <1>3, <1>4, <1>5

(* The caller that awaited the head: it has its item still, or nothing.       *)
LEMMA SettledCall ==
  ASSUME WriterInv, LogInv, chain # <<>>, NEW ok \in BOOLEAN, Settles(Head(chain), ok),
         NEW op, op = Head(chain)
  PROVE  /\ CallsCarry'
         /\ \/ /\ call'[op.message].item = call[op.message].item
               /\ ~op.awaited \/ ok
               /\ op.kind = "flush" \/ op.item = UploadUrl
            \/ /\ call'[op.message].item = NoItem
               /\ call[op.message].item # NoItem
               /\ op.awaited
               /\ ~ok \/ (op.kind = "post" /\ op.item # UploadUrl)
<1> DEFINE m == op.message
<1>1. /\ chain \in Seq(Op) /\ op \in Op /\ OpShape(op) /\ m \in Messages
      /\ \A n \in Messages \ {m} : call'[n] = call[n]
  BY SettlesCases, Typed DEF WriterInv
<1>2. op.awaited => call[m].step \in {"flushing", "posting"}
  BY <1>1, TailOps DEF WriterInv, ChainInv, AwaitedBy
<1>3. op.awaited => call[m].item # NoItem
  BY <1>1, <1>2 DEF LogInv, CallsCarry
<1>4. \/ call'[m].item = call[m].item /\ (~op.awaited \/ ok) /\ (op.kind = "flush" \/ op.item = UploadUrl)
         /\ \/ call'[m].step = call[m].step
            \/ op.awaited /\ call'[m].step \in {"posting", "opening", "uploading"}
      \/ /\ call'[m].item = NoItem /\ op.awaited
         /\ ~ok \/ (op.kind = "post" /\ op.item # UploadUrl)
         /\ call'[m].step \in {"idle", "closed"}
  <2>1. call'[m] = Returned(m, ok) =>
          call'[m].item = NoItem /\ call'[m].step \in {"idle", "closed"}
    BY DEF Returned
  <2>2. \/ ~op.awaited /\ call' = call
        \/ /\ op.awaited /\ ok /\ op.kind = "flush"
           /\ call'[m].item = call[m].item /\ call'[m].step \in {"posting", "opening"}
        \/ /\ op.awaited /\ ok /\ op.item = UploadUrl
           /\ call'[m].item = call[m].item /\ call'[m].step = "uploading"
        \/ /\ op.awaited /\ (~ok \/ (op.kind = "post" /\ op.item # UploadUrl))
           /\ call'[m] = Returned(m, ok)
    BY SettlesCases
  <2>3. ~op.awaited => op.kind = "flush"
    BY <1>1 DEF OpShape
  <2> QED
    BY <2>1, <2>2, <2>3
<1>5. CallsCarry'
  <2> SUFFICES ASSUME NEW n \in Messages
               PROVE  /\ call'[n].item # NoItem <=>
                           call'[n].step \in {"flushing", "opening", "posting", "uploading"}
                      /\ ~IsText(call'[n].item)
    BY DEF CallsCarry
  <2>1. CASE n # m
    BY <1>1, <2>1 DEF LogInv, CallsCarry
  <2>2. CASE n = m
    BY <1>1, <1>3, <1>4, <2>2 DEF LogInv, CallsCarry, NoItem, IsText
  <2> QED
    BY <2>1, <2>2
<1> QED
  BY <1>3, <1>4, <1>5

(* Posts of items behind the head stay posts of calls.                        *)
LEMMA SettledPosts ==
  ASSUME WriterInv, LogInv, chain # <<>>, NEW ok \in BOOLEAN, Settles(Head(chain), ok)
  PROVE  PostsAreCalls'
<1> DEFINE op == Head(chain)
           m == op.message
           rest == Tail(chain)
<1>1. /\ chain \in Seq(Op) /\ op \in Op /\ OpShape(op) /\ m \in Messages
      /\ \A n \in Messages \ {m} : call'[n] = call[n]
      /\ rest \in Seq(Op)
      /\ \A i \in DOMAIN rest : i + 1 \in DOMAIN chain /\ rest[i] = chain[i + 1]
  BY SettlesCases, Typed, TailOps DEF WriterInv
<1>2. op.awaited => NoneAwaited(rest, m)
  BY <1>1, TailChain DEF WriterInv, ChainInv
<1>3. \/ call' = call
      \/ op.awaited
  BY SettlesCases
<1>4. ASSUME NEW i \in DOMAIN rest, rest[i].kind = "post", rest[i].item # UploadUrl
      PROVE  rest[i].item = call'[rest[i].message].item
  <2>1. rest[i].awaited /\ rest[i].message \in Messages
    BY <1>1, <1>4, PostsAreAwaited
  <2>2. call'[rest[i].message] = call[rest[i].message]
    BY <1>1, <1>2, <1>3, <1>4, <2>1 DEF NoneAwaited
  <2>3. rest[i].item = call[rest[i].message].item
    BY <1>1, <1>4 DEF LogInv, PostsAreCalls
  <2> QED
    BY <2>2, <2>3
<1>5. CASE chain' = rest
  BY <1>4, <1>5 DEF PostsAreCalls
<1>6. CASE /\ op.awaited /\ chain' = Append(rest, Post(m, call[m].item))
           /\ call'[m].item = call[m].item
  <2> DEFINE next == Post(m, call[m].item)
  <2>1. call[m].step \in {"flushing", "posting"}
    BY <1>1, <1>6, TailOps DEF WriterInv, ChainInv, AwaitedBy
  <2>2. call[m].item \in Payload
    BY <1>1, <2>1 DEF WriterInv, CallInv, Payload
  <2>3. next \in Op /\ next.message = m /\ next.item = call[m].item
    BY <1>1, <2>2, PostIsOp DEF Post
  <2>4. chain' = Append(rest, next) /\ call'[m].item = call[m].item
    BY <1>6
  <2> HIDE DEF next
  <2>5. /\ \A i \in DOMAIN rest : chain'[i] = rest[i]
        /\ \A i \in DOMAIN chain' : i \in DOMAIN rest \/ chain'[i] = next
    BY <1>1, <2>3, <2>4, AppendOps
  <2> QED
    BY <1>4, <2>3, <2>4, <2>5 DEF PostsAreCalls
<1> QED
  BY <1>5, <1>6, SettlesCases

(* Once the head is settled nothing is in flight; what it did to the buffer    *)
(* concerns its own message.                                                  *)
LEMMA SettlesLog ==
  ASSUME WriterInv, LogInv, chain # <<>>, NEW ok \in BOOLEAN, Settles(Head(chain), ok),
         posted' = <<>>,
         NEW op, op = Head(chain),
         ok => pendingDelta' = pendingDelta,
         posted = <<>> => op.kind = "flush" /\ pendingDelta[op.message] = <<>>,
         \A n \in Messages : pendingDelta'[n] = pendingDelta[n] \/ InFlight(n) # <<>>
  PROVE  LogInv' /\ \A n \in Messages : InFlight(n)' = <<>>
<1>1. \A n \in Messages : InFlight(n)' = <<>>
  BY DEF InFlight
<1>2. AwaitedTakesAll'
  BY DEF AwaitedTakesAll
<1>3. Drained'
  <2> SUFFICES ASSUME NEW n \in Messages,
                      call'[n].step \in {"none", "opening", "posting", "uploading"}
               PROVE  pendingDelta'[n] = <<>>
    BY <1>1 DEF Drained
  <2>1. CASE call[n].step \in {"none", "opening", "posting", "uploading"}
    BY <2>1 DEF LogInv, Drained
  <2>2. CASE call[n].step \notin {"none", "opening", "posting", "uploading"}
    <3>1. n = op.message /\ call'[n] # call[n]
      BY <2>2, SettlesCases
    <3>2. op.awaited /\ ok
      <4>1. call'[n] = Returned(n, ok) => call'[n].step \in {"idle", "closed"}
        BY DEF Returned
      <4>2. call'[n].step \notin {"idle", "closed"}
        OBVIOUS
      <4> QED
        BY <3>1, <4>1, <4>2, SettlesCases
    <3>3. call[n].step \in {"flushing", "posting"}
      BY <3>1, <3>2, Typed, TailOps DEF WriterInv, ChainInv, AwaitedBy
    <3>4. op.kind = "flush"
      <4>1. op.kind # "flush" => call[n].step = "posting"
        BY <3>1, <3>2, Typed, TailOps DEF WriterInv, ChainInv, AwaitedBy
      <4> QED
        BY <2>2, <4>1
    <3>5. pendingDelta[n] = <<>>
      BY <3>1, <3>2, <3>4 DEF LogInv, AwaitedTakesAll
    <3> QED
      BY <3>2, <3>5
  <2> QED
    BY <2>1, <2>2
<1> QED
  BY <1>1, <1>2, <1>3, SettledCall, SettledPosts DEF LogInv

-----------------------------------------------------------------------------
(* Sequences in two parts *)

LEMMA Parts ==
  ASSUME NEW s \in Seq(Item), NEW t \in Seq(Item)
  PROVE  /\ s \o t \in Seq(Item) /\ Len(s \o t) = Len(s) + Len(t)
         /\ SubSeq(s \o t, 1, Len(s)) = s
         /\ SubSeq(s \o t, Len(s) + 1, Len(s \o t)) = t
         /\ \A i \in 1 .. Len(s) : (s \o t)[i] = s[i]
<1> DEFINE st == s \o t
<1>1. /\ st \in Seq(Item) /\ Len(st) = Len(s) + Len(t) /\ Len(s) \in Nat /\ Len(t) \in Nat
      /\ \A i \in 1 .. Len(s) : st[i] = s[i]
      /\ \A i \in 1 .. Len(t) : st[Len(s) + i] = t[i]
  <2>1. \A i \in 1 .. Len(s) + Len(t) : st[i] = IF i <= Len(s) THEN s[i] ELSE t[i - Len(s)]
    BY ConcatProperties
  <2>2. Len(s) \in Nat /\ Len(t) \in Nat /\ st \in Seq(Item) /\ Len(st) = Len(s) + Len(t)
    BY ConcatProperties, LenProperties
  <2> HIDE DEF st
  <2>3. ASSUME NEW i \in 1 .. Len(t) PROVE st[Len(s) + i] = t[i]
    <3>1. Len(s) + i \in 1 .. Len(s) + Len(t) /\ ~(Len(s) + i <= Len(s)) /\ (Len(s) + i) - Len(s) = i
      BY <2>2
    <3> QED
      BY <2>1, <3>1
  <2> QED
    BY <2>1, <2>2, <2>3
<1> HIDE DEF st
<1>2. SubSeq(st, 1, Len(s)) = s
  <2>1. /\ SubSeq(st, 1, Len(s)) \in Seq(Item) /\ Len(SubSeq(st, 1, Len(s))) = Len(s)
        /\ \A i \in 1 .. Len(s) : SubSeq(st, 1, Len(s))[i] = st[i]
    BY <1>1, SubSeqProperties
  <2> QED
    BY <1>1, <2>1, SeqEqual
<1>3. SubSeq(st, Len(s) + 1, Len(st)) = t
  <2> DEFINE rest == SubSeq(st, Len(s) + 1, Len(st))
  <2>1. /\ rest \in Seq(Item) /\ Len(rest) = Len(t)
        /\ \A i \in 1 .. Len(t) : rest[i] = st[Len(s) + i]
    BY <1>1, SubSeqProperties
  <2> HIDE DEF rest
  <2>2. rest = t
    BY <1>1, <2>1, SeqEqual
  <2> QED
    BY <2>2 DEF rest
<1> QED
  BY <1>1, <1>2, <1>3 DEF st

LEMMA AppendInside ==
  ASSUME NEW s \in Seq(Item), NEW t \in Seq(Item), NEW item \in Item
  PROVE  s \o Append(t, item) = Append(s \o t, item)
<1> DEFINE last == <<item>>
<1>1. last \in Seq(Item) /\ s \o t \in Seq(Item)
  BY ConcatProperties
<1>2. Append(t, item) = t \o last /\ Append(s \o t, item) = (s \o t) \o last
  BY <1>1, AppendIsConcat
<1> HIDE DEF last
<1>3. s \o (t \o last) = (s \o t) \o last
  BY <1>1, ConcatAssociative
<1> QED
  BY <1>2, <1>3

LEMMA Associates == \A s, t, u \in Seq(Item) : (s \o t) \o u = s \o (t \o u)
BY ConcatAssociative

-----------------------------------------------------------------------------
(* The steps of DeltaLog, in terms of what is not applied of each message      *)

LEMMA LogGives ==
  ASSUME NEW m \in Messages, NEW item \in Item,
         Unapplied(m)' = Append(Unapplied(m), item),
         \A n \in Messages \ {m} : Unapplied(n)' = Unapplied(n),
         shown' = shown
  PROVE  Log!Next
<1>1. Log!Give(m, item)
  BY DEF Log!Give
<1> QED
  BY <1>1 DEF Log!Next

LEMMA LogFails ==
  ASSUME NEW m \in Messages,
         Unapplied(m)' = Log!WithoutCall(Unapplied(m)),
         \A n \in Messages \ {m} : Unapplied(n)' = Unapplied(n),
         shown' = shown
  PROVE  Log!Next
<1>1. Log!Fail(m)
  BY DEF Log!Fail
<1> QED
  BY <1>1 DEF Log!Next

LEMMA LogStutters ==
  ASSUME \A n \in Messages : Unapplied(n)' = Unapplied(n), shown' = shown
  PROVE  UNCHANGED Log!vars
BY DEF Log!vars

LEMMA LogShows ==
  ASSUME NEW m \in Messages, NEW t \in Seq(Item), NEW rest \in Seq(Item), t # <<>>,
         Unapplied(m) = t \o rest, Unapplied(m)' = rest,
         \A n \in Messages \ {m} : Unapplied(n)' = Unapplied(n),
         shown' = [shown EXCEPT ![m] = @ \o t]
  PROVE  Log!Next
<1> DEFINE k == Len(t)
<1>1. /\ SubSeq(Unapplied(m), 1, k) = t
      /\ SubSeq(Unapplied(m), k + 1, Len(Unapplied(m))) = rest
      /\ k \in 1 .. Len(Unapplied(m))
  <2>1. Len(t) \in Nat \ {0} /\ Len(rest) \in Nat
    BY EmptySeq, LenProperties
  <2> QED
    BY <2>1, Parts
<1> HIDE DEF k
<1>2. Log!Show(m, k)
  BY <1>1 DEF Log!Show
<1> QED
  BY <1>1, <1>2 DEF Log!Next

LEMMA LogRepeats ==
  ASSUME NEW m \in Messages, NEW t \in Texts, NEW rest \in Seq(Item), t # <<>>,
         Unapplied(m) = t \o rest,
         Unapplied(m)' = Unapplied(m) \/ Unapplied(m)' = Log!WithoutCall(Unapplied(m)),
         \A n \in Messages \ {m} : Unapplied(n)' = Unapplied(n),
         shown' = [shown EXCEPT ![m] = @ \o t]
  PROVE  Log!Next
<1> DEFINE k == Len(t)
<1>1. t \in Seq(Item) /\ Len(t) \in Nat \ {0} /\ Len(rest) \in Nat
  BY TextsAreItems, EmptySeq, LenProperties
<1>2. /\ SubSeq(Unapplied(m), 1, k) = t
      /\ k \in 1 .. Len(Unapplied(m))
      /\ \A i \in 1 .. k : Unapplied(m)[i] = t[i]
  BY <1>1, Parts
<1>3. \A i \in 1 .. k : IsText(t[i])
  <2>1. t \in [1 .. k -> {i \in Item : IsText(i)}]
    BY LenProperties DEF Texts
  <2> QED
    BY <2>1
<1> HIDE DEF k
<1>4. Log!Repeat(m, k)
  <2>1. CASE Unapplied(m)' = Unapplied(m)
    BY <1>2, <1>3, <2>1 DEF Log!Repeat
  <2>2. CASE Unapplied(m)' = Log!WithoutCall(Unapplied(m))
    BY <1>2, <1>3, <2>2 DEF Log!Repeat
  <2> QED
    BY <2>1, <2>2
<1> QED
  BY <1>2, <1>4 DEF Log!Next

(* The call given last is what a failure takes away.                          *)
LEMMA WithoutLast ==
  ASSUME NEW s \in Seq(Item), NEW item \in Item, ~IsText(item)
  PROVE  Log!WithoutCall(s \o <<item>>) = s
<1> DEFINE st == s \o <<item>>
<1>1. /\ st = Append(s, item) /\ st # <<>> /\ Len(st) = Len(s) + 1 /\ st[Len(s) + 1] = item
  BY AppendIsConcat, AppendProperties
<1>2. SubSeq(st, 1, Len(s)) = s /\ Len(s) \in Nat
  BY Parts, LenProperties
<1> HIDE DEF st
<1>3. st[Len(st)] = item /\ Len(st) - 1 = Len(s)
  BY <1>1, <1>2
<1>4. Log!WithoutCall(st) = s
  BY <1>1, <1>2, <1>3 DEF Log!WithoutCall
<1> QED
  BY <1>4 DEF st

-----------------------------------------------------------------------------
(* What is not applied of a message: its text, then its call                  *)

Body(m) == InFlight(m) \o pendingDelta[m]
CallItem(m) == IF call[m].item # NoItem THEN <<call[m].item>> ELSE <<>>

LEMMA Pieces ==
  ASSUME WriterInv, NEW m \in Messages
  PROVE  /\ Unapplied(m) = Body(m) \o CallItem(m)
         /\ InFlight(m) \in Texts /\ pendingDelta[m] \in Texts /\ Body(m) \in Texts
         /\ InFlight(m) \in Seq(Item) /\ pendingDelta[m] \in Seq(Item) /\ Body(m) \in Seq(Item)
         /\ CallItem(m) \in Seq(Item)
         /\ call[m].item \in Item \cup {NoItem}
<1>1. call[m].item \in Item \cup {NoItem} /\ pendingDelta[m] \in Texts
  BY Typed DEF WriterInv
<1>2. InFlight(m) \in Texts
  <2>1. <<>> \in Texts
    BY DEF Texts
  <2> QED
    BY <2>1 DEF InFlight, WriterInv, InFlightInv
<1>3. Body(m) \in Texts
  BY <1>1, <1>2, ConcatProperties DEF Body, Texts
<1>4. CallItem(m) \in Seq(Item)
  BY <1>1 DEF CallItem
<1> QED
  BY <1>1, <1>2, <1>3, <1>4, TextsAreItems DEF Unapplied, Body, CallItem

LEMMA PiecesNext ==
  ASSUME NEW m \in Messages
  PROVE  Unapplied(m)' = Body(m)' \o CallItem(m)'
BY DEF Unapplied, Body, CallItem

(* A call's item, behind the text given before it. *)
LEMMA CallBehindText ==
  ASSUME WriterInv, LogInv, NEW m \in Messages
  PROVE  /\ call[m].item = NoItem => Unapplied(m) = Body(m)
         /\ call[m].item # NoItem =>
              /\ Unapplied(m) = Body(m) \o <<call[m].item>>
              /\ call[m].item \in Item
              /\ Log!WithoutCall(Unapplied(m)) = Body(m)
<1>1. CASE call[m].item = NoItem
  BY <1>1, Pieces, ConcatEmptySeq DEF CallItem
<1>2. CASE call[m].item # NoItem
  <2>1. Unapplied(m) = Body(m) \o <<call[m].item>> /\ call[m].item \in Item /\ Body(m) \in Seq(Item)
    BY <1>2, Pieces DEF CallItem
  <2>2. ~IsText(call[m].item)
    BY DEF LogInv, CallsCarry
  <2> QED
    BY <1>2, <2>1, <2>2, WithoutLast
<1> QED
  BY <1>1, <1>2

LEMMA CallBehindTextNext ==
  ASSUME WriterInv', LogInv', NEW m \in Messages
  PROVE  /\ call'[m].item = NoItem => Unapplied(m)' = Body(m)'
         /\ call'[m].item # NoItem => Unapplied(m)' = Body(m)' \o <<call'[m].item>>
<1>1. call'[m].item # NoItem => Unapplied(m)' = Body(m)' \o <<call'[m].item>>
  BY DEF Unapplied, Body
<1>2. ASSUME call'[m].item = NoItem PROVE Unapplied(m)' = Body(m)'
  <2>1. Unapplied(m)' = Body(m)' \o <<>>
    BY <1>2 DEF Unapplied, Body
  <2>2. Body(m)' \in Seq(Item)
    <3>1. pendingDelta'[m] \in Texts /\ posted' \in Seq(Payload)
      BY Typed DEF WriterInv, TypeOK, Texts, Payload
    <3>2. InFlight(m)' \in Texts
      <4>1. <<>> \in Texts
        BY DEF Texts
      <4> QED
        BY <4>1 DEF InFlight, WriterInv, InFlightInv
    <3> QED
      BY <3>1, <3>2, ConcatProperties, TextsAreItems DEF Body
  <2> QED
    BY <2>1, <2>2, ConcatEmptySeq
<1> QED
  BY <1>1, <1>2

LEMMA BodyDrained ==
  ASSUME LogInv, NEW m \in Messages,
         call[m].step \in {"none", "opening", "posting", "uploading"}
  PROVE  Body(m) = <<>>
<1>1. InFlight(m) = <<>> /\ pendingDelta[m] = <<>>
  BY DEF LogInv, Drained
<1>2. <<>> \o <<>> = <<>>
  BY EmptySeq, ConcatEmptySeq
<1> QED
  BY <1>1, <1>2 DEF Body

-----------------------------------------------------------------------------
(* The steps of the writer *)

LogStep == LogInv' /\ (Log!Next \/ UNCHANGED Log!vars)

(* A call is given: its item goes behind the text.                            *)
LEMMA GivesCall ==
  ASSUME WriterInv, LogInv, WriterInv', LogInv', NEW m \in Messages, NEW item \in Item,
         call[m].item = NoItem, call'[m].item = item,
         \A n \in Messages \ {m} : call'[n] = call[n],
         \A n \in Messages : Body(n)' = Body(n),
         shown' = shown
  PROVE  Log!Next
<1>1. Unapplied(m)' = Append(Unapplied(m), item)
  <2>1. Unapplied(m) = Body(m)
    BY CallBehindText
  <2>2. Unapplied(m)' = Body(m) \o <<item>>
    BY CallBehindTextNext, KindsDiffer
  <2> QED
    BY <2>1, <2>2, Pieces, AppendIsConcat
<1>2. \A n \in Messages \ {m} : Unapplied(n)' = Unapplied(n)
  BY DEF Unapplied, Body
<1> QED
  BY <1>1, <1>2, LogGives

(* A call of m moves on within its own steps, or is given up.                 *)
LEMMA SameItems ==
  ASSUME \A n \in Messages : Body(n)' = Body(n) /\ call'[n].item = call[n].item,
         shown' = shown
  PROVE  UNCHANGED Log!vars
BY LogStutters DEF Unapplied, Body

LEMMA GivesUpCall ==
  ASSUME WriterInv, LogInv, WriterInv', LogInv', NEW m \in Messages,
         call[m].item # NoItem, call'[m].item = NoItem,
         \A n \in Messages \ {m} : call'[n] = call[n],
         \A n \in Messages : Body(n)' = Body(n),
         shown' = shown
  PROVE  Log!Next
<1>1. Unapplied(m)' = Log!WithoutCall(Unapplied(m))
  BY CallBehindText, CallBehindTextNext
<1>2. \A n \in Messages \ {m} : Unapplied(n)' = Unapplied(n)
  BY DEF Unapplied, Body
<1> QED
  BY <1>1, <1>2, LogFails

LEMMA StartAssistantLog ==
  ASSUME WriterInv, LogInv, WriterInv', NEW m \in Messages, StartAssistant(m)
  PROVE  LogStep
<1> DEFINE item == NextItem(m, "start")
           op == Post(m, item)
<1>1. item \in Item /\ item.kind = "start"
  BY NextItemIsItem DEF WriterInv, StartAssistant, Gives, NextItem
<1>2. op \in Op /\ op.message = m /\ op.item = item
  BY <1>1, PostIsOp DEF Payload, Post
<1>3. Queues(op) /\ shown' = shown
  BY <1>2 DEF StartAssistant, Queues
<1>4. /\ call'[m].step = "posting" /\ call'[m].item = item
      /\ \A n \in Messages \ {m} : call'[n] = call[n]
  BY <1>1, Typed DEF StartAssistant, WriterInv
<1>5. NoneAwaited(chain, m) /\ call[m].step = "none" /\ call[m].item = NoItem
  BY NotAwaiting DEF StartAssistant, WriterInv, LogInv, CallsCarry
<1> HIDE DEF item
<1>6. CallsCarry'
  BY <1>1, <1>4, KindsDiffer DEF LogInv, CallsCarry, IsText
<1> HIDE DEF op
<1>7. LogInv' /\ \A n \in Messages : InFlight(n)' = InFlight(n)
  BY <1>2, <1>3, <1>4, <1>5, <1>6, QueuesLog
<1>8. \A n \in Messages : Body(n)' = Body(n)
  BY <1>3, <1>7 DEF Body, Queues
<1> QED
  BY <1>1, <1>3, <1>4, <1>5, <1>7, <1>8, GivesCall DEF LogStep

LEMMA CallsFlushLog ==
  ASSUME WriterInv, LogInv, WriterInv', NEW m \in Messages, NEW kind \in Calls,
         CallsFlush(m, kind)
  PROVE  LogStep
<1> DEFINE item == NextItem(m, kind)
           op == Flush(m, TRUE)
<1>1. item \in Item /\ item.kind = kind /\ kind # "delta"
  BY NextItemIsItem DEF WriterInv, CallsFlush, Gives, NextItem, Calls
<1>2. op \in Op /\ op.kind = "flush"
  BY FlushIsOp
<1>3. Queues(op) /\ shown' = shown
  BY <1>2 DEF CallsFlush, FlushDelta, Queues
<1>4. /\ call'[m].step = "flushing" /\ call'[m].item = item
      /\ \A n \in Messages \ {m} : call'[n] = call[n]
  BY <1>1, Typed DEF CallsFlush, WriterInv
<1>5. NoneAwaited(chain, m) /\ call[m].step = "idle" /\ call[m].item = NoItem
  BY NotAwaiting DEF CallsFlush, WriterInv, LogInv, CallsCarry
<1> HIDE DEF item
<1>6. CallsCarry'
  BY <1>1, <1>4, KindsDiffer DEF LogInv, CallsCarry, IsText
<1> HIDE DEF op
<1>7. LogInv' /\ \A n \in Messages : InFlight(n)' = InFlight(n)
  BY <1>2, <1>3, <1>4, <1>5, <1>6, QueuesLog
<1>8. \A n \in Messages : Body(n)' = Body(n)
  BY <1>3, <1>7 DEF Body, Queues
<1> QED
  BY <1>1, <1>3, <1>4, <1>5, <1>7, <1>8, GivesCall DEF LogStep

LEMMA TimerFiresLog ==
  ASSUME WriterInv, LogInv, WriterInv', NEW m \in Messages, TimerFires(m)
  PROVE  LogStep
<1> DEFINE op == Flush(m, FALSE)
<1>1. op \in Op /\ op.kind = "flush"
  BY FlushIsOp
<1>2. Queues(op) /\ shown' = shown /\ call' = call
  BY <1>1 DEF TimerFires, FlushDelta, Queues
<1>3. CallsCarry'
  BY <1>2 DEF LogInv, CallsCarry
<1> HIDE DEF op
<1>4. LogInv' /\ \A n \in Messages : InFlight(n)' = InFlight(n)
  BY <1>1, <1>2, <1>3, QueuesLog
<1>5. \A n \in Messages : Body(n)' = Body(n)
  BY <1>2, <1>4 DEF Body, Queues
<1> QED
  BY <1>2, <1>4, <1>5, SameItems DEF LogStep

LEMMA MediaLog ==
  ASSUME WriterInv, LogInv, WriterInv', NEW m \in Messages, NEW item \in Payload,
         call[m].step \in {"opening", "uploading"},
         item # UploadUrl => item = call[m].item,
         \/ /\ call' = [call EXCEPT ![m].step = "posting"]
            /\ chain' = Append(chain, Post(m, item))
         \/ call' = [call EXCEPT ![m] = Returned(m, TRUE)] /\ UNCHANGED chain,
         UNCHANGED <<pendingDelta, flushTimer, posted, shown, given, failed, failures>>
  PROVE  LogStep
<1>1. /\ NoneAwaited(chain, m) /\ call[m].item # NoItem
      /\ call \in [Messages -> [step : Steps, item : Item \cup {NoItem}]]
      /\ chain \in Seq(Op)
  BY NotAwaiting, Typed DEF WriterInv, LogInv, CallsCarry
<1>2. CASE /\ call' = [call EXCEPT ![m].step = "posting"]
           /\ chain' = Append(chain, Post(m, item))
  <2> DEFINE op == Post(m, item)
  <2>1. op \in Op /\ op.kind = "post" /\ op.message = m /\ op.item = item
    BY PostIsOp DEF Post
  <2>2. Queues(op) /\ shown' = shown
    BY <1>2, <2>1 DEF Queues
  <2>3. /\ call'[m].item = call[m].item /\ call'[m].step = "posting"
        /\ \A n \in Messages \ {m} : call'[n] = call[n]
    BY <1>1, <1>2 DEF Steps
  <2>4. CallsCarry'
    BY <1>1, <2>3 DEF LogInv, CallsCarry
  <2> HIDE DEF op
  <2>5. LogInv' /\ \A n \in Messages : InFlight(n)' = InFlight(n)
    BY <2>1, <2>2, <2>3, <2>4, QueuesLog
  <2>6. \A n \in Messages : Body(n)' = Body(n)
    BY <2>2, <2>5 DEF Body, Queues
  <2>7. \A n \in Messages : call'[n].item = call[n].item
    BY <2>3
  <2> QED
    BY <2>2, <2>5, <2>6, <2>7, SameItems DEF LogStep
<1>3. CASE call' = [call EXCEPT ![m] = Returned(m, TRUE)] /\ UNCHANGED chain
  <2>1. Returned(m, TRUE).item = NoItem /\ Returned(m, TRUE).step \in {"idle", "closed"}
    BY DEF Returned
  <2>2. /\ call'[m].item = NoItem /\ call'[m].step \in {"idle", "closed"}
        /\ \A n \in Messages \ {m} : call'[n] = call[n]
    BY <1>1, <1>3, <2>1
  <2>3. \A n \in Messages : InFlight(n)' = InFlight(n) /\ Body(n)' = Body(n)
    BY <1>3 DEF InFlight, Body
  <2>4. CallsCarry'
    BY <2>2 DEF LogInv, CallsCarry, NoItem, IsText
  <2>5. Drained'
    BY <2>2, <2>3 DEF LogInv, Drained
  <2>6. AwaitedTakesAll'
    BY <1>3 DEF LogInv, AwaitedTakesAll
  <2>7. PostsAreCalls'
    <3> SUFFICES ASSUME NEW i \in DOMAIN chain, chain[i].kind = "post", chain[i].item # UploadUrl
                 PROVE  chain[i].item = call'[chain[i].message].item
      BY <1>3 DEF PostsAreCalls
    <3>1. chain[i].message \in Messages \ {m}
      BY <1>1, PostsAreAwaited DEF NoneAwaited
    <3> QED
      BY <2>2, <3>1 DEF LogInv, PostsAreCalls
  <2>8. LogInv'
    BY <2>4, <2>5, <2>6, <2>7 DEF LogInv
  <2> QED
    BY <1>1, <2>2, <2>3, <2>8, GivesUpCall DEF LogStep
<1> QED
  BY <1>2, <1>3

LEMMA OpensLog ==
  ASSUME WriterInv, LogInv, WriterInv', NEW m \in Messages, NEW found \in BOOLEAN, Opens(m, found)
  PROVE  LogStep
<1> UploadUrl \in Payload
  BY DEF Payload
<1> QED
  BY MediaLog DEF Opens

LEMMA UploadsLog ==
  ASSUME WriterInv, LogInv, WriterInv', NEW m \in Messages, NEW ok \in BOOLEAN, Uploads(m, ok)
  PROVE  LogStep
<1> call[m].item \in Payload
  BY DEF Payload, WriterInv, CallInv, Uploads
<1> QED
  BY MediaLog DEF Uploads

LEMMA AppendDeltaLog ==
  ASSUME WriterInv, LogInv, WriterInv', NEW m \in Messages, AppendDelta(m)
  PROVE  LogStep
<1> DEFINE item == NextItem(m, "delta")
<1>1. item \in Item
  BY NextItemIsItem DEF WriterInv, AppendDelta, Gives, NextItem
<1>2. /\ call[m].step = "idle" /\ call[m].item = NoItem
      /\ UNCHANGED <<chain, posted, call, shown>>
  BY DEF AppendDelta, LogInv, CallsCarry
<1>3. /\ pendingDelta'[m] = Append(pendingDelta[m], item)
      /\ \A n \in Messages \ {m} : pendingDelta'[n] = pendingDelta[n]
  BY Typed DEF AppendDelta, WriterInv
<1>4. \A n \in Messages : InFlight(n)' = InFlight(n)
  BY <1>2 DEF InFlight
<1>5. CallsCarry' /\ PostsAreCalls'
  BY <1>2 DEF LogInv, CallsCarry, PostsAreCalls
<1>6. Drained'
  BY <1>2, <1>3, <1>4 DEF LogInv, Drained
<1>7. AwaitedTakesAll'
  <2> SUFFICES ASSUME posted # <<>>, Head(chain).kind = "flush", Head(chain).awaited
               PROVE  pendingDelta'[Head(chain).message] = <<>>
    BY <1>2 DEF AwaitedTakesAll
  <2>1. /\ chain \in Seq(Op) /\ chain # <<>> /\ 1 \in DOMAIN chain /\ Head(chain) = chain[1]
        /\ Head(chain).message \in Messages
    BY Typed, TailOps, OpsAreShaped DEF WriterInv, OpShape
  <2>2. call[Head(chain).message].step = "flushing"
    BY <2>1 DEF WriterInv, ChainInv, AwaitedBy
  <2> QED
    BY <1>2, <1>3, <2>1, <2>2 DEF LogInv, AwaitedTakesAll
<1>8. LogInv'
  BY <1>5, <1>6, <1>7 DEF LogInv
<1>9. Unapplied(m)' = Append(Unapplied(m), item)
  <2>1. Unapplied(m) = InFlight(m) \o pendingDelta[m]
    BY <1>2, CallBehindText DEF Body
  <2>2. Unapplied(m)' = InFlight(m) \o Append(pendingDelta[m], item)
    BY <1>2, <1>3, <1>4, <1>8, CallBehindTextNext DEF Body
  <2>3. /\ InFlight(m) \in Seq(Item) /\ pendingDelta[m] \in Seq(Item) /\ <<item>> \in Seq(Item)
        /\ InFlight(m) \o pendingDelta[m] \in Seq(Item)
    BY <1>1, Pieces, ConcatProperties
  <2> QED
    BY <1>1, <2>1, <2>2, <2>3, AppendInside
<1>10. \A n \in Messages \ {m} : Unapplied(n)' = Unapplied(n)
  BY <1>2, <1>3, <1>4 DEF Unapplied
<1> QED
  BY <1>1, <1>2, <1>8, <1>9, <1>10, LogGives DEF LogStep

LEMMA ExecutesLog ==
  ASSUME WriterInv, LogInv, WriterInv', Executes
  PROVE  LogStep
<1> DEFINE op == Head(chain)
<1>1. /\ op \in Op /\ OpShape(op) /\ op.message \in Messages
      /\ pendingDelta \in [Messages -> Texts]
  BY Typed, TailOps, OpsAreShaped DEF WriterInv, Executes, OpShape
<1>2. posted = <<>> /\ posted' = Text(op) /\ posted' # <<>> /\ UNCHANGED <<chain, call, shown>>
  BY DEF Executes
<1>3. \A n \in Messages : InFlight(n) = <<>>
  BY <1>2 DEF InFlight
<1>4. CallsCarry' /\ PostsAreCalls'
  BY <1>2 DEF LogInv, CallsCarry, PostsAreCalls
<1>5. \A n \in Messages :
        \/ /\ op.kind = "flush" /\ n = op.message
           /\ InFlight(n)' = pendingDelta[n] /\ pendingDelta'[n] = <<>> /\ pendingDelta[n] # <<>>
        \/ /\ ~(op.kind = "flush" /\ n = op.message)
           /\ InFlight(n)' = InFlight(n) /\ pendingDelta'[n] = pendingDelta[n]
  BY <1>1, <1>2, <1>3 DEF Executes, Text, InFlight
<1>6. Drained'
  BY <1>2, <1>5 DEF LogInv, Drained
<1>7. AwaitedTakesAll'
  BY <1>1, <1>2, <1>5 DEF AwaitedTakesAll
<1>8. LogInv'
  BY <1>4, <1>6, <1>7 DEF LogInv
<1>9. \A n \in Messages : Body(n)' = Body(n)
  <2> SUFFICES ASSUME NEW n \in Messages PROVE InFlight(n)' \o pendingDelta'[n] = InFlight(n) \o pendingDelta[n]
    BY DEF Body
  <2>1. pendingDelta[n] \o <<>> = pendingDelta[n] /\ <<>> \o pendingDelta[n] = pendingDelta[n]
    BY Pieces, ConcatEmptySeq
  <2> HIDE DEF op
  <2> QED
    BY <1>3, <1>5, <2>1
<1> QED
  BY <1>2, <1>8, <1>9, SameItems DEF LogStep

LEMMA SkipsFlushLog ==
  ASSUME WriterInv, LogInv, WriterInv', SkipsFlush
  PROVE  LogStep
<1> DEFINE op == Head(chain)
<1>1. /\ chain # <<>> /\ posted = <<>> /\ posted' = <<>> /\ Settles(op, TRUE)
      /\ UNCHANGED <<pendingDelta, shown>>
  BY DEF SkipsFlush
<1>2. op.kind = "flush" /\ pendingDelta[op.message] = <<>>
  <2>1. <<op.item>> # <<>>
    OBVIOUS
  <2> QED
    BY <2>1 DEF SkipsFlush, Text
<1> HIDE DEF op
<1>3. \A n \in Messages : InFlight(n) = <<>>
  BY <1>1 DEF InFlight
<1>4. LogInv' /\ \A n \in Messages : InFlight(n)' = <<>>
  BY <1>1, <1>2, SettlesLog DEF op
<1>5. \A n \in Messages : Body(n)' = Body(n)
  BY <1>1, <1>3, <1>4 DEF Body
<1>6. \A n \in Messages \ {op.message} : call'[n] = call[n]
  BY <1>1, SettlesCases DEF op
<1>7. call'[op.message].item = call[op.message].item
  BY <1>1, <1>2, SettledCall DEF op
<1> QED
  BY <1>1, <1>4, <1>5, <1>6, <1>7, SameItems DEF LogStep

(* The POST in flight is for the head of the chain: text, an item of the call *)
(* that waits for it, or an upload request.                                   *)
LEMMA InFlightCases ==
  ASSUME WriterInv, LogInv, posted # <<>>, NEW op, op = Head(chain)
  PROVE  /\ chain # <<>> /\ op.message \in Messages
         /\ \A n \in Messages \ {op.message} : InFlight(n) = <<>>
         /\ \/ /\ op.kind = "flush" /\ posted \in Texts /\ posted \in Seq(Item)
               /\ InFlight(op.message) = posted
               /\ Applied(op.message) = [shown EXCEPT ![op.message] = @ \o posted]
            \/ /\ op.kind = "post" /\ op.item # UploadUrl /\ op.awaited
               /\ call[op.message].item # NoItem
               /\ posted = <<call[op.message].item>> /\ Body(op.message) = <<>>
               /\ Applied(op.message) = [shown EXCEPT ![op.message] = @ \o posted]
            \/ /\ op.kind = "post" /\ op.item = UploadUrl /\ op.awaited
               /\ Body(op.message) = <<>> /\ Applied(op.message) = shown
<1>1. /\ chain \in Seq(Op) /\ chain # <<>> /\ op \in Op /\ OpShape(op) /\ op.message \in Messages
      /\ 1 \in DOMAIN chain /\ op = chain[1]
  BY Typed, TailOps, OpsAreShaped DEF WriterInv, OpShape
<1>2. \A n \in Messages \ {op.message} : InFlight(n) = <<>>
  BY DEF InFlight
<1>3. CASE op.kind = "flush"
  <2>1. posted \in Texts /\ InFlight(op.message) = posted
    BY <1>3 DEF WriterInv, InFlightInv, InFlight
  <2>2. posted \in Seq(Item)
    BY <2>1, TextsAreItems
  <2>3. posted # <<UploadUrl>>
    <3>1. ASSUME posted = <<UploadUrl>> PROVE FALSE
      <4>1. Len(posted) = 1 /\ posted[1] = UploadUrl
        BY <3>1
      <4>2. posted[1] \in Item
        BY <2>2, <4>1, LenProperties
      <4> QED
        BY <4>1, <4>2, KindsDiffer
    <3> QED
      BY <3>1
  <2> QED
    BY <1>1, <1>2, <1>3, <2>1, <2>2, <2>3 DEF Applied
<1>4. CASE op.kind = "post"
  <2>1. posted = <<op.item>> /\ op.awaited
    BY <1>1, <1>4 DEF WriterInv, InFlightInv, OpShape, Flush
  <2>2. call[op.message].step = "posting"
    BY <1>1, <1>4, <2>1 DEF WriterInv, ChainInv, AwaitedBy
  <2>3. Body(op.message) = <<>> /\ call[op.message].item # NoItem
    BY <1>1, <2>2, BodyDrained DEF LogInv, CallsCarry
  <2>4. CASE op.item = UploadUrl
    BY <1>1, <1>2, <1>4, <2>1, <2>3, <2>4 DEF Applied
  <2>5. CASE op.item # UploadUrl
    <3>1. op.item = call[op.message].item
      BY <1>1, <1>4, <2>5 DEF LogInv, PostsAreCalls
    <3>2. posted # <<UploadUrl>>
      <4>1. \A x, y : <<x>> = <<y>> => x = y
        OBVIOUS
      <4> QED
        BY <2>1, <2>5, <4>1
    <3>3. Applied(op.message) = [shown EXCEPT ![op.message] = @ \o posted]
      BY <3>2 DEF Applied
    <3>4. posted = <<call[op.message].item>>
      BY <2>1, <3>1
    <3> QED
      BY <1>1, <1>2, <1>4, <2>1, <2>3, <2>5, <3>3, <3>4
  <2> QED
    BY <2>4, <2>5
<1> QED
  BY <1>1, <1>3, <1>4 DEF OpShape

LEMMA AnsweredLog ==
  ASSUME WriterInv, LogInv, WriterInv', Answered
  PROVE  LogStep
<1>0. PICK op \in Op, m \in Messages : op = Head(chain) /\ m = op.message
  BY Typed, TailOps, OpsAreShaped DEF WriterInv, Answered, OpShape
<1>1. /\ posted # <<>> /\ posted' = <<>> /\ Settles(op, TRUE) /\ pendingDelta' = pendingDelta
      /\ shown' = Applied(m)
  BY <1>0 DEF Answered
<1>2. chain # <<>> /\ m \in Messages /\ \A n \in Messages \ {m} : call'[n] = call[n]
  BY <1>0, <1>1, InFlightCases, SettlesCases
<1>3. LogInv' /\ \A n \in Messages : InFlight(n)' = <<>>
  BY <1>0, <1>1, <1>2, SettlesLog
<1>4. \A n \in Messages \ {m} : Unapplied(n)' = Unapplied(n) /\ Body(n)' = Body(n)
  <2>1. \A n \in Messages \ {m} : InFlight(n) = <<>>
    BY <1>0, <1>1, InFlightCases
  <2> QED
    BY <1>1, <1>2, <1>3, <2>1 DEF Unapplied, Body
<1>5. CASE /\ op.kind = "flush" /\ posted \in Seq(Item) /\ InFlight(m) = posted
           /\ Applied(m) = [shown EXCEPT ![m] = @ \o posted]
  <2> DEFINE rest == pendingDelta[m] \o CallItem(m)
  <2>1. call'[m].item = call[m].item
    BY <1>0, <1>1, <1>2, <1>5, SettledCall
  <2>2. rest \in Seq(Item) /\ pendingDelta[m] \in Seq(Item) /\ CallItem(m) \in Seq(Item)
    BY <1>2, Pieces, ConcatProperties
  <2>3. Unapplied(m) = posted \o rest
    <3>1. Unapplied(m) = (posted \o pendingDelta[m]) \o CallItem(m)
      BY <1>2, <1>5, Pieces DEF Body
    <3>2. (posted \o pendingDelta[m]) \o CallItem(m) = posted \o rest
      BY <1>5, <2>2, Associates
    <3> QED
      BY <3>1, <3>2
  <2>4. Unapplied(m)' = rest
    <3>1. Unapplied(m)' = (<<>> \o pendingDelta[m]) \o CallItem(m)
      BY <1>1, <1>2, <1>3, <2>1 DEF Unapplied, CallItem
    <3> QED
      BY <2>2, <3>1, ConcatEmptySeq
  <2> HIDE DEF rest
  <2> QED
    BY <1>1, <1>2, <1>3, <1>4, <1>5, <2>2, <2>3, <2>4, LogShows DEF LogStep
<1>6. CASE /\ op.kind = "post" /\ op.item # UploadUrl
           /\ call[m].item # NoItem
           /\ posted = <<call[m].item>> /\ Body(m) = <<>>
           /\ Applied(m) = [shown EXCEPT ![m] = @ \o posted]
  <2>1. call'[m].item = NoItem
    BY <1>0, <1>1, <1>2, <1>6, SettledCall
  <2>2. posted \in Seq(Item) /\ <<>> \in Seq(Item)
    BY <1>2, <1>6, CallBehindText
  <2>3. Unapplied(m) = posted \o <<>>
    <3>1. Unapplied(m) = <<>> \o posted
      BY <1>2, <1>6, CallBehindText
    <3> QED
      BY <2>2, <3>1, ConcatEmptySeq
  <2>4. Unapplied(m)' = <<>>
    <3>1. Unapplied(m)' = Body(m)'
      BY <1>2, <1>3, <2>1, CallBehindTextNext
    <3>2. Body(m)' = <<>> \o pendingDelta[m]
      BY <1>1, <1>2, <1>3 DEF Body
    <3>3. pendingDelta[m] = <<>>
      <4>1. InFlight(m) \o pendingDelta[m] = <<>> /\ InFlight(m) \in Seq(Item) /\ pendingDelta[m] \in Seq(Item)
        BY <1>2, <1>6, Pieces DEF Body
      <4> QED
        BY <4>1, ConcatEqualIffEmpty
    <3> QED
      BY <3>1, <3>2, <3>3, <2>2, ConcatEmptySeq
  <2> QED
    BY <1>1, <1>2, <1>3, <1>4, <1>6, <2>2, <2>3, <2>4, LogShows DEF LogStep
<1>7. CASE op.kind = "post" /\ op.item = UploadUrl /\ Applied(m) = shown /\ Body(m) = <<>> /\ op.awaited
  <2>1. call'[m].item = call[m].item
    BY <1>0, <1>1, <1>2, <1>7, SettledCall
  <2>2. InFlight(m) = <<>>
    BY <1>0, <1>7 DEF InFlight
  <2>3. \A n \in Messages : Body(n)' = Body(n) /\ call'[n].item = call[n].item
    BY <1>1, <1>2, <1>3, <1>4, <2>1, <2>2 DEF Body
  <2>4. UNCHANGED Log!vars
    BY <1>1, <1>7, <2>3, SameItems
  <2> QED
    BY <1>3, <2>4 DEF LogStep
<1> QED
  BY <1>0, <1>1, <1>5, <1>6, <1>7, InFlightCases

LEMMA FailsLog ==
  ASSUME WriterInv, LogInv, WriterInv', NEW lost \in BOOLEAN, Fails(lost)
  PROVE  LogStep
<1>0. PICK op \in Op, m \in Messages : op = Head(chain) /\ m = op.message
  BY Typed, TailOps, OpsAreShaped DEF WriterInv, Fails, OpShape
<1>1. /\ posted # <<>> /\ posted' = <<>> /\ Settles(op, FALSE) /\ pendingDelta' = Rebuffered(op)
      /\ shown' = IF lost THEN Applied(m) ELSE shown
  BY <1>0 DEF Fails
<1>2. chain # <<>> /\ \A n \in Messages \ {m} : call'[n] = call[n]
  BY <1>0, <1>1, InFlightCases, SettlesCases
<1>3. \A n \in Messages \ {m} : InFlight(n) = <<>>
  BY <1>0, <1>1, InFlightCases
<1>4. /\ op.kind = "flush" => pendingDelta'[m] = posted \o pendingDelta[m]
      /\ op.kind # "flush" => pendingDelta'[m] = pendingDelta[m]
      /\ \A n \in Messages \ {m} : pendingDelta'[n] = pendingDelta[n]
  BY <1>0, <1>1, Typed DEF WriterInv, Rebuffered
<1>5. LogInv' /\ \A n \in Messages : InFlight(n)' = <<>>
  <2>1. op.kind = "flush" => InFlight(m) # <<>>
    BY <1>0, <1>1 DEF InFlight
  <2>2. \A n \in Messages : pendingDelta'[n] = pendingDelta[n] \/ InFlight(n) # <<>>
    BY <1>4, <2>1
  <2> QED
    BY <1>0, <1>1, <1>2, <2>2, SettlesLog
<1>6. \A n \in Messages \ {m} : Unapplied(n)' = Unapplied(n) /\ Body(n)' = Body(n)
  BY <1>2, <1>3, <1>4, <1>5 DEF Unapplied, Body
<1>7. CASE /\ op.kind = "flush" /\ posted \in Texts /\ posted \in Seq(Item) /\ InFlight(m) = posted
           /\ Applied(m) = [shown EXCEPT ![m] = @ \o posted]
  <2> DEFINE rest == pendingDelta[m] \o CallItem(m)
  <2>1. /\ rest \in Seq(Item) /\ pendingDelta[m] \in Seq(Item) /\ CallItem(m) \in Seq(Item)
        /\ posted \o pendingDelta[m] \in Seq(Item)
    BY <1>7, Pieces, ConcatProperties
  <2>2. Unapplied(m) = posted \o rest
    <3>1. Unapplied(m) = (posted \o pendingDelta[m]) \o CallItem(m)
      BY <1>7, Pieces DEF Body
    <3>2. (posted \o pendingDelta[m]) \o CallItem(m) = posted \o rest
      BY ZenonT(30), <1>7, <2>1, Associates
    <3> QED
      BY <3>1, <3>2
  <2>3. Body(m)' = Body(m)
    <3>1. Body(m)' = <<>> \o (posted \o pendingDelta[m])
      BY <1>4, <1>5, <1>7 DEF Body
    <3> QED
      BY <1>7, <2>1, <3>1, ConcatEmptySeq DEF Body
  <2>4. \/ call'[m].item = call[m].item
        \/ call'[m].item = NoItem /\ call[m].item # NoItem
    BY <1>0, <1>1, <1>2, SettledCall
  <2>5. \/ call'[m].item = call[m].item /\ Unapplied(m)' = Unapplied(m)
        \/ /\ call'[m].item = NoItem /\ call[m].item # NoItem
           /\ Unapplied(m)' = Log!WithoutCall(Unapplied(m))
    <3>1. call'[m].item = call[m].item => Unapplied(m)' = Unapplied(m)
      BY <2>3 DEF Unapplied, Body
    <3>2. call'[m].item = NoItem /\ call[m].item # NoItem
            => Unapplied(m)' = Log!WithoutCall(Unapplied(m))
      BY <1>5, <2>3, CallBehindText, CallBehindTextNext
    <3> QED
      BY <2>4, <3>1, <3>2
  <2> HIDE DEF rest
  <2>6. CASE lost
    <3>1. shown' = [shown EXCEPT ![m] = @ \o posted]
      BY <1>1, <1>7, <2>6
    <3> QED
      BY <1>1, <1>5, <1>6, <1>7, <2>1, <2>2, <2>5, <3>1, LogRepeats DEF LogStep
  <2>7. CASE ~lost /\ Unapplied(m)' = Unapplied(m)
    <3>1. shown' = shown /\ \A n \in Messages : Unapplied(n)' = Unapplied(n)
      BY <1>1, <1>6, <2>7
    <3> QED
      BY <1>5, <3>1, LogStutters DEF LogStep
  <2>8. CASE ~lost /\ Unapplied(m)' = Log!WithoutCall(Unapplied(m))
    <3>1. shown' = shown
      BY <1>1, <2>8
    <3> QED
      BY <1>5, <1>6, <2>8, <3>1, LogFails DEF LogStep
  <2> QED
    BY <2>5, <2>6, <2>7, <2>8
<1>8. ASSUME op.kind = "post", op.awaited, Body(m) = <<>>
      PROVE  /\ Body(m)' = <<>> /\ call'[m].item = NoItem /\ call[m].item # NoItem
             /\ Unapplied(m)' = <<>>
             /\ Unapplied(m)' = Log!WithoutCall(Unapplied(m))
  <2>1. call'[m].item = NoItem /\ call[m].item # NoItem
    BY <1>0, <1>1, <1>2, <1>8, SettledCall
  <2>2. InFlight(m) = <<>>
    BY <1>0, <1>8 DEF InFlight
  <2>3. Body(m)' = <<>>
    BY <1>4, <1>5, <1>8, <2>2 DEF Body
  <2> QED
    BY <1>5, <1>8, <2>1, <2>3, CallBehindText, CallBehindTextNext
<1>9. CASE /\ op.kind = "post" /\ op.awaited /\ Body(m) = <<>>
           /\ posted = <<call[m].item>>
           /\ Applied(m) = [shown EXCEPT ![m] = @ \o posted]
  <2>1. CASE lost
    <3>1. posted \in Seq(Item) /\ <<>> \in Seq(Item)
      BY <1>8, <1>9, CallBehindText
    <3>2. Unapplied(m) = posted \o <<>>
      <4>1. Unapplied(m) = <<>> \o posted
        BY <1>8, <1>9, CallBehindText
      <4> QED
        BY <3>1, <4>1, ConcatEmptySeq
    <3>3. shown' = [shown EXCEPT ![m] = @ \o posted] /\ Unapplied(m)' = <<>>
      BY <1>1, <1>8, <1>9, <2>1
    <3> QED
      BY <1>1, <1>5, <1>6, <3>1, <3>2, <3>3, LogShows DEF LogStep
  <2>2. CASE ~lost
    <3>1. shown' = shown /\ Unapplied(m)' = Log!WithoutCall(Unapplied(m))
      BY <1>1, <1>8, <1>9, <2>2
    <3> QED
      BY <1>5, <1>6, <3>1, LogFails DEF LogStep
  <2> QED
    BY <2>1, <2>2
<1>10. CASE /\ op.kind = "post" /\ op.awaited /\ Body(m) = <<>> /\ Applied(m) = shown
  <2>1. shown' = shown /\ Unapplied(m)' = Log!WithoutCall(Unapplied(m))
    BY <1>1, <1>8, <1>10
  <2> QED
    BY <1>5, <1>6, <2>1, LogFails DEF LogStep
<1> QED
  BY <1>0, <1>1, <1>7, <1>9, <1>10, InFlightCases

LEMMA StepsLog ==
  ASSUME WriterInv, LogInv, [Next]_vars
  PROVE  LogInv' /\ (Log!Next \/ UNCHANGED Log!vars)
<1>1. WriterInv'
  BY StepsKeep
<1>2. CASE UNCHANGED vars
  <2>1. LogInv'
    BY <1>2 DEF vars, LogInv, CallsCarry, Drained, AwaitedTakesAll, PostsAreCalls, InFlight
  <2>2. UNCHANGED Log!vars
    BY <1>2, LogStutters DEF vars, Unapplied, InFlight
  <2> QED
    BY <2>1, <2>2
<1>3. CASE Next
  BY <1>1, <1>3, StartAssistantLog, AppendDeltaLog, CallsFlushLog, TimerFiresLog, ExecutesLog,
     SkipsFlushLog, AnsweredLog, FailsLog, OpensLog, UploadsLog DEF Next, LogStep
<1> QED
  BY <1>2, <1>3

(* What a message was given but does not show is, oldest first, the text in   *)
(* flight, the text buffered and the call under way: a call and the text      *)
(* given before it never pass each other in the writer (flushDelta before     *)
(* every operation, convex-writer.ts), and the POST of a call is awaited.      *)
THEOREM LogInvariant == Spec => []LogInv
BY InitWriter, StepsKeep, LogInit, StepsLog, PTL DEF Spec

(* The writer implements DeltaLog: whatever flushes the timer and the callers *)
(* queue and whatever POSTs fail or lose their answer, each message shows     *)
(* what it was given, in order and without a gap, and no text is dropped.     *)
THEOREM WriterImplementsLog == Spec => ImplementsLog
<1>1. Init => Log!Init
  <2> SUFFICES ASSUME Init PROVE Log!Init
    OBVIOUS
  <2>1. \A m \in Messages : Unapplied(m) = <<>>
    <3> SUFFICES ASSUME NEW m \in Messages PROVE Unapplied(m) = <<>>
      OBVIOUS
    <3>1. InFlight(m) = <<>> /\ pendingDelta[m] = <<>> /\ call[m].item = NoItem
      BY DEF Init, InFlight
    <3>2. <<>> \o <<>> = <<>>
      BY EmptySeq, ConcatEmptySeq
    <3> QED
      BY <3>1, <3>2 DEF Unapplied
  <2> QED
    BY <2>1 DEF Init, Log!Init
<1>2. WriterInv /\ LogInv /\ [Next]_vars => [Log!Next]_(Log!vars)
  BY StepsLog
<1> QED
  BY <1>1, <1>2, WriterInvariant, LogInvariant, PTL DEF Spec, ImplementsLog, Log!Spec
=============================================================================
