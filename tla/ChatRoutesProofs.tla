---------------------------- MODULE ChatRoutesProofs ----------------------------
(***************************************************************************)
(* Proofs about /send, /patch, /reset and /compact of a chat, beside the       *)
(* operator routes, for any requests, messages, levels and intents.           *)
(***************************************************************************)
EXTENDS OperatorRoutesProofs, SequenceTheorems

-----------------------------------------------------------------------------
(* Where the handlers of the chat stand *)

Levelled == Levels \cup {None}

ChatTypes ==
  /\ current \in ChatHandlers \cup {None}
  /\ verboseFull \in [ChatHandlers -> BOOLEAN]
  /\ row \in Rows
  /\ accepted \in SUBSET Messages
  /\ thread \in SUBSET Messages
  /\ local \in [ChatHandlers -> Locals]
  /\ alone \in SUBSET ChatHandlers
  /\ deleted \in SUBSET Messages

Awaiting == {"verbose", "knobs", "describe", "history", "send", "reset", "compact"}

Shaped(c) == c = [on |-> c.on, request |-> c.request, answer |-> c.answer]

(* What is left behind at each step.                                          *)
Stage(h) ==
  /\ step[h] \in {"new", "acquire", "done"} \cup Awaiting
  /\ step[h] = "new" <=> reply[h] = "none"
  /\ step[h] = "done" <=> reply[h] \in {"200", "502"}
  /\ reply[h] \in {"none", "pending", "200", "502"}
  /\ step[h] \in {"new", "acquire", "done"} => call[h] = NoCall
  /\ step[h] = "new" => local[h] = NoLocals
  /\ step[h] \in Awaiting => local[h].on \in ChatHandlers
  /\ step[h] \in {"describe", "history", "send"} => local[h].left = <<>>
  /\ step[h] \notin {"send", "done"} \/ h \notin Sends \cup Patches => local[h].ran = None
  /\ h \in Sends /\ reply[h] # "none" => local[h].message \in Messages

(* What it asks there, and of whom.                                           *)
Asking(h) ==
  /\ step[h] \in Awaiting =>
       call[h].on = IF step[h] = "history" THEN None ELSE local[h].on
  /\ step[h] = "verbose" => h \in Sends /\ call[h].request = VerbosePatch
  /\ step[h] = "knobs" =>
       h \in Sends \cup Patches /\ local[h].left # <<>>
       /\ call[h].request = KnobPatch(Head(local[h].left))
  /\ step[h] = "describe" => h \in Sends \cup Patches /\ call[h].request = Describe
  /\ step[h] = "history" => h \in Sends /\ call[h].request = GetHistory
  /\ step[h] = "history" /\ call[h].answer # None => \E v \in SUBSET Messages : call[h].answer = Ok(v)
  /\ step[h] = "send" =>
       h \in Sends
       /\ \E history \in SUBSET Messages : call[h].request = ChatSend(local[h].message, history)
  /\ step[h] = "reset" => h \in Resets /\ call[h].request = Reset
  /\ step[h] = "compact" => h \in Compacts /\ call[h].request = Compact

(* The connection it opened: the registered one, if it is open.               *)
Linked(h) ==
  /\ step[h] \in {"new", "acquire"} => link[h] = "none"
  /\ link[h] = "none" => ~verboseFull[h]
  /\ link[h] = "open" => h = current

(* The requests that may be out.                                              *)
Asked(h, r) ==
  \/ r \in {VerbosePatch, Describe, Compact}
  \/ \E p \in KnobPatches : r = KnobPatch(p)
  \/ h \in Resets /\ r = Reset
  \/ h \in Sends /\ local[h].message \in Messages
     /\ \E history \in SUBSET Messages : r = ChatSend(local[h].message, history)

(* A request left behind: only a turn is asked for last.                      *)
Left(l) ==
  /\ reply[l.by] # "none" /\ Asked(l.by, l.request)
  /\ l.request.method = "chat.send" => step[l.by] = "done"

(* A handler nobody has interfered with is the only one, while it is pending.   *)
AloneStands == \A h \in alone : reply[h] # "none" /\ (reply[h] = "pending" => Pending = {h})

ChatBase ==
  /\ Tables /\ ChatTypes
  /\ \A h \in ChatHandlers : Stage(h) /\ Asking(h) /\ Linked(h) /\ Shaped(call[h])
  /\ \A l \in late : l.by \in ChatHandlers => Left(l)
  /\ AloneStands
  /\ row.made # None => reply[row.made] # "none"

LEMMA Kinds ==
  /\ ChatHandlers \subseteq Handlers /\ None \notin ChatHandlers
  /\ \A h \in Sends : h \in ChatHandlers /\ h \notin Patches \cup Resets \cup Compacts
  /\ \A h \in Patches : h \in ChatHandlers /\ h \notin Sends \cup Resets \cup Compacts
  /\ \A h \in Resets : h \in ChatHandlers /\ h \notin Sends \cup Patches \cup Compacts
  /\ \A h \in Compacts : h \in ChatHandlers /\ h \notin Sends \cup Patches \cup Resets
BY ChatRoutesAssumption, GatewayCallsAssumption DEF ChatHandlers

LEMMA BaseInit == Init => ChatBase
<1> SUFFICES ASSUME Init PROVE ChatBase
  OBVIOUS
<1>1. Tables /\ late = {} /\ alone = {}
  BY DEF Init, CallsInit, ChatInit, Tables
<1>2. NoLocals \in Locals /\ FreshRow(FALSE, None) \in Rows /\ FreshRow(FALSE, None).made = None
  <2>1. Inherited \in [Knobs -> Levelled] /\ <<>> \in Seq(KnobPatches) /\ <<>> \in Seq(Knobs)
    BY DEF Inherited, Levelled
  <2>2. NoSettings \in Settings
    BY <2>1 DEF NoSettings, Settings, Levelled
  <2> QED
    BY <2>1, <2>2 DEF NoLocals, Locals, FreshRow, Rows, Levelled
<1>3. ChatTypes
  BY <1>2 DEF Init, ChatInit, ChatTypes
<1>4. \A h \in ChatHandlers :
        /\ step[h] = "new" /\ reply[h] = "none" /\ call[h] = NoCall /\ link[h] = "none"
        /\ local[h] = NoLocals /\ ~verboseFull[h]
  BY Kinds DEF Init, CallsInit, ChatInit
<1>5. \A h \in ChatHandlers : Stage(h) /\ Asking(h) /\ Linked(h)
  <2> SUFFICES ASSUME NEW h \in ChatHandlers PROVE Stage(h) /\ Asking(h) /\ Linked(h)
    OBVIOUS
  <2>0. local[h].ran = None /\ step[h] = "new" /\ reply[h] = "none" /\ call[h] = NoCall
    BY <1>4 DEF NoLocals
  <2>1. Stage(h)
    BY <1>4, <2>0 DEF Stage, Awaiting
  <2>2. Asking(h)
    BY <1>4 DEF Asking, Awaiting
  <2>3. Linked(h)
    BY <1>4 DEF Linked
  <2> QED
    BY <2>1, <2>2, <2>3
<1>6. Shaped(NoCall)
  BY DEF Shaped, NoCall
<1> QED
  BY <1>1, <1>2, <1>3, <1>4, <1>5, <1>6 DEF ChatBase, AloneStands, Init, ChatInit

-----------------------------------------------------------------------------
(* Steps beside the chat *)

(* A step of an operator route, of the gateway for one, or of a connection.     *)
Aside ==
  /\ UNCHANGED chatVars
  /\ Tables' /\ Untouched(ChatHandlers) /\ LinksLast(ChatHandlers)
  /\ \A l \in late' : l \in late \/ l.by \notin ChatHandlers

LEMMA AsideKeeps == ChatBase /\ Aside => ChatBase'
<1> SUFFICES ASSUME ChatBase, Aside PROVE ChatBase'
  OBVIOUS
<1>1. UNCHANGED chatVars /\ Tables'
  BY DEF Aside
<1>2. ChatTypes'
  BY <1>1 DEF ChatBase, ChatTypes, chatVars
<1>3. \A h \in ChatHandlers : call'[h] = call[h] /\ step'[h] = step[h] /\ reply'[h] = reply[h]
  BY DEF Aside, Untouched
<1>4. \A h \in ChatHandlers : Stage(h)' /\ Asking(h)'
  BY <1>1, <1>3 DEF ChatBase, Stage, Asking, chatVars
<1>5. \A h \in ChatHandlers : Linked(h)'
  BY <1>1, <1>3 DEF ChatBase, Linked, Aside, LinksLast, chatVars
<1>6. \A l \in late' : l.by \in ChatHandlers => l \in late
  BY DEF Aside
<1>7. \A l \in late : l.by \in ChatHandlers /\ Left(l) => Left(l)'
  BY <1>1, <1>3 DEF Left, Asked, chatVars
<1>8. Pending' = Pending
  BY <1>3 DEF Pending
<1>9. AloneStands'
  BY <1>1, <1>3, <1>8 DEF ChatBase, AloneStands, chatVars, ChatTypes
<1>10. (row.made # None => reply[row.made] # "none")'
  BY <1>1, <1>3 DEF ChatBase, chatVars, ChatTypes, Rows, ChatHandlers
<1> QED
  BY <1>1, <1>2, <1>3, <1>4, <1>5, <1>6, <1>7, <1>9, <1>10 DEF ChatBase

-----------------------------------------------------------------------------
(* A handler goes on *)

(* What h has left behind is the request it awaited.                          *)
LEMMA LeftBehindAsked ==
  ASSUME NEW h, NEW o, late' = LeftBehind(h, o), NEW l \in late', l \notin late
  PROVE  l.by = h /\ l.request = call[h].request /\ call[h].on # None
BY DEF LeftBehind

LEMMA AskingIsAsked ==
  ASSUME ChatBase, NEW h \in ChatHandlers, call[h].on # None
  PROVE  step[h] \in Awaiting /\ reply[h] = "pending" /\ Asked(h, call[h].request)
<1>1. Stage(h) /\ Asking(h) /\ local[h].left \in Seq(KnobPatches)
  BY DEF ChatBase, ChatTypes, Locals
<1>2. step[h] \in Awaiting /\ reply[h] = "pending"
  BY <1>1 DEF Stage, NoCall, Awaiting
<1>3. step[h] # "history"
  BY <1>1, <1>2 DEF Asking
<1>4. CASE step[h] = "knobs"
  <2>1. Head(local[h].left) \in KnobPatches
    BY <1>1, <1>4 DEF Asking
  <2> QED
    BY <1>1, <1>2, <1>4, <2>1 DEF Asking, Asked
<1>5. CASE step[h] = "send"
  <2>1. local[h].message \in Messages
    BY <1>1, <1>2, <1>5 DEF Asking, Stage
  <2> QED
    BY <1>1, <1>2, <1>5, <2>1 DEF Asking, Asked
<1> QED
  BY <1>1, <1>2, <1>3, <1>4, <1>5 DEF Asking, Asked, Awaiting

LEMMA AskedMethod ==
  ASSUME ChatBase, NEW h \in ChatHandlers, step[h] \in Awaiting, call[h].request.method = "chat.send"
  PROVE  step[h] = "send"
<1>1. Asking(h)
  BY DEF ChatBase
<1> QED
  BY <1>1 DEF Asking, Awaiting, VerbosePatch, KnobPatch, Describe, GetHistory, Reset, Compact

LEMMA CallIsShaped ==
  ASSUME Tables, NEW h \in ChatHandlers, ChatGoesOn(h)
  PROVE  Shaped(call'[h]) /\ call'[h].answer = None
<1>1. h \in DOMAIN call
  BY Kinds DEF Tables
<1> DEFINE Goes == \/ call' = [call EXCEPT ![h] = NoCall]
                    \/ \E l, r : call' = [call EXCEPT ![h] = [on |-> l, request |-> r, answer |-> None]]
<1>2. ASSUME HistoryRead(h) PROVE Goes
  <2>1. PICK o \in Outcomes(h) : AsksChatSend(h, IF o.error = None THEN o.value ELSE {})
    BY <1>2 DEF HistoryRead
  <2> QED
    BY <2>1 DEF AsksChatSend, Asks
<1>3. ASSUME ~HistoryRead(h) PROVE Goes
  BY <1>3 DEF ChatGoesOn, Acquires, VerboseApplied, KnobApplied, Described, SendAcked,
    ResetDone, CompactDone, Given, AsksFirst, AsksKnobs, AsksChatSend, Asks, Replies
<1>4. Goes
  BY <1>2, <1>3
<1> QED
  BY <1>1, <1>4 DEF Shaped, NoCall

(* It is enough to look at the handler that goes on.                          *)
LEMMA BaseOwn ==
  ASSUME ChatBase, NEW h \in ChatHandlers, ChatGoesOn(h), reply[h] = "pending",
         reply'[h] # "none",
         UNCHANGED <<row, accepted, thread, alone>>, ChatTypes',
         \A g \in ChatHandlers \ {h} : local'[g] = local[g],
         local'[h].message = local[h].message,
         \A l \in late' :
           \/ l \in late
           \/ /\ l.by = h /\ Asked(h, l.request)
              /\ l.request.method = "chat.send" => step'[h] = "done",
         \A g \in ChatHandlers \ {h} :
           (link'[g] = "none" => ~verboseFull'[g]) /\ (link'[g] = "open" => g = current'),
         Stage(h)', Asking(h)', Linked(h)'
  PROVE  ChatBase'
<1>1. Tables' /\ \A g \in ChatHandlers \ {h} :
        /\ call'[g] = call[g] /\ step'[g] = step[g] /\ reply'[g] = reply[g]
        /\ link'[g] = "none" <=> link[g] = "none"
  BY ChatGoesOnAlone, Kinds DEF ChatBase, OwnStep, Untouched, LinksLast
<1>2. \A g \in ChatHandlers : local'[g].message = local[g].message
  OBVIOUS
<1>3. \A g \in ChatHandlers \ {h} : Stage(g)' /\ Asking(g)'
  BY <1>1 DEF ChatBase, Stage, Asking
<1>4. \A g \in ChatHandlers \ {h} : Linked(g)'
  BY <1>1 DEF ChatBase, Linked
<1>5. \A g, r : Asked(g, r) => Asked(g, r)'
  BY <1>2, Kinds DEF Asked
<1>6. ASSUME NEW l \in late', l.by \in ChatHandlers PROVE Left(l)'
  <2>1. CASE l \in late
    <3>1. Left(l)
      BY <1>6, <2>1 DEF ChatBase
    <3>2. l.by = h => l.request.method # "chat.send"
      BY <3>1 DEF ChatBase, Stage, Left
    <3> QED
      BY <1>1, <1>5, <1>6, <3>1, <3>2 DEF Left
  <2>2. CASE l \notin late
    BY <1>5, <1>6, <2>2 DEF Left
  <2> QED
    BY <2>1, <2>2
<1>7. Pending' \subseteq Pending
  BY <1>1 DEF Pending
<1>8. \A g \in alone : reply'[g] = "pending" => Pending' = {g}
  <2> SUFFICES ASSUME NEW g \in alone, reply'[g] = "pending" PROVE Pending' = {g}
    OBVIOUS
  <2>1. g \in ChatHandlers
    BY DEF ChatBase, ChatTypes
  <2>2. reply[g] = "pending"
    BY <1>1, <2>1
  <2>3. Pending = {g} /\ g \in Pending'
    BY <2>1, <2>2 DEF ChatBase, AloneStands, Pending
  <2> QED
    BY <1>7, <2>3
<1>9. \A g \in alone : reply'[g] # "none"
  BY <1>1 DEF ChatBase, AloneStands, ChatTypes
<1>10. row.made # None => reply'[row.made] # "none"
  BY <1>1 DEF ChatBase, ChatTypes, Rows, ChatHandlers
<1> QED
  BY <1>1, <1>3, <1>4, <1>6, <1>8, <1>9, <1>10, CallIsShaped DEF ChatBase, AloneStands

LEMMA AsksKnobsAsks ==
  ASSUME Tables, NEW h \in Handlers, NEW l, NEW left, AsksKnobs(h, l, left)
  PROVE  /\ reply' = reply /\ call'[h].on = l /\ call'[h].answer = None
         /\ \/ left # <<>> /\ step'[h] = "knobs" /\ call'[h].request = KnobPatch(Head(left))
            \/ left = <<>> /\ step'[h] = "describe" /\ call'[h].request = Describe
BY DEF AsksKnobs, Asks, Tables

(* The first request of each route.                                           *)
LEMMA GivenAsks ==
  ASSUME Tables, ChatTypes, NEW h \in ChatHandlers, NEW l \in ChatHandlers, Given(h, l)
  PROVE  /\ local' = [local EXCEPT ![h].on = l] /\ current' = l
         /\ reply' = reply /\ call'[h].on = l /\ call'[h].answer = None
         /\ \/ h \in Sends /\ step'[h] = "verbose" /\ call'[h].request = VerbosePatch
            \/ /\ h \in Sends \cup Patches /\ local[h].left # <<>>
               /\ step'[h] = "knobs" /\ call'[h].request = KnobPatch(Head(local[h].left))
            \/ /\ h \in Sends \cup Patches /\ local[h].left = <<>>
               /\ step'[h] = "describe" /\ call'[h].request = Describe
            \/ h \in Resets /\ step'[h] = "reset" /\ call'[h].request = Reset
            \/ h \in Compacts /\ step'[h] = "compact" /\ call'[h].request = Compact
<1>1. h \in Handlers /\ local' = [local EXCEPT ![h].on = l] /\ current' = l /\ AsksFirst(h, l)
  BY Kinds DEF Given
<1>2. CASE h \in Patches \cup {s \in Sends : verboseFull[l]} /\ AsksKnobs(h, l, local[h].left)
  BY <1>1, <1>2, AsksKnobsAsks
<1>3. CASE h \in Sends /\ ~verboseFull[l] /\ Asks(h, "verbose", l, VerbosePatch)
  BY <1>1, <1>3 DEF Asks, Tables
<1>4. CASE h \in Resets /\ Asks(h, "reset", l, Reset)
  BY <1>1, <1>4 DEF Asks, Tables
<1>5. CASE h \in Compacts /\ Asks(h, "compact", l, Compact)
  BY <1>1, <1>5 DEF Asks, Tables
<1> QED
  BY <1>1, <1>2, <1>3, <1>4, <1>5 DEF AsksFirst

LEMMA AcquiresBase ==
  ASSUME ChatBase, NEW h \in ChatHandlers, Acquires(h)
  PROVE  ChatBase'
<1>1. ChatGoesOn(h) /\ OwnStep(h) /\ Tables /\ ChatTypes /\ h \in Handlers
  BY ChatGoesOnAlone, Kinds DEF ChatGoesOn, ChatBase
<1>2. step[h] = "acquire" /\ UNCHANGED <<late, verboseFull, row, accepted, thread, alone, deleted>>
  BY DEF Acquires
<1>3. Stage(h) /\ Linked(h) /\ \A g \in ChatHandlers : Linked(g)
  BY DEF ChatBase
<1>4. reply[h] = "pending" /\ link[h] = "none"
  BY <1>2, <1>3 DEF Stage, Linked
<1>5. CASE Replies(h, "502") /\ UNCHANGED <<link, local, current>>
  <2>1. step'[h] = "done" /\ reply'[h] = "502" /\ call'[h] = NoCall
    BY <1>1, <1>5 DEF Replies, Tables
  <2>2. Stage(h)'
    BY <1>3, <1>5, <1>2, <2>1 DEF Stage, Awaiting
  <2>3. Asking(h)'
    BY <2>1 DEF Asking, Awaiting
  <2>4. Linked(h)'
    BY <1>2, <1>3, <1>5, <2>1 DEF Linked
  <2>5. ChatTypes'
    BY <1>1, <1>2, <1>5 DEF ChatTypes
  <2>6. \A g \in ChatHandlers \ {h} : (link'[g] = "none" => ~verboseFull'[g]) /\ (link'[g] = "open" => g = current')
    BY <1>2, <1>3, <1>5 DEF Linked
  <2> QED
    BY <1>1, <1>2, <1>4, <1>5, <2>1, <2>2, <2>3, <2>4, <2>5, <2>6, BaseOwn
<1>6. ASSUME NEW l \in ChatHandlers, Given(h, l),
             \/ l = current /\ link[l] = "open" /\ link' = link
             \/ /\ l = h /\ link' = [link EXCEPT ![h] = "open"]
                /\ ~(current # None /\ link[current] = "open")
      PROVE  ChatBase'
  <2>1. /\ local' = [local EXCEPT ![h].on = l] /\ current' = l
        /\ reply' = reply /\ call'[h].on = l /\ call'[h].answer = None
        /\ \/ h \in Sends /\ step'[h] = "verbose" /\ call'[h].request = VerbosePatch
           \/ /\ h \in Sends \cup Patches /\ local[h].left # <<>>
              /\ step'[h] = "knobs" /\ call'[h].request = KnobPatch(Head(local[h].left))
           \/ /\ h \in Sends \cup Patches /\ local[h].left = <<>>
              /\ step'[h] = "describe" /\ call'[h].request = Describe
           \/ h \in Resets /\ step'[h] = "reset" /\ call'[h].request = Reset
           \/ h \in Compacts /\ step'[h] = "compact" /\ call'[h].request = Compact
    BY <1>1, <1>6, GivenAsks
  <2>0. local[h] \in Locals /\ [local[h] EXCEPT !.on = l] \in Locals
    <3>1. local[h] \in Locals
      BY <1>1 DEF ChatTypes
    <3> QED
      BY <3>1 DEF Locals
  <2>2. /\ \A g \in ChatHandlers \ {h} : local'[g] = local[g]
        /\ local'[h] = [local[h] EXCEPT !.on = l]
        /\ local' \in [ChatHandlers -> Locals]
    BY <1>1, <2>0, <2>1 DEF ChatTypes
  <2>3. /\ local'[h].on = l /\ local'[h].left = local[h].left /\ local'[h].ran = local[h].ran
        /\ local'[h].message = local[h].message
    BY <2>0, <2>2 DEF Locals
  <2>4. ChatTypes'
    BY <1>1, <1>2, <2>1, <2>2 DEF ChatTypes
  <2>5. Stage(h)'
    BY <1>2, <1>3, <1>4, <2>1, <2>3, Kinds DEF Stage, Awaiting
  <2>6. Asking(h)'
    BY <2>1, <2>3, Kinds DEF Asking, Awaiting
  <2>7. \A g \in ChatHandlers : link'[g] = (IF g = h /\ link' # link THEN "open" ELSE link[g])
    BY <1>1, <1>6, Kinds DEF Tables
  <2>8. Linked(h)'
    BY <1>2, <1>3, <1>4, <1>6, <2>1, <2>7 DEF Linked, Tables
  <2>9. ASSUME NEW g \in ChatHandlers \ {h}
        PROVE  (link'[g] = "none" => ~verboseFull'[g]) /\ (link'[g] = "open" => g = current')
    <3>1. link'[g] = link[g] /\ Linked(g)
      BY <1>3, <2>7
    <3>2. g # None
      BY Kinds
    <3> QED
      BY <1>2, <1>6, <2>1, <3>1, <3>2 DEF Linked
  <2>10. reply'[h] # "none"
    BY <1>4, <2>1
  <2> QED
    BY <1>1, <1>2, <1>4, <2>2, <2>3, <2>4, <2>5, <2>6, <2>8, <2>9, <2>10, BaseOwn
<1>7. CASE current # None /\ link[current] = "open" /\ Given(h, current) /\ UNCHANGED link
  BY <1>1, <1>6, <1>7 DEF ChatTypes
<1>8. CASE ~(current # None /\ link[current] = "open") /\ Given(h, h) /\ link' = [link EXCEPT ![h] = "open"]
  BY <1>6, <1>8
<1> QED
  BY <1>5, <1>7, <1>8 DEF Acquires

(* The same for one that had a connection, and keeps it.                      *)
LEMMA BaseOn ==
  ASSUME ChatBase, NEW h \in ChatHandlers, ChatGoesOn(h), step[h] \in Awaiting,
         UNCHANGED <<link, current, row, accepted, thread, alone>>,
         local' \in [ChatHandlers -> Locals],
         \A g \in ChatHandlers \ {h} : local'[g] = local[g],
         local'[h].message = local[h].message,
         deleted' \in SUBSET Messages, verboseFull' \in [ChatHandlers -> BOOLEAN],
         \A g \in ChatHandlers : verboseFull'[g] => verboseFull[g] \/ link[g] = "open",
         late' = late \/ \E o : late' = LeftBehind(h, o),
         step'[h] \notin {"new", "acquire"}, step[h] = "send" => step'[h] = "done",
         Stage(h)', Asking(h)'
  PROVE  ChatBase'
<1>1. reply[h] = "pending" /\ reply'[h] # "none"
  BY DEF ChatBase, Stage, Awaiting
<1>2. ChatTypes'
  BY DEF ChatBase, ChatTypes
<1>3. ASSUME NEW l \in late', l \notin late
      PROVE  /\ l.by = h /\ Asked(h, l.request)
             /\ l.request.method = "chat.send" => step'[h] = "done"
  <2>1. l.by = h /\ l.request = call[h].request /\ call[h].on # None
    BY <1>3, LeftBehindAsked
  <2>2. Asked(h, call[h].request)
    BY <2>1, AskingIsAsked
  <2>3. call[h].request.method = "chat.send" => step[h] = "send"
    BY AskedMethod
  <2> QED
    BY <2>1, <2>2, <2>3
<1>4. \A g \in ChatHandlers : Linked(g)
  BY DEF ChatBase
<1>5. \A g \in ChatHandlers : (link'[g] = "none" => ~verboseFull'[g]) /\ (link'[g] = "open" => g = current')
  BY <1>4 DEF Linked
<1>6. Linked(h)'
  BY <1>5 DEF Linked
<1> QED
  BY <1>1, <1>2, <1>3, <1>5, <1>6, BaseOwn

(* An answer comes on the connection that is registered.                      *)
LEMMA AnswerOnCurrent ==
  ASSUME ChatBase, NEW h \in ChatHandlers, step[h] \in Awaiting \ {"history"},
         NEW o \in Outcomes(h), o.error = None
  PROVE  /\ o = call[h].answer /\ call[h].answer # None
         /\ local[h].on = current /\ link[current] = "open" /\ current \in ChatHandlers
<1>1. Stage(h) /\ Asking(h)
  BY DEF ChatBase
<1>2. call[h].on = local[h].on /\ local[h].on \in ChatHandlers
  BY <1>1 DEF Stage, Asking
<1>3. o = call[h].answer /\ call[h].answer # None /\ link[local[h].on] = "open"
  BY <1>2, OutcomeIsAnswer, Kinds
<1>4. Linked(local[h].on)
  BY <1>2 DEF ChatBase
<1> QED
  BY <1>2, <1>3, <1>4 DEF Linked

LEMMA VerboseAppliedBase ==
  ASSUME ChatBase, NEW h \in ChatHandlers, VerboseApplied(h)
  PROVE  ChatBase'
<1>1. ChatGoesOn(h) /\ OwnStep(h) /\ Tables /\ ChatTypes /\ h \in Handlers
  BY ChatGoesOnAlone, Kinds DEF ChatGoesOn, ChatBase
<1>2. /\ step[h] = "verbose" /\ step[h] \in Awaiting
      /\ UNCHANGED <<link, current, row, accepted, thread, local, alone, deleted>>
  BY DEF VerboseApplied, Awaiting
<1>3. Stage(h) /\ Asking(h)
  BY DEF ChatBase
<1>4. PICK o \in Outcomes(h) :
        /\ late' = LeftBehind(h, o)
        /\ \/ o.error # None /\ Replies(h, "502") /\ UNCHANGED verboseFull
           \/ /\ o.error = None
              /\ AsksKnobs(h, local[h].on, local[h].left)
              /\ verboseFull' = [verboseFull EXCEPT ![local[h].on] = TRUE]
  BY DEF VerboseApplied
<1>5. CASE o.error # None /\ Replies(h, "502") /\ UNCHANGED verboseFull
  <2>1. step'[h] = "done" /\ reply'[h] = "502" /\ call'[h] = NoCall
    BY <1>1, <1>5 DEF Replies, Tables
  <2>2. Stage(h)' /\ Asking(h)'
    BY <1>2, <1>3, <2>1 DEF Stage, Asking, Awaiting
  <2> QED
    BY <1>1, <1>2, <1>4, <1>5, <2>1, <2>2, BaseOn DEF ChatTypes
<1>6. CASE /\ o.error = None
           /\ AsksKnobs(h, local[h].on, local[h].left)
           /\ verboseFull' = [verboseFull EXCEPT ![local[h].on] = TRUE]
  <2>1. /\ reply' = reply /\ call'[h].on = local[h].on /\ call'[h].answer = None
        /\ \/ local[h].left # <<>> /\ step'[h] = "knobs" /\ call'[h].request = KnobPatch(Head(local[h].left))
           \/ local[h].left = <<>> /\ step'[h] = "describe" /\ call'[h].request = Describe
    BY <1>1, <1>6, AsksKnobsAsks
  <2>2. Stage(h)'
    BY <1>2, <1>3, <2>1 DEF Stage, Awaiting
  <2>3. Asking(h)'
    BY <1>2, <1>3, <2>1 DEF Asking, Awaiting
  <2>4. local[h].on = current /\ link[current] = "open" /\ current \in ChatHandlers
    BY <1>2, <1>4, <1>6, AnswerOnCurrent
  <2>5. \A g \in ChatHandlers : verboseFull'[g] => verboseFull[g] \/ link[g] = "open"
    BY <1>1, <1>6, <2>4 DEF ChatTypes
  <2> QED
    BY <1>1, <1>2, <1>4, <1>6, <2>1, <2>2, <2>3, <2>4, <2>5, BaseOn DEF ChatTypes
<1> QED
  BY <1>4, <1>5, <1>6

(* The locals a handler goes on with.                                         *)
LEMMA KnobLocals ==
  ASSUME ChatTypes, NEW h \in ChatHandlers, NEW left \in Seq(KnobPatches), NEW failed \in BOOLEAN,
         local' = [local EXCEPT ![h].left = left, ![h].failed = failed]
  PROVE  /\ local' \in [ChatHandlers -> Locals]
         /\ \A g \in ChatHandlers \ {h} : local'[g] = local[g]
         /\ local'[h] = [local[h] EXCEPT !.left = left, !.failed = failed]
         /\ local'[h].left = left /\ local'[h].failed = failed
         /\ local'[h].on = local[h].on /\ local'[h].ran = local[h].ran
         /\ local'[h].message = local[h].message /\ local'[h].intent = local[h].intent
<1>1. local[h] \in Locals
  BY DEF ChatTypes
<1> DEFINE r == [local[h] EXCEPT !.left = left, !.failed = failed]
<1>2. /\ r \in Locals /\ r.left = left /\ r.failed = failed /\ r.on = local[h].on
      /\ r.ran = local[h].ran /\ r.message = local[h].message /\ r.intent = local[h].intent
  BY <1>1 DEF Locals
<1>3. local' = [local EXCEPT ![h] = r]
  BY <1>1 DEF ChatTypes, Locals
<1> HIDE DEF r
<1>4. local' \in [ChatHandlers -> Locals] /\ local'[h] = r /\ \A g \in ChatHandlers \ {h} : local'[g] = local[g]
  BY <1>2, <1>3, ZenonT(30) DEF ChatTypes
<1> QED
  BY <1>2, <1>4 DEF r

(* A patch done, or the first that fails.                                     *)
LEMMA KnobStep ==
  ASSUME ChatBase, NEW h \in ChatHandlers, KnobApplied(h)
  PROVE  /\ step[h] = "knobs" /\ local[h].left \in Seq(KnobPatches) /\ local[h].left # <<>>
         /\ UNCHANGED <<link, current, verboseFull, row, accepted, thread, alone, deleted>>
         /\ local' \in [ChatHandlers -> Locals]
         /\ \A g \in ChatHandlers \ {h} : local'[g] = local[g]
         /\ local'[h].on = local[h].on /\ local'[h].ran = local[h].ran
         /\ local'[h].message = local[h].message /\ local'[h].intent = local[h].intent
         /\ \E o \in Outcomes(h) :
              /\ late' = LeftBehind(h, o)
              /\ \/ /\ o.error = None
                    /\ AsksKnobs(h, local[h].on, Tail(local[h].left))
                    /\ local'[h].left = Tail(local[h].left) /\ local'[h].failed = local[h].failed
                 \/ /\ o.error # None
                    /\ \/ h \in Patches /\ Head(local[h].left).level = None /\ Replies(h, "502")
                       \/ /\ ~(h \in Patches /\ Head(local[h].left).level = None)
                          /\ Asks(h, "describe", local[h].on, Describe)
                    /\ local'[h].left = <<>> /\ local'[h].failed
<1>1. ChatTypes /\ local[h] \in Locals /\ Asking(h)
  BY DEF ChatBase, ChatTypes
<1>2. /\ step[h] = "knobs"
      /\ UNCHANGED <<link, current, verboseFull, row, accepted, thread, alone, deleted>>
  BY DEF KnobApplied
<1>3. local[h].left \in Seq(KnobPatches) /\ local[h].left # <<>> /\ local[h].failed \in BOOLEAN
  BY <1>1, <1>2 DEF Asking, Locals
<1>4. Tail(local[h].left) \in Seq(KnobPatches) /\ <<>> \in Seq(KnobPatches)
  BY <1>3
<1>5. PICK o \in Outcomes(h) :
        /\ late' = LeftBehind(h, o)
        /\ \/ /\ o.error = None
              /\ AsksKnobs(h, local[h].on, Tail(local[h].left))
              /\ local' = [local EXCEPT ![h].left = Tail(@)]
           \/ /\ o.error # None
              /\ IF h \in Patches /\ Head(local[h].left).level = None
                   THEN Replies(h, "502")
                   ELSE Asks(h, "describe", local[h].on, Describe)
              /\ local' = [local EXCEPT ![h].left = <<>>, ![h].failed = TRUE]
  BY DEF KnobApplied
<1>6. CASE /\ o.error = None
           /\ AsksKnobs(h, local[h].on, Tail(local[h].left))
           /\ local' = [local EXCEPT ![h].left = Tail(@)]
  <2>1. local' = [local EXCEPT ![h].left = Tail(local[h].left), ![h].failed = local[h].failed]
    BY <1>1, <1>6 DEF ChatTypes, Locals
  <2>2. /\ local' \in [ChatHandlers -> Locals]
        /\ \A g \in ChatHandlers \ {h} : local'[g] = local[g]
        /\ local'[h].left = Tail(local[h].left) /\ local'[h].failed = local[h].failed
        /\ local'[h].on = local[h].on /\ local'[h].ran = local[h].ran
        /\ local'[h].message = local[h].message /\ local'[h].intent = local[h].intent
    BY <1>1, <1>3, <1>4, <2>1, KnobLocals
  <2> QED
    BY <1>2, <1>3, <1>5, <1>6, <2>2
<1>7. CASE /\ o.error # None
           /\ IF h \in Patches /\ Head(local[h].left).level = None
                THEN Replies(h, "502")
                ELSE Asks(h, "describe", local[h].on, Describe)
           /\ local' = [local EXCEPT ![h].left = <<>>, ![h].failed = TRUE]
  BY <1>1, <1>2, <1>3, <1>4, <1>5, <1>7, KnobLocals
<1> QED
  BY <1>5, <1>6, <1>7

LEMMA KnobAppliedBase ==
  ASSUME ChatBase, NEW h \in ChatHandlers, KnobApplied(h)
  PROVE  ChatBase'
<1>1. ChatGoesOn(h) /\ OwnStep(h) /\ Tables /\ ChatTypes /\ h \in Handlers
  BY ChatGoesOnAlone, Kinds DEF ChatGoesOn, ChatBase
<1>2. Stage(h) /\ Asking(h)
  BY DEF ChatBase
<1>3. /\ step[h] = "knobs" /\ step[h] \in Awaiting
      /\ UNCHANGED <<link, current, verboseFull, row, accepted, thread, alone, deleted>>
      /\ local' \in [ChatHandlers -> Locals]
      /\ \A g \in ChatHandlers \ {h} : local'[g] = local[g]
      /\ local'[h].on = local[h].on /\ local'[h].ran = local[h].ran
      /\ local'[h].message = local[h].message
  BY KnobStep DEF Awaiting
<1>4. PICK o \in Outcomes(h) :
        /\ late' = LeftBehind(h, o)
        /\ \/ /\ o.error = None
              /\ AsksKnobs(h, local[h].on, Tail(local[h].left))
              /\ local'[h].left = Tail(local[h].left) /\ local'[h].failed = local[h].failed
           \/ /\ o.error # None
              /\ \/ h \in Patches /\ Head(local[h].left).level = None /\ Replies(h, "502")
                 \/ /\ ~(h \in Patches /\ Head(local[h].left).level = None)
                    /\ Asks(h, "describe", local[h].on, Describe)
              /\ local'[h].left = <<>> /\ local'[h].failed
  BY KnobStep
<1>5. \/ step'[h] = "done" /\ reply'[h] = "502" /\ call'[h] = NoCall
      \/ /\ reply'[h] = reply[h] /\ call'[h].on = local[h].on
         /\ \/ local'[h].left # <<>> /\ step'[h] = "knobs" /\ call'[h].request = KnobPatch(Head(local'[h].left))
            \/ local'[h].left = <<>> /\ step'[h] = "describe" /\ call'[h].request = Describe
  <2>1. ASSUME Replies(h, "502") PROVE step'[h] = "done" /\ reply'[h] = "502" /\ call'[h] = NoCall
    BY <1>1, <2>1 DEF Replies, Tables
  <2>2. ASSUME Asks(h, "describe", local[h].on, Describe)
        PROVE  reply' = reply /\ call'[h].on = local[h].on /\ step'[h] = "describe" /\ call'[h].request = Describe
    BY <1>1, <2>2 DEF Asks, Tables
  <2> QED
    BY <1>1, <1>4, <2>1, <2>2, AsksKnobsAsks
<1>6. Stage(h)'
  BY <1>2, <1>3, <1>5 DEF Stage, Awaiting
<1>7. Asking(h)'
  BY <1>2, <1>3, <1>5 DEF Asking, Awaiting
<1>8. step'[h] \notin {"new", "acquire"}
  BY <1>5
<1> QED
  BY <1>1, <1>3, <1>4, <1>6, <1>7, <1>8, BaseOn DEF ChatTypes

(* The description is read: what the handler does next.                       *)
LEMMA DescribedStep ==
  ASSUME ChatBase, NEW h \in ChatHandlers, Described(h)
  PROVE  /\ step[h] = "describe"
         /\ UNCHANGED <<link, late, current, verboseFull, row, accepted, thread, alone, deleted>>
         /\ local' \in [ChatHandlers -> Locals]
         /\ \A g \in ChatHandlers \ {h} : local'[g] = local[g]
         /\ local'[h].on = local[h].on /\ local'[h].left = local[h].left
         /\ local'[h].failed = local[h].failed
         /\ local'[h].message = local[h].message /\ local'[h].intent = local[h].intent
         /\ \/ /\ h \in Patches /\ step'[h] = "done" /\ reply'[h] = "200" /\ call'[h] = NoCall
               /\ local'[h].ran = row.override
            \/ \E o \in Outcomes(h) :
                 /\ h \in Sends /\ reply' = reply /\ local'[h].ran = local[h].ran
                 /\ local'[h].blind = (o.error # None) /\ call'[h].answer = None
                 /\ \/ /\ o.error = None /\ FreshSession(o.value)
                       /\ step'[h] = "history" /\ call'[h].on = None /\ call'[h].request = GetHistory
                    \/ /\ ~(o.error = None /\ FreshSession(o.value))
                       /\ step'[h] = "send" /\ call'[h].on = local[h].on
                       /\ call'[h].request = ChatSend(local[h].message, {})
<1>1. ChatTypes /\ local[h] \in Locals /\ Tables /\ h \in Handlers /\ row.override \in [Knobs -> Levels \cup {None}]
  BY Kinds DEF ChatBase, ChatTypes, Rows
<1>2. /\ step[h] = "describe"
      /\ UNCHANGED <<link, late, current, verboseFull, row, accepted, thread, alone, deleted>>
  BY DEF Described
<1>3. PICK o \in Outcomes(h) :
       \/ /\ h \in Patches
          /\ Replies(h, "200")
          /\ local' = [local EXCEPT ![h].ran = row.override]
       \/ /\ h \in Sends
          /\ local' = [local EXCEPT ![h].blind = (o.error # None)]
          /\ IF o.error = None /\ FreshSession(o.value)
               THEN Asks(h, "history", None, GetHistory)
               ELSE AsksChatSend(h, {})
  BY DEF Described
<1>4. CASE /\ h \in Patches
           /\ Replies(h, "200")
           /\ local' = [local EXCEPT ![h].ran = row.override]
  <2>1. [local[h] EXCEPT !.ran = row.override] \in Locals
    BY <1>1 DEF Locals
  <2>2. /\ local' \in [ChatHandlers -> Locals]
        /\ \A g \in ChatHandlers \ {h} : local'[g] = local[g]
        /\ local'[h] = [local[h] EXCEPT !.ran = row.override]
    BY <1>1, <1>4, <2>1 DEF ChatTypes
  <2>3. /\ local'[h].on = local[h].on /\ local'[h].left = local[h].left
        /\ local'[h].failed = local[h].failed
        /\ local'[h].message = local[h].message /\ local'[h].intent = local[h].intent
        /\ local'[h].ran = row.override
    BY <1>1, <2>2 DEF Locals
  <2>4. step'[h] = "done" /\ reply'[h] = "200" /\ call'[h] = NoCall
    BY <1>1, <1>4 DEF Replies, Tables
  <2> QED
    BY <1>2, <1>4, <2>2, <2>3, <2>4
<1>5. CASE /\ h \in Sends
           /\ local' = [local EXCEPT ![h].blind = (o.error # None)]
           /\ IF o.error = None /\ FreshSession(o.value)
                THEN Asks(h, "history", None, GetHistory)
                ELSE AsksChatSend(h, {})
  <2> DEFINE b == (o.error # None)
  <2>0. b \in BOOLEAN /\ local' = [local EXCEPT ![h].blind = b]
    BY <1>5
  <2>1. [local[h] EXCEPT !.blind = b] \in Locals
    BY <1>1, <2>0 DEF Locals
  <2>2. /\ local' \in [ChatHandlers -> Locals]
        /\ \A g \in ChatHandlers \ {h} : local'[g] = local[g]
        /\ local'[h] = [local[h] EXCEPT !.blind = b]
    BY <1>1, <2>0, <2>1 DEF ChatTypes
  <2>3. /\ local'[h].on = local[h].on /\ local'[h].left = local[h].left
        /\ local'[h].failed = local[h].failed
        /\ local'[h].message = local[h].message /\ local'[h].intent = local[h].intent
        /\ local'[h].ran = local[h].ran /\ local'[h].blind = b
    BY <1>1, <2>2 DEF Locals
  <2>4. /\ reply' = reply /\ call'[h].answer = None
        /\ \/ /\ o.error = None /\ FreshSession(o.value)
              /\ step'[h] = "history" /\ call'[h].on = None /\ call'[h].request = GetHistory
           \/ /\ ~(o.error = None /\ FreshSession(o.value))
              /\ step'[h] = "send" /\ call'[h].on = local[h].on
              /\ call'[h].request = ChatSend(local[h].message, {})
    BY <1>1, <1>5 DEF Asks, AsksChatSend, Tables
  <2> QED
    BY <1>2, <1>5, <2>2, <2>3, <2>4
<1> QED
  BY <1>3, <1>4, <1>5

LEMMA DescribedBase ==
  ASSUME ChatBase, NEW h \in ChatHandlers, Described(h)
  PROVE  ChatBase'
<1>1. ChatGoesOn(h) /\ OwnStep(h)
  BY ChatGoesOnAlone, Kinds DEF ChatGoesOn, ChatBase
<1>2. Stage(h) /\ Asking(h) /\ ChatTypes
  BY DEF ChatBase
<1>3. /\ step[h] = "describe" /\ step[h] \in Awaiting
      /\ UNCHANGED <<link, late, current, verboseFull, row, accepted, thread, alone, deleted>>
      /\ local' \in [ChatHandlers -> Locals]
      /\ \A g \in ChatHandlers \ {h} : local'[g] = local[g]
      /\ local'[h].on = local[h].on /\ local'[h].left = local[h].left
      /\ local'[h].message = local[h].message
  BY DescribedStep DEF Awaiting
<1>4. \/ h \in Patches /\ step'[h] = "done" /\ reply'[h] = "200" /\ call'[h] = NoCall
      \/ /\ h \in Sends /\ reply' = reply /\ local'[h].ran = local[h].ran
         /\ call'[h].answer = None
         /\ \/ step'[h] = "history" /\ call'[h].on = None /\ call'[h].request = GetHistory
            \/ /\ step'[h] = "send" /\ call'[h].on = local[h].on
               /\ call'[h].request = ChatSend(local[h].message, {})
  BY DescribedStep
<1>5. Stage(h)'
  BY <1>2, <1>3, <1>4, Kinds DEF Stage, Awaiting
<1>6. {} \in SUBSET Messages
  OBVIOUS
<1>7. Asking(h)'
  BY <1>2, <1>3, <1>4, <1>6 DEF Asking, Awaiting
<1>8. step'[h] \notin {"new", "acquire"}
  BY <1>4
<1> QED
  BY <1>1, <1>2, <1>3, <1>5, <1>7, <1>8, BaseOn DEF ChatTypes

(* The history is read, or is not.                                            *)
LEMMA HistoryStep ==
  ASSUME ChatBase, NEW h \in ChatHandlers, HistoryRead(h)
  PROVE  /\ step[h] = "history"
         /\ UNCHANGED <<link, late, current, verboseFull, row, accepted, thread, alone, deleted>>
         /\ local' \in [ChatHandlers -> Locals]
         /\ \A g \in ChatHandlers \ {h} : local'[g] = local[g]
         /\ local'[h].on = local[h].on /\ local'[h].left = local[h].left
         /\ local'[h].failed = local[h].failed /\ local'[h].ran = local[h].ran
         /\ local'[h].message = local[h].message /\ local'[h].intent = local[h].intent
         /\ step'[h] = "send" /\ reply' = reply
         /\ call'[h].on = local[h].on /\ call'[h].answer = None
         /\ \E o \in Outcomes(h) :
              /\ local'[h].blind = (o.error # None)
              /\ local'[h].cut = IF o.error = None THEN LeftOut(h, o.value) ELSE {}
              /\ call'[h].request = ChatSend(local[h].message, IF o.error = None THEN o.value ELSE {})
<1>1. ChatTypes /\ local[h] \in Locals /\ Tables /\ h \in Handlers
  BY Kinds DEF ChatBase, ChatTypes
<1>2. /\ step[h] = "history"
      /\ UNCHANGED <<link, late, current, verboseFull, row, accepted, thread, alone, deleted>>
  BY DEF HistoryRead
<1>3. PICK o \in Outcomes(h) :
        /\ AsksChatSend(h, IF o.error = None THEN o.value ELSE {})
        /\ local' = [local EXCEPT ![h].blind = (o.error # None),
               ![h].cut = IF o.error = None THEN LeftOut(h, o.value) ELSE {}]
  BY <1>2 DEF HistoryRead
<1> DEFINE b == (o.error # None)
           c == IF o.error = None THEN LeftOut(h, o.value) ELSE {}
           mine == [local[h] EXCEPT !.blind = b, !.cut = c]
<1>4. b \in BOOLEAN /\ c \in SUBSET Messages
  BY <1>1 DEF LeftOut, ChatTypes
<1>5. local' = [local EXCEPT ![h] = mine]
  BY <1>1, <1>3 DEF ChatTypes, Locals
<1> HIDE DEF b, c
<1>6. /\ mine \in Locals /\ mine.blind = b /\ mine.cut = c
      /\ mine.on = local[h].on /\ mine.left = local[h].left /\ mine.failed = local[h].failed
      /\ mine.message = local[h].message /\ mine.intent = local[h].intent
      /\ mine.ran = local[h].ran
  BY <1>1, <1>4 DEF Locals
<1> HIDE DEF mine
<1>7. /\ local' \in [ChatHandlers -> Locals]
      /\ \A g \in ChatHandlers \ {h} : local'[g] = local[g]
      /\ local'[h] = mine
  BY <1>1, <1>5, <1>6 DEF ChatTypes
<1>8. /\ step'[h] = "send" /\ reply' = reply
      /\ call'[h].on = local[h].on /\ call'[h].answer = None
      /\ call'[h].request = ChatSend(local[h].message, IF o.error = None THEN o.value ELSE {})
  BY <1>1, <1>3 DEF Asks, AsksChatSend, Tables
<1> QED
  BY <1>2, <1>6, <1>7, <1>8 DEF b, c

LEMMA HistoryReadBase ==
  ASSUME ChatBase, NEW h \in ChatHandlers, HistoryRead(h)
  PROVE  ChatBase'
<1>1. ChatGoesOn(h) /\ OwnStep(h)
  BY ChatGoesOnAlone, Kinds DEF ChatGoesOn, ChatBase
<1>2. Stage(h) /\ Asking(h) /\ ChatTypes
  BY DEF ChatBase
<1>3. /\ step[h] = "history" /\ step[h] \in Awaiting
      /\ UNCHANGED <<link, late, current, verboseFull, row, accepted, thread, alone, deleted>>
      /\ local' \in [ChatHandlers -> Locals]
      /\ \A g \in ChatHandlers \ {h} : local'[g] = local[g]
      /\ local'[h].on = local[h].on /\ local'[h].left = local[h].left /\ local'[h].ran = local[h].ran
      /\ local'[h].message = local[h].message
      /\ step'[h] = "send" /\ reply' = reply /\ call'[h].on = local[h].on
  BY HistoryStep DEF Awaiting
<1>4. PICK o \in Outcomes(h) :
        call'[h].request = ChatSend(local[h].message, IF o.error = None THEN o.value ELSE {})
  BY HistoryStep
<1>5. ASSUME o.error = None PROVE o.value \in SUBSET Messages
  <2>1. o = call[h].answer /\ call[h].answer # None
    BY <1>5, OutcomeIsAnswer
  <2>2. PICK v \in SUBSET Messages : call[h].answer = Ok(v)
    BY <1>2, <1>3, <2>1 DEF Asking
  <2> QED
    BY <2>1, <2>2 DEF Ok
<1>6. \E history \in SUBSET Messages : call'[h].request = ChatSend(local[h].message, history)
  BY <1>4, <1>5
<1>7. Stage(h)'
  BY <1>2, <1>3 DEF Stage, Awaiting
<1>8. Asking(h)'
  BY <1>2, <1>3, <1>6 DEF Asking, Awaiting
<1> QED
  BY <1>1, <1>2, <1>3, <1>7, <1>8, BaseOn DEF ChatTypes

(* The requests that end a handler, whatever comes of them.                   *)
LEMMA EndsBase ==
  ASSUME ChatBase, NEW h \in ChatHandlers, SendAcked(h) \/ ResetDone(h) \/ CompactDone(h)
  PROVE  ChatBase'
<1>1. ChatGoesOn(h) /\ OwnStep(h) /\ h \in Handlers
  BY ChatGoesOnAlone, Kinds DEF ChatGoesOn, ChatBase
<1>2. Stage(h) /\ Asking(h) /\ ChatTypes /\ Tables
  BY DEF ChatBase
<1>3. /\ step[h] \in Awaiting
      /\ UNCHANGED <<link, current, row, accepted, thread, local, alone>>
      /\ \E o : late' = LeftBehind(h, o)
      /\ Replies(h, "200") \/ Replies(h, "502")
  BY DEF SendAcked, ResetDone, CompactDone, Awaiting, chatVars
<1>4. /\ \A g \in ChatHandlers : verboseFull'[g] => verboseFull[g]
      /\ verboseFull' \in [ChatHandlers -> BOOLEAN]
      /\ deleted' \in SUBSET Messages
  BY <1>2 DEF SendAcked, ResetDone, CompactDone, ForgetsVerbose, ChatTypes, chatVars
<1>5. step'[h] = "done" /\ reply'[h] \in {"200", "502"} /\ call'[h] = NoCall
  BY <1>1, <1>2, <1>3 DEF Replies, Tables
<1>6. Stage(h)' /\ Asking(h)'
  BY <1>2, <1>3, <1>5 DEF Stage, Asking, Awaiting
<1> QED
  BY <1>1, <1>2, <1>3, <1>4, <1>5, <1>6, BaseOn DEF ChatTypes

LEMMA GoesOnBase ==
  ASSUME ChatBase, NEW h \in ChatHandlers, ChatGoesOn(h)
  PROVE  ChatBase'
BY AcquiresBase, VerboseAppliedBase, KnobAppliedBase, DescribedBase, HistoryReadBase, EndsBase
  DEF ChatGoesOn

-----------------------------------------------------------------------------
(* The gateway serves *)

(* What a request of h does to the session.                                   *)
LEMMA DoesCases ==
  ASSUME ChatTypes, NEW h \in ChatHandlers, NEW r, Asked(h, r), NEW undisturbed, Does(h, r, undisturbed)
  PROVE  \/ r = VerbosePatch /\ Unheard /\ row' = [row EXCEPT !.exists = TRUE, !.verbose = TRUE]
         \/ \E p \in KnobPatches :
              r = KnobPatch(p) /\ Unheard /\ row' = [row EXCEPT !.exists = TRUE, !.override[p.knob] = p.level]
         \/ h \in Resets /\ r = Reset /\ Unheard /\ row' = FreshRow(TRUE, h)
         \/ r.method \notin {"chat.send", "sessions.patch", "sessions.reset"} /\ Unheard /\ row' = row
         \/ /\ h \in Sends /\ local[h].message \in Messages
            /\ \E history \in SUBSET Messages :
                 /\ r = ChatSend(local[h].message, history)
                 /\ \/ local[h].message \in accepted /\ Unheard /\ row' = row
                    \/ /\ local[h].message \notin accepted
                       /\ Runs(h, local[h].message, history, undisturbed)
<1>1. CASE r = VerbosePatch
  BY <1>1 DEF Does, VerbosePatch
<1>2. ASSUME NEW p \in KnobPatches, r = KnobPatch(p)
      PROVE  Unheard /\ row' = [row EXCEPT !.exists = TRUE, !.override[p.knob] = p.level]
  BY <1>2 DEF Does, KnobPatch
<1>3. CASE h \in Resets /\ r = Reset
  BY <1>3 DEF Does, Reset
<1>4. CASE r \in {Describe, Compact}
  <2>1. r.method \in {"sessions.describe", "sessions.compact"}
    BY <1>4 DEF Describe, Compact
  <2>2. Unheard /\ row' = row
    BY <2>1 DEF Does
  <2> QED
    BY <2>1, <2>2
<1>5. CASE \E p \in KnobPatches : r = KnobPatch(p)
  BY <1>2, <1>5
<1>6. CASE /\ h \in Sends /\ local[h].message \in Messages
           /\ \E history \in SUBSET Messages : r = ChatSend(local[h].message, history)
  <2>1. PICK history \in SUBSET Messages : r = ChatSend(local[h].message, history)
    BY <1>6
  <2>2. \/ local[h].message \in accepted /\ Unheard /\ row' = row
        \/ /\ local[h].message \notin accepted
           /\ Runs(h, local[h].message, history, undisturbed)
    BY <2>1 DEF Does, ChatSend, Known
  <2> HIDE DEF Unheard
  <2> QED
    BY <1>6, <2>1, <2>2
<1>7. \/ r \in {VerbosePatch, Describe, Compact} \/ (\E p \in KnobPatches : r = KnobPatch(p))
      \/ (h \in Resets /\ r = Reset)
      \/ /\ h \in Sends /\ local[h].message \in Messages
         /\ \E history \in SUBSET Messages : r = ChatSend(local[h].message, history)
  BY DEF Asked
<1> QED
  BY <1>1, <1>3, <1>4, <1>5, <1>6, <1>7

(* A turn that runs, field by field.                                          *)
TurnRan(h, m, history, undisturbed) ==
  /\ accepted' = accepted \cup {m}
  /\ row' \in Rows
  /\ row'.exists /\ row'.systemSent
  /\ row'.verbose = row.verbose /\ row'.override = row.override /\ row'.made = row.made
  /\ \A n \in Messages :
       row'.context[n] = row.context[n] + IF n \in history \cup {m} THEN 1 ELSE 0
  /\ row'.whole => row.whole \/ (~row.systemSent /\ undisturbed = TRUE /\ ~local[h].blind)
  /\ row'.mixed = FALSE => row.mixed = FALSE /\ undisturbed = TRUE
  /\ row'.early = row.early \cup (history \ accepted)
  /\ row'.cut = row.cut \cup local[h].cut

LEMMA RunsSets ==
  ASSUME ChatTypes, NEW h \in ChatHandlers, NEW m \in Messages, NEW history \in SUBSET Messages,
         NEW undisturbed \in BOOLEAN, Runs(h, m, history, undisturbed)
  PROVE  TurnRan(h, m, history, undisturbed)
<1> DEFINE context == [n \in Messages |-> row.context[n] + IF n \in history \cup {m} THEN 1 ELSE 0]
           whole == row.whole \/ (~row.systemSent /\ undisturbed /\ ~local[h].blind)
           mixed == row.mixed \/ ~undisturbed
           early == row.early \cup (history \ accepted)
           cut == row.cut \cup local[h].cut
<1>1. /\ row \in Rows /\ row.context \in [Messages -> Nat] /\ local[h].blind \in BOOLEAN
      /\ local[h].cut \in SUBSET Messages
  BY DEF ChatTypes, Rows, Locals
<1>2. row' = [row EXCEPT !.exists = TRUE, !.systemSent = TRUE, !.context = context,
                         !.whole = whole, !.mixed = mixed, !.early = early, !.cut = cut]
  BY <1>1 DEF Runs, Rows
<1>3. /\ context \in [Messages -> Nat] /\ whole \in BOOLEAN /\ mixed \in BOOLEAN
      /\ early \in SUBSET Messages /\ cut \in SUBSET Messages
  BY <1>1 DEF Rows
<1>4. \A n \in Messages : context[n] = row.context[n] + IF n \in history \cup {m} THEN 1 ELSE 0
  OBVIOUS
<1>5. /\ whole => row.whole \/ (~row.systemSent /\ undisturbed = TRUE /\ ~local[h].blind)
      /\ mixed = FALSE => row.mixed = FALSE /\ undisturbed = TRUE
      /\ early = row.early \cup (history \ accepted) /\ cut = row.cut \cup local[h].cut
  BY <1>1 DEF Rows
<1> HIDE DEF context, whole, mixed, early, cut
<1>6. /\ row' \in Rows
      /\ row'.exists = TRUE /\ row'.systemSent = TRUE
      /\ row'.verbose = row.verbose /\ row'.override = row.override /\ row'.made = row.made
      /\ row'.context = context /\ row'.whole = whole /\ row'.mixed = mixed /\ row'.early = early
      /\ row'.cut = cut
  BY <1>1, <1>2, <1>3 DEF Rows
<1>7. accepted' = accepted \cup {m}
  BY DEF Runs
<1> QED
  BY <1>4, <1>5, <1>6, <1>7 DEF TurnRan

(* Of the locals it sets the overrides the turn runs with.                    *)
LEMMA RunsLocal ==
  ASSUME ChatTypes, NEW h \in ChatHandlers, NEW m, NEW history, NEW undisturbed,
         Runs(h, m, history, undisturbed)
  PROVE  /\ local' \in [ChatHandlers -> Locals]
         /\ \A g \in ChatHandlers \ {h} : local'[g] = local[g]
         /\ local'[h] = [local[h] EXCEPT !.ran = row.override]
         /\ local'[h].ran = row.override
<1>1. local[h] \in Locals /\ row.override \in [Knobs -> Levels \cup {None}]
  BY DEF ChatTypes, Rows
<1>2. [local[h] EXCEPT !.ran = row.override] \in Locals /\ [local[h] EXCEPT !.ran = row.override].ran = row.override
  BY <1>1 DEF Locals
<1>3. local' = [local EXCEPT ![h] = [local[h] EXCEPT !.ran = row.override]]
  BY <1>1 DEF Runs, ChatTypes, Locals
<1> QED
  BY <1>2, <1>3 DEF ChatTypes

Happened(h, r) == \E undisturbed \in BOOLEAN : Does(h, r, undisturbed)

(* Whatever is served for h, early or late: the types, and what else it keeps. *)
SessionKept(h, r) ==
  /\ row' \in Rows /\ accepted' \in SUBSET Messages /\ accepted \subseteq accepted'
  /\ local' \in [ChatHandlers -> Locals]
  /\ \A g \in ChatHandlers \ {h} : local'[g] = local[g]
  /\ \/ local'[h] = local[h]
     \/ h \in Sends /\ r.method = "chat.send" /\ local'[h] = [local[h] EXCEPT !.ran = row.override]
  /\ local'[h].on = local[h].on /\ local'[h].left = local[h].left
  /\ local'[h].message = local[h].message /\ local'[h].intent = local[h].intent
  /\ local'[h].failed = local[h].failed /\ local'[h].blind = local[h].blind
  /\ row'.made = row.made \/ (h \in Resets /\ row'.made = h)

LEMMA DoesKeeps ==
  ASSUME ChatTypes, NEW h \in ChatHandlers, NEW r, Asked(h, r), Happened(h, r)
  PROVE  SessionKept(h, r)
<1> PICK undisturbed \in BOOLEAN : Does(h, r, undisturbed)
  BY DEF Happened
<1>0. row \in Rows /\ local[h] \in Locals
  BY DEF ChatTypes
<1>1. CASE r = VerbosePatch /\ Unheard /\ row' = [row EXCEPT !.exists = TRUE, !.verbose = TRUE]
  <2>1. row' \in Rows /\ row'.made = row.made
    BY <1>0, <1>1 DEF Rows
  <2> QED
    BY <1>1, <2>1 DEF Unheard, ChatTypes, SessionKept
<1>2. ASSUME NEW p \in KnobPatches, Unheard,
             row' = [row EXCEPT !.exists = TRUE, !.override[p.knob] = p.level]
      PROVE  row' \in Rows /\ row'.made = row.made
  <2>1. p.knob \in Knobs /\ p.level \in Levels \cup {None}
    BY DEF KnobPatches
  <2> DEFINE o == [row.override EXCEPT ![p.knob] = p.level]
  <2>2. o \in [Knobs -> Levels \cup {None}]
    BY <1>0, <2>1 DEF Rows
  <2>3. row' = [row EXCEPT !.exists = TRUE, !.override = o]
    BY <1>0, <1>2 DEF Rows
  <2> HIDE DEF o
  <2> QED
    BY <1>0, <2>2, <2>3 DEF Rows
<1>3. CASE h \in Resets /\ r = Reset /\ Unheard /\ row' = FreshRow(TRUE, h)
  <2>1. row' \in Rows /\ row'.made = h
    BY <1>3 DEF FreshRow, Rows, Inherited
  <2> QED
    BY <1>3, <2>1 DEF Unheard, ChatTypes, SessionKept
<1>4. CASE Unheard /\ row' = row
  BY <1>0, <1>4 DEF Unheard, ChatTypes, SessionKept
<1>5. ASSUME h \in Sends, local[h].message \in Messages, NEW history \in SUBSET Messages,
             r = ChatSend(local[h].message, history),
             Runs(h, local[h].message, history, undisturbed)
      PROVE  /\ row' \in Rows /\ accepted' \in SUBSET Messages /\ accepted \subseteq accepted'
             /\ local' \in [ChatHandlers -> Locals]
             /\ \A g \in ChatHandlers \ {h} : local'[g] = local[g]
             /\ r.method = "chat.send" /\ local'[h] = [local[h] EXCEPT !.ran = row.override]
             /\ row'.made = row.made
             /\ local'[h].on = local[h].on /\ local'[h].left = local[h].left
             /\ local'[h].message = local[h].message /\ local'[h].intent = local[h].intent
             /\ local'[h].failed = local[h].failed /\ local'[h].blind = local[h].blind
  <2>0. PICK m \in Messages : m = local[h].message
    BY <1>5
  <2>00. Runs(h, m, history, undisturbed)
    BY <1>5, <2>0
  <2>01. TurnRan(h, m, history, undisturbed)
    BY <2>00, RunsSets
  <2>1. row' \in Rows /\ row'.made = row.made /\ accepted' = accepted \cup {m}
    BY <2>01 DEF TurnRan
  <2>2. /\ local' \in [ChatHandlers -> Locals]
        /\ \A g \in ChatHandlers \ {h} : local'[g] = local[g]
        /\ local'[h] = [local[h] EXCEPT !.ran = row.override]
    BY <2>00, RunsLocal
  <2>3. /\ local'[h].on = local[h].on /\ local'[h].left = local[h].left
        /\ local'[h].message = local[h].message /\ local'[h].intent = local[h].intent
        /\ local'[h].failed = local[h].failed /\ local'[h].blind = local[h].blind
    BY <1>0, <2>2 DEF Locals
  <2>4. r.method = "chat.send"
    BY <1>5 DEF ChatSend
  <2>5. accepted' \in SUBSET Messages
    BY <1>5, <2>1 DEF ChatTypes
  <2> QED
    BY <2>1, <2>2, <2>3, <2>4, <2>5
<1>6. CASE \E p \in KnobPatches :
              Unheard /\ row' = [row EXCEPT !.exists = TRUE, !.override[p.knob] = p.level]
  <2>1. row' \in Rows /\ row'.made = row.made /\ Unheard
    BY <1>2, <1>6
  <2> QED
    BY <2>1 DEF Unheard, ChatTypes, SessionKept
<1>7. CASE /\ h \in Sends /\ local[h].message \in Messages
           /\ \E history \in SUBSET Messages :
                /\ r = ChatSend(local[h].message, history)
                /\ Runs(h, local[h].message, history, undisturbed)
  <2>1. PICK history \in SUBSET Messages :
                /\ r = ChatSend(local[h].message, history)
                /\ Runs(h, local[h].message, history, undisturbed)
    BY <1>7
  <2> QED
    BY <1>5, <1>7, <2>1 DEF SessionKept
<1> HIDE DEF Unheard
<1>8. \/ r = VerbosePatch /\ Unheard /\ row' = [row EXCEPT !.exists = TRUE, !.verbose = TRUE]
      \/ \E p \in KnobPatches :
           Unheard /\ row' = [row EXCEPT !.exists = TRUE, !.override[p.knob] = p.level]
      \/ h \in Resets /\ r = Reset /\ Unheard /\ row' = FreshRow(TRUE, h)
      \/ Unheard /\ row' = row
      \/ /\ h \in Sends /\ local[h].message \in Messages
         /\ \E history \in SUBSET Messages :
              /\ r = ChatSend(local[h].message, history)
              /\ Runs(h, local[h].message, history, undisturbed)
  BY DoesCases
<1> QED
  BY <1>1, <1>3, <1>4, <1>6, <1>7, <1>8

(* A request of h is served, while it is awaited or after.                    *)
LEMMA BaseServed ==
  ASSUME ChatBase, NEW h \in ChatHandlers, NEW r, Asked(h, r), Happened(h, r),
         r.method = "chat.send" => step[h] \in {"send", "done"},
         reply[h] # "none", Tables',
         UNCHANGED <<link, step, reply, current, verboseFull, thread, deleted>>,
         late' \subseteq late, alone' \subseteq alone,
         \A g \in ChatHandlers \ {h} : call'[g] = call[g],
         \/ call'[h] = call[h]
         \/ /\ step[h] \in Awaiting \ {"history"}
            /\ call'[h].on = call[h].on /\ call'[h].request = call[h].request
            /\ Shaped(call'[h])
  PROVE  ChatBase'
<1>1. /\ row' \in Rows /\ accepted' \in SUBSET Messages
      /\ local' \in [ChatHandlers -> Locals]
      /\ \A g \in ChatHandlers \ {h} : local'[g] = local[g]
      /\ local'[h] = local[h] \/ (h \in Sends /\ r.method = "chat.send")
      /\ local'[h].on = local[h].on /\ local'[h].left = local[h].left
      /\ local'[h].message = local[h].message
      /\ row'.made = row.made \/ (h \in Resets /\ row'.made = h)
  <2>1. ChatTypes
    BY DEF ChatBase
  <2> QED
    BY <2>1, DoesKeeps DEF SessionKept
<1>2. ChatTypes'
  BY <1>1 DEF ChatBase, ChatTypes
<1>3. \A g \in ChatHandlers : Stage(g) /\ Asking(g) /\ Linked(g)
  BY DEF ChatBase
<1>4. \A g \in ChatHandlers \ {h} : Stage(g)' /\ Asking(g)'
  BY <1>1, <1>3 DEF Stage, Asking
<1>5. Stage(h)'
  <2>1. step[h] \in Awaiting \/ call'[h] = call[h]
    OBVIOUS
  <2>2. step[h] # "new"
    BY <1>3 DEF Stage
  <2> QED
    BY <1>1, <1>3, <2>1, <2>2 DEF Stage, Awaiting
<1>6. Asking(h)'
  <2>1. /\ call'[h].on = call[h].on /\ call'[h].request = call[h].request
        /\ step[h] = "history" => call'[h] = call[h]
    OBVIOUS
  <2> QED
    BY <1>1, <1>3, <2>1 DEF Asking
<1>7. \A g \in ChatHandlers : Linked(g)'
  BY <1>3 DEF Linked
<1>8. \A g, q : Asked(g, q) => Asked(g, q)'
  BY <1>1, Kinds DEF Asked
<1>9. \A l \in late' : l.by \in ChatHandlers => Left(l)'
  BY <1>8 DEF ChatBase, Left
<1>10. Pending' = Pending /\ AloneStands'
  BY DEF Pending, ChatBase, AloneStands
<1>11. row'.made # None => reply'[row'.made] # "none"
  BY <1>1 DEF ChatBase
<1> QED
  BY <1>2, <1>4, <1>5, <1>6, <1>7, <1>9, <1>10, <1>11 DEF ChatBase

(* The call that is served, and what it may have been.                        *)
LEMMA ChatServesStep ==
  ASSUME ChatBase, NEW h \in ChatHandlers, ChatServes(h)
  PROVE  /\ UNCHANGED <<up, link, late, step, reply, current, verboseFull, thread, alone, deleted>>
         /\ call[h].answer = None /\ call[h].on # None /\ step[h] \in Awaiting \ {"history"}
         /\ reply[h] = "pending" /\ Asked(h, call[h].request)
         /\ Does(h, call[h].request, h \in alone)
         /\ \A g \in Handlers \ {h} : call'[g] = call[g]
         /\ call'[h].on = call[h].on /\ call'[h].request = call[h].request
         /\ Shaped(call'[h])
         /\ call'[h].answer = Ok(IF call[h].request = Describe
                                   THEN [exists |-> row.exists, systemSent |-> row.systemSent]
                                   ELSE None)
<1>1. /\ UNCHANGED <<up, link, late, step, reply, current, verboseFull, thread, alone, deleted>>
      /\ call[h].answer = None /\ call[h].on # None
      /\ Does(h, call[h].request, h \in alone)
  BY DEF ChatServes, Servable
<1>2. step[h] \in Awaiting /\ reply[h] = "pending" /\ Asked(h, call[h].request)
  BY <1>1, AskingIsAsked
<1>3. step[h] # "history"
  BY <1>1, <1>2 DEF ChatBase, Asking
<1> DEFINE v == Ok(IF call[h].request = Describe
                     THEN [exists |-> row.exists, systemSent |-> row.systemSent]
                     ELSE None)
<1>4. call' = [call EXCEPT ![h].answer = v]
  BY DEF ChatServes, Served
<1> HIDE DEF v
<1>5. /\ \A g \in Handlers \ {h} : call'[g] = call[g]
      /\ call'[h] = [call[h] EXCEPT !.answer = v]
  BY <1>4, Kinds DEF ChatBase, Tables
<1>6. call'[h] = [on |-> call[h].on, request |-> call[h].request, answer |-> v]
  BY <1>5 DEF ChatBase, Shaped
<1>7. /\ call'[h].on = call[h].on /\ call'[h].request = call[h].request /\ call'[h].answer = v
      /\ Shaped(call'[h])
  BY <1>6 DEF Shaped
<1> QED
  BY <1>1, <1>2, <1>3, <1>5, <1>7 DEF v

LEMMA ChatServesBase ==
  ASSUME ChatBase, NEW h \in ChatHandlers, ChatServes(h)
  PROVE  ChatBase'
<1>1. /\ UNCHANGED <<link, late, step, reply, current, verboseFull, thread, alone, deleted>>
      /\ step[h] \in Awaiting \ {"history"} /\ reply[h] = "pending" /\ Asked(h, call[h].request)
      /\ Does(h, call[h].request, h \in alone)
      /\ \A g \in Handlers \ {h} : call'[g] = call[g]
      /\ call'[h].on = call[h].on /\ call'[h].request = call[h].request /\ Shaped(call'[h])
  BY ChatServesStep
<1>2. Happened(h, call[h].request)
  <2> SUFFICES \E undisturbed \in BOOLEAN : Does(h, call[h].request, undisturbed)
    BY DEF Happened
  <2> WITNESS (h \in alone) \in BOOLEAN
  <2> QED
    BY <1>1
<1>3. Tables'
  BY ChatServesOne, Kinds DEF ChatBase, Service
<1>4. call[h].request.method = "chat.send" => step[h] = "send"
  BY <1>1, AskedMethod
<1>5. \A g \in ChatHandlers \ {h} : call'[g] = call[g]
  BY <1>1, Kinds
<1> QED
  BY <1>1, <1>2, <1>3, <1>4, <1>5, BaseServed

LEMMA ServedLateBase ==
  ASSUME ChatBase, NEW l \in late, l.by \in ChatHandlers, ChatServedLate(l)
  PROVE  ChatBase'
<1>1. /\ UNCHANGED <<link, call, step, reply, current, verboseFull, thread, deleted>>
      /\ late' \subseteq late /\ alone' \subseteq alone
      /\ Does(l.by, l.request, FALSE)
  BY DEF ChatServedLate
<1>2. Left(l)
  BY DEF ChatBase
<1>3. Happened(l.by, l.request)
  BY <1>1 DEF Happened
<1>4. Tables'
  BY <1>1 DEF ChatBase, Tables
<1>5. PICK h \in ChatHandlers : h = l.by
  OBVIOUS
<1> QED
  BY <1>1, <1>2, <1>3, <1>4, <1>5, BaseServed DEF Left

(* What a turn of h must bring: what the gateway took of the thread.           *)
Prior(h) == (thread \cap accepted) \ {local[h].message}

(* A history that brings it, or has no room for more.                         *)
Brings(h, history) == Prior(h) \subseteq history \/ ~(Cardinality(history) < HistoryBlock)

(* The block of Convex does.                                                  *)
LEMMA BlockBrings ==
  ASSUME NEW h, NEW turns \in PriorTurns(h), NEW block \in Blocks(turns)
  PROVE  block \subseteq thread /\ Brings(h, block)
<1>1. turns \subseteq thread /\ Prior(h) \subseteq turns
  BY DEF PriorTurns, Prior
<1>2. block = turns \/ (block \subseteq turns /\ Cardinality(block) = HistoryBlock)
  BY DEF Blocks
<1>3. ~(HistoryBlock < HistoryBlock)
  BY ChatRoutesAssumption
<1> QED
  BY <1>1, <1>2, <1>3 DEF Brings

(* And the turn knows what a full one had no room for.                        *)
LEMMA BringsOrCuts ==
  ASSUME NEW h, NEW history, Brings(h, history)
  PROVE  Prior(h) \subseteq history \cup LeftOut(h, history)
BY DEF Brings, Prior, LeftOut

LEMMA HistoryServedStep ==
  ASSUME ChatBase, NEW h \in ChatHandlers, HistoryServed(h)
  PROVE  /\ UNCHANGED <<link, late, step, reply, chatVars>>
         /\ step[h] = "history" /\ reply[h] = "pending" /\ call[h].answer = None
         /\ \A g \in Handlers \ {h} : call'[g] = call[g]
         /\ call'[h].on = call[h].on /\ call'[h].request = call[h].request /\ Shaped(call'[h])
         /\ \E history \in SUBSET thread : call'[h].answer = Ok(history) /\ Brings(h, history)
<1>1. /\ UNCHANGED <<link, late, step, reply, chatVars>>
      /\ call[h].answer = None /\ call[h].request = GetHistory /\ call[h].request # None
  BY DEF HistoryServed, Servable
<1>2. Stage(h) /\ Asking(h)
  BY DEF ChatBase
<1>3. step[h] = "history"
  <2>1. step[h] \in Awaiting
    BY <1>1, <1>2 DEF Stage, NoCall, Awaiting
  <2>2. call[h].request.method = "getRehydrationContext"
    BY <1>1 DEF GetHistory
  <2>3. ASSUME step[h] = "send" PROVE FALSE
    <3>1. PICK history \in SUBSET Messages : call[h].request = ChatSend(local[h].message, history)
      BY <1>2, <2>3 DEF Asking
    <3>2. call[h].request.method = "chat.send"
      BY <3>1 DEF ChatSend
    <3> QED
      BY <2>2, <3>2
  <2> QED
    BY <1>2, <2>1, <2>2, <2>3 DEF Asking, Awaiting, VerbosePatch, KnobPatch, Describe, Reset, Compact
<1>4. reply[h] = "pending"
  BY <1>2, <1>3 DEF Stage
<1>10. PICK turns \in PriorTurns(h) :
         \E block \in Blocks(turns) : call' = [call EXCEPT ![h].answer = Ok(block)]
  BY DEF HistoryServed, Served
<1>5. PICK history \in Blocks(turns) : call' = [call EXCEPT ![h].answer = Ok(history)]
  BY <1>10
<1>11. history \in SUBSET thread /\ Brings(h, history)
  BY BlockBrings
<1> DEFINE v == Ok(history)
<1>6. call' = [call EXCEPT ![h].answer = v]
  BY <1>5
<1> HIDE DEF v
<1>7. /\ \A g \in Handlers \ {h} : call'[g] = call[g]
      /\ call'[h] = [call[h] EXCEPT !.answer = v]
  BY <1>6, Kinds DEF ChatBase, Tables
<1>8. call'[h] = [on |-> call[h].on, request |-> call[h].request, answer |-> v]
  BY <1>7 DEF ChatBase, Shaped
<1>9. /\ call'[h].on = call[h].on /\ call'[h].request = call[h].request /\ call'[h].answer = v
      /\ Shaped(call'[h])
  BY <1>8 DEF Shaped
<1> QED
  BY <1>1, <1>3, <1>4, <1>7, <1>9, <1>11 DEF v

LEMMA HistoryServedBase ==
  ASSUME ChatBase, NEW h \in ChatHandlers, HistoryServed(h)
  PROVE  ChatBase'
<1>1. /\ UNCHANGED <<link, late, step, reply>> /\ UNCHANGED chatVars
      /\ step[h] = "history"
      /\ \A g \in Handlers \ {h} : call'[g] = call[g]
      /\ call'[h].on = call[h].on /\ call'[h].request = call[h].request /\ Shaped(call'[h])
  BY HistoryServedStep
<1>2. PICK history \in SUBSET Messages : call'[h].answer = Ok(history)
  <2>1. PICK history \in SUBSET thread : call'[h].answer = Ok(history)
    BY HistoryServedStep
  <2>2. history \in SUBSET Messages
    BY DEF ChatBase, ChatTypes
  <2> QED
    BY <2>1, <2>2
<1>3. Tables' /\ ChatTypes'
  BY <1>1, ChatServesOne, Kinds DEF ChatBase, Service, ChatTypes, chatVars
<1>4. \A g \in ChatHandlers \ {h} : call'[g] = call[g]
  BY <1>1, Kinds
<1>5. \A g \in ChatHandlers : Stage(g) /\ Asking(g) /\ Linked(g) /\ Shaped(call[g])
  BY DEF ChatBase
<1>6. \A g \in ChatHandlers : Linked(g)' /\ Shaped(call'[g])
  BY <1>1, <1>4, <1>5 DEF Linked, chatVars
<1>7. \A g \in ChatHandlers \ {h} : Stage(g)' /\ Asking(g)'
  BY <1>1, <1>4, <1>5 DEF Stage, Asking, chatVars
<1>8. Stage(h)' /\ Asking(h)'
  BY <1>1, <1>2, <1>5 DEF Stage, Asking, chatVars, Awaiting
<1>9. \A l \in late : l.by \in ChatHandlers /\ Left(l) => Left(l)'
  BY <1>1 DEF Left, Asked, chatVars
<1>10. Pending' = Pending /\ AloneStands'
  BY <1>1 DEF Pending, ChatBase, AloneStands, chatVars
<1> QED
  BY <1>1, <1>3, <1>6, <1>7, <1>8, <1>9, <1>10 DEF ChatBase, chatVars

-----------------------------------------------------------------------------
(* What comes from outside *)

LEMMA RowRolls ==
  ASSUME NEW exists \in BOOLEAN, NEW by \in Resets \cup {None}
  PROVE  /\ FreshRow(exists, by) \in Rows
         /\ FreshRow(exists, by).made = by /\ FreshRow(exists, by).exists = exists
         /\ ~FreshRow(exists, by).systemSent /\ ~FreshRow(exists, by).whole
         /\ FreshRow(exists, by).context = [m \in Messages |-> 0]
         /\ FreshRow(exists, by).early = {} /\ ~FreshRow(exists, by).mixed
BY DEF FreshRow, Rows, Inherited

(* The session rolls, or a message is deleted: nobody pending is alone then.   *)
LEMMA OutsideBase ==
  ASSUME ChatBase, Rolls \/ \E m \in Messages : Deletes(m)
  PROVE  ChatBase'
<1>1. /\ UNCHANGED <<call, late, step, reply, link, current, verboseFull, accepted, local, deleted>>
      /\ alone' = alone \ Pending /\ thread' \subseteq thread
      /\ row' = row \/ \E exists \in BOOLEAN : row' = FreshRow(exists, None)
  BY DEF Rolls, Deletes, callVars
<1>2. ChatTypes' /\ (row'.made # None => row'.made = row.made)
  BY <1>1, RowRolls DEF ChatBase, ChatTypes
<1>3. \A h \in ChatHandlers : Stage(h)' /\ Asking(h)' /\ Linked(h)' /\ Shaped(call'[h])
  BY <1>1 DEF ChatBase, Stage, Asking, Linked
<1>4. \A l \in late : l.by \in ChatHandlers /\ Left(l) => Left(l)'
  BY <1>1 DEF Left, Asked
<1>5. Pending' = Pending
  BY <1>1 DEF Pending
<1> QED
  BY <1>1, <1>2, <1>3, <1>4, <1>5 DEF ChatBase, AloneStands, Tables

-----------------------------------------------------------------------------
(* The patches of an intent *)

(* t starts with the clears, and goes on with what is set of the knobs ks.      *)
Laid(t, clears, sets, ks) ==
  /\ t \in Seq(KnobPatches) /\ Len(clears) <= Len(t)
  /\ \A i \in 1 .. Len(clears) : t[i] = [knob |-> clears[i], level |-> None]
  /\ \A i \in 1 .. Len(t) : i > Len(clears) => t[i].level # None /\ t[i].level = sets[t[i].knob]
  /\ \A k \in ks : sets[k] # None =>
       \E i \in 1 .. Len(t) : i > Len(clears) /\ t[i] = [knob |-> k, level |-> sets[k]]

LEMMA LaidClears ==
  ASSUME NEW clears \in Seq(Knobs), NEW sets
  PROVE  Laid(Clearings(clears), clears, sets, {})
<1>1. Len(clears) \in Nat /\ DOMAIN clears = 1 .. Len(clears) /\ \A i \in 1 .. Len(clears) : clears[i] \in Knobs
  OBVIOUS
<1>2. Clearings(clears) = [i \in 1 .. Len(clears) |-> [knob |-> clears[i], level |-> None]]
  BY <1>1 DEF Clearings
<1>3. \A i \in 1 .. Len(clears) : [knob |-> clears[i], level |-> None] \in KnobPatches
  BY <1>1 DEF KnobPatches
<1>4. /\ Clearings(clears) \in Seq(KnobPatches) /\ Len(Clearings(clears)) = Len(clears)
      /\ \A i \in 1 .. Len(clears) : Clearings(clears)[i] = [knob |-> clears[i], level |-> None]
  BY <1>1, <1>2, <1>3
<1> QED
  BY <1>1, <1>4 DEF Laid

LEMMA LaidOn ==
  ASSUME NEW t, NEW clears \in Seq(Knobs), NEW sets \in [Knobs -> Levels \cup {None}], NEW ks,
         Laid(t, clears, sets, ks), NEW k \in Knobs
  PROVE  Laid(t \o SettingOf(k, sets[k]), clears, sets, ks \cup {k})
<1>1. t \in Seq(KnobPatches) /\ Len(t) \in Nat /\ Len(clears) \in Nat
  BY DEF Laid
<1>2. CASE sets[k] = None
  <2>1. t \o SettingOf(k, sets[k]) = t
    BY <1>1, <1>2 DEF SettingOf
  <2> QED
    BY <1>2, <2>1 DEF Laid
<1>3. CASE sets[k] # None
  <2> DEFINE p == [knob |-> k, level |-> sets[k]]
  <2>1. p \in KnobPatches /\ p.knob = k /\ p.level = sets[k]
    BY DEF KnobPatches
  <2>2. t \o SettingOf(k, sets[k]) = t \o <<p>>
    BY <1>3 DEF SettingOf
  <2> HIDE DEF p
  <2> DEFINE u == t \o <<p>>
  <2>3. u \in Seq(KnobPatches) /\ Len(u) = Len(t) + 1 /\ u[Len(t) + 1] = p
    BY <1>1, <2>1
  <2>4. \A i \in 1 .. Len(t) : u[i] = t[i]
    BY <1>1, <2>1
  <2> HIDE DEF u
  <2>5. 1 .. Len(u) = (1 .. Len(t)) \cup {Len(t) + 1}
    BY <1>1, <2>3
  <2>6. Len(clears) <= Len(u) /\ \A i \in 1 .. Len(clears) : u[i] = [knob |-> clears[i], level |-> None]
    BY <1>1, <2>3, <2>4 DEF Laid
  <2>7. \A i \in 1 .. Len(u) : i > Len(clears) => u[i].level # None /\ u[i].level = sets[u[i].knob]
    BY <1>3, <2>1, <2>3, <2>4, <2>5 DEF Laid
  <2>8. ASSUME NEW q \in ks \cup {k}, sets[q] # None
        PROVE  \E i \in 1 .. Len(u) : i > Len(clears) /\ u[i] = [knob |-> q, level |-> sets[q]]
    <3>1. CASE q = k
      BY <1>1, <2>3, <2>5, <3>1 DEF p, Laid
    <3>2. CASE q \in ks
      <4>1. PICK i \in 1 .. Len(t) : i > Len(clears) /\ t[i] = [knob |-> q, level |-> sets[q]]
        BY <2>8, <3>2 DEF Laid
      <4> QED
        BY <2>4, <2>5, <4>1
    <3> QED
      BY <3>1, <3>2
  <2> QED
    BY <2>2, <2>3, <2>6, <2>7, <2>8 DEF Laid, u
<1> QED
  BY <1>2, <1>3

LEMMA PatchesLaid ==
  ASSUME NEW settings \in Settings
  PROVE  Laid(PatchesOf(settings), settings.clears, settings.sets, Knobs)
<1> DEFINE clears == settings.clears
           sets == settings.sets
           t0 == Clearings(clears)
           t1 == t0 \o SettingOf("thinkingLevel", sets["thinkingLevel"])
           t2 == t1 \o SettingOf("model", sets["model"])
           t3 == t2 \o SettingOf("fastMode", sets["fastMode"])
<1>1. clears \in Seq(Knobs) /\ sets \in [Knobs -> Levels \cup {None}]
  BY DEF Settings
<1>2. "thinkingLevel" \in Knobs /\ "model" \in Knobs /\ "fastMode" \in Knobs
  BY DEF Knobs
<1>3. PatchesOf(settings) = t3
  BY DEF PatchesOf
<1> HIDE DEF clears, sets
<1>4. Laid(t0, clears, sets, {})
  BY <1>1, LaidClears
<1> HIDE DEF t0
<1>5. Laid(t1, clears, sets, {} \cup {"thinkingLevel"})
  BY <1>1, <1>2, <1>4, LaidOn
<1> HIDE DEF t1
<1>6. Laid(t2, clears, sets, ({} \cup {"thinkingLevel"}) \cup {"model"})
  BY <1>1, <1>2, <1>5, LaidOn
<1> HIDE DEF t2
<1>7. Laid(t3, clears, sets, (({} \cup {"thinkingLevel"}) \cup {"model"}) \cup {"fastMode"})
  BY <1>1, <1>2, <1>6, LaidOn
<1>8. Knobs = (({} \cup {"thinkingLevel"}) \cup {"model"}) \cup {"fastMode"}
  BY DEF Knobs
<1> HIDE DEF t3
<1>9. Laid(t3, clears, sets, Knobs)
  BY <1>7, <1>8
<1> QED
  BY <1>3, <1>9 DEF clears, sets

-----------------------------------------------------------------------------
(* A request comes *)

LEMMA ArrivesStep ==
  ASSUME ChatBase, NEW h \in ChatHandlers, NEW message \in Messages \cup {None},
         NEW settings \in Settings, ChatArrives(h, message, settings)
  PROVE  /\ UNCHANGED <<link, call, late, current, verboseFull, row, accepted, deleted>>
         /\ Tables' /\ Untouched(Handlers \ {h})
         /\ step[h] = "new" /\ reply[h] = "none" /\ reply'[h] = "pending" /\ step'[h] = "acquire"
         /\ local' \in [ChatHandlers -> Locals]
         /\ \A g \in ChatHandlers \ {h} : local'[g] = local[g]
         /\ local'[h].message = message /\ local'[h].intent = settings
         /\ local'[h].left = PatchesOf(settings)
         /\ local'[h].on = None /\ ~local'[h].failed /\ local'[h].ran = None
         /\ alone' = IF Pending = {} THEN alone \cup {h} ELSE alone \ Pending
<1>1. /\ UNCHANGED <<link, call, late, current, verboseFull, row, accepted, deleted>>
      /\ Arrives(h, "acquire")
      /\ local' = [local EXCEPT ![h].message = message,
                                ![h].intent = settings, ![h].left = PatchesOf(settings)]
      /\ alone' = IF Pending = {} THEN alone \cup {h} ELSE alone \ Pending
  BY DEF ChatArrives
<1>2. /\ Tables' /\ Untouched(Handlers \ {h})
      /\ reply[h] = "none" /\ reply'[h] = "pending" /\ step'[h] = "acquire"
  BY <1>1, ArrivesAlone, Kinds DEF ChatBase
<1>3. step[h] = "new" /\ local[h] = NoLocals /\ local[h] \in Locals
  BY <1>2 DEF ChatBase, Stage, ChatTypes
<1> DEFINE left == PatchesOf(settings)
<1>4. left \in Seq(KnobPatches)
  BY PatchesLaid DEF Laid
<1>5. local' = [local EXCEPT ![h].message = message, ![h].intent = settings, ![h].left = left]
  BY <1>1
<1> HIDE DEF left
<1> DEFINE l == [local[h] EXCEPT !.message = message, !.intent = settings, !.left = left]
<1>6. local' = [local EXCEPT ![h] = l]
  BY <1>3, <1>5 DEF ChatBase, ChatTypes, Locals
<1>7. /\ l \in Locals /\ l.message = message /\ l.intent = settings /\ l.left = left
      /\ l.on = local[h].on /\ l.failed = local[h].failed /\ l.ran = local[h].ran
  BY <1>3, <1>4 DEF Locals
<1>8. local[h].on = None /\ ~local[h].failed /\ local[h].ran = None
  BY <1>3 DEF NoLocals
<1> HIDE DEF l
<1>9. /\ local' \in [ChatHandlers -> Locals] /\ local'[h] = l
      /\ \A g \in ChatHandlers \ {h} : local'[g] = local[g]
  BY <1>6, <1>7 DEF ChatBase, ChatTypes
<1> QED
  BY <1>1, <1>2, <1>3, <1>7, <1>8, <1>9 DEF left

LEMMA ArrivesBase ==
  ASSUME ChatBase, NEW h \in ChatHandlers, NEW message \in Messages \cup {None},
         NEW settings \in Settings, ChatArrives(h, message, settings),
         thread' \in SUBSET Messages, h \in Sends => message \in Messages
  PROVE  ChatBase'
<1>1. /\ UNCHANGED <<link, call, late, current, verboseFull, row, accepted, deleted>>
      /\ Tables' /\ Untouched(Handlers \ {h})
      /\ step[h] = "new" /\ reply[h] = "none" /\ reply'[h] = "pending" /\ step'[h] = "acquire"
      /\ local' \in [ChatHandlers -> Locals]
      /\ \A g \in ChatHandlers \ {h} : local'[g] = local[g]
      /\ local'[h].message = message
      /\ local'[h].on = None /\ ~local'[h].failed /\ local'[h].ran = None
      /\ alone' = IF Pending = {} THEN alone \cup {h} ELSE alone \ Pending
  BY ArrivesStep
<1>2. \A g \in ChatHandlers \ {h} : call'[g] = call[g] /\ step'[g] = step[g] /\ reply'[g] = reply[g]
  BY <1>1, Kinds DEF Untouched
<1>3. \A g \in ChatHandlers : Stage(g) /\ Asking(g) /\ Linked(g) /\ Shaped(call[g])
  BY DEF ChatBase
<1>4. ChatTypes'
  BY <1>1 DEF ChatBase, ChatTypes
<1>5. \A g \in ChatHandlers \ {h} : Stage(g)' /\ Asking(g)' /\ Linked(g)'
  BY <1>1, <1>2, <1>3 DEF Stage, Asking, Linked
<1>6. Stage(h)'
  BY <1>1, <1>3 DEF Stage, Awaiting
<1>7. Asking(h)' /\ Linked(h)'
  BY <1>1, <1>3 DEF Asking, Linked, Awaiting
<1>8. ASSUME NEW l \in late, l.by \in ChatHandlers PROVE Left(l)'
  <2>1. Left(l) /\ l.by # h
    BY <1>1, <1>8 DEF ChatBase, Left
  <2> QED
    BY <1>1, <1>2, <1>8, <2>1 DEF Left, Asked
<1>9. Pending' = Pending \cup {h}
  BY <1>1, <1>2 DEF Pending
<1>10. \A g \in alone : reply[g] # "none" /\ g # h /\ g \in ChatHandlers
  BY <1>1 DEF ChatBase, AloneStands, ChatTypes
<1>11. AloneStands'
  <2>1. CASE Pending = {}
    BY <1>1, <1>2, <1>9, <1>10, <2>1 DEF AloneStands, Pending
  <2>2. CASE Pending # {}
    BY <1>1, <1>2, <1>10, <2>2 DEF AloneStands, Pending
  <2> QED
    BY <2>1, <2>2
<1>12. row'.made # None => reply'[row'.made] # "none"
  BY <1>1, <1>2 DEF ChatBase, ChatTypes, Rows, ChatHandlers
<1> QED
  BY <1>1, <1>3, <1>4, <1>5, <1>6, <1>7, <1>8, <1>11, <1>12 DEF ChatBase

(* The arrivals, by what they bring.                                          *)
LEMMA ArrivalsAre ==
  ASSUME ChatArrivals
  PROVE  \E h \in ChatHandlers, message \in Messages \cup {None}, settings \in Settings :
           /\ ChatArrives(h, message, settings)
           /\ \/ /\ h \in Sends /\ message \in Messages /\ thread' = thread \cup {message}
                 /\ message \notin thread => \A g \in Sends : local[g].message # message
              \/ h \notin Sends /\ message = None /\ thread' = thread
<1>1. Intents \subseteq Settings
  BY ChatRoutesAssumption
<1>2. NoSettings \in Settings
  <2>1. Inherited \in [Knobs -> Levels \cup {None}] /\ <<>> \in Seq(Knobs)
    BY DEF Inherited
  <2> QED
    BY <2>1 DEF NoSettings, Settings
<1>3. ASSUME NEW h \in Sends, SendArrives(h)
      PROVE  \E m \in Messages, i \in Intents :
               /\ ChatArrives(h, m, i) /\ thread' = thread \cup {m}
               /\ m \notin thread => \A g \in Sends : local[g].message # m
  BY <1>3 DEF SendArrives
<1>4. ASSUME NEW h \in Patches, PatchArrives(h)
      PROVE  \E i \in Intents : ChatArrives(h, None, i) /\ thread' = thread
  BY <1>4 DEF PatchArrives
<1>5. ASSUME NEW h \in Resets \cup Compacts, OtherArrives(h)
      PROVE  ChatArrives(h, None, NoSettings) /\ thread' = thread
  BY <1>5 DEF OtherArrives
<1>6. CASE \E h \in Sends : SendArrives(h)
  BY <1>1, <1>3, <1>6, Kinds
<1>7. CASE \E h \in Patches : PatchArrives(h)
  BY <1>1, <1>4, <1>7, Kinds
<1>8. CASE \E h \in Resets \cup Compacts : OtherArrives(h)
  BY <1>2, <1>5, <1>8, Kinds
<1> QED
  BY <1>6, <1>7, <1>8 DEF ChatArrivals

LEMMA ArrivalsBase == ChatBase /\ ChatArrivals => ChatBase'
<1> SUFFICES ASSUME ChatBase, ChatArrivals PROVE ChatBase'
  OBVIOUS
<1>1. PICK h \in ChatHandlers, message \in Messages \cup {None}, settings \in Settings :
        /\ ChatArrives(h, message, settings)
        /\ \/ h \in Sends /\ message \in Messages /\ thread' = thread \cup {message}
           \/ h \notin Sends /\ message = None /\ thread' = thread
  BY ArrivalsAre
<1>2. thread' \in SUBSET Messages
  BY <1>1 DEF ChatBase, ChatTypes
<1> QED
  BY <1>1, <1>2, ArrivesBase

-----------------------------------------------------------------------------
(* All steps, as the chat sees them *)

LEMMA ChatSteps ==
  ASSUME Tables, [Next]_vars
  PROVE  \/ Aside
         \/ ChatArrivals
         \/ \E h \in ChatHandlers : ChatGoesOn(h) \/ ChatServes(h) \/ HistoryServed(h)
         \/ \E l \in late : l.by \in ChatHandlers /\ ChatServedLate(l)
         \/ Rolls \/ \E m \in Messages : Deletes(m)
<1>1. CASE UNCHANGED vars
  BY <1>1 DEF vars, callVars, Aside, Tables, Untouched, LinksLast
<1>2. CASE OperatorArrives /\ UNCHANGED chatVars
  <2>1. PICK h \in FileRequests \cup ConfigRequests : Arrives(h, "connect") /\ UNCHANGED <<link, call, late>>
    BY <1>2 DEF OperatorArrives, FileArrives, ConfigArrives
  <2>2. h \in Handlers /\ h \notin ChatHandlers
    BY OperatorRoutesAssumption, BridgeServerAssumption
  <2>3. Tables' /\ Untouched(Handlers \ {h})
    BY <2>1, <2>2, ArrivesAlone
  <2> QED
    BY <1>2, <2>1, <2>2, <2>3, Kinds DEF Aside, Untouched, LinksLast
<1>3. ASSUME NEW h \in Handlers, GoesOn(h), h \notin ChatHandlers
      PROVE  Aside
  <2>1. OwnStep(h) /\ UNCHANGED chatVars
    BY <1>3, GoesOnAlone DEF GoesOn
  <2> QED
    BY <1>3, <2>1, Kinds DEF Aside, OwnStep, Untouched, LinksLast, LateOnlyBy
<1>4. ASSUME NEW h \in Handlers, Serves(h), h \notin ChatHandlers
      PROVE  Aside
  <2>1. Service(h) /\ UNCHANGED chatVars
    BY <1>4, ServesOne DEF Serves
  <2> QED
    BY <1>4, <2>1, Kinds DEF Aside, Service, Untouched, LinksLast
<1>5. ASSUME NEW l \in late, UNCHANGED chatVars, FileServedLate(l) \/ ConfigServedLate(l)
      PROVE  Aside
  <2>1. /\ Tables' /\ call' = call /\ step' = step /\ reply' = reply
        /\ late' \subseteq late /\ LinksLast(Handlers)
    BY <1>5, LateAnswersNobody
  <2> QED
    BY <1>5, <2>1, Kinds DEF Aside, Untouched, LinksLast
<1>6. CASE ServedLate
  <2>1. PICK l \in late :
          \/ UNCHANGED chatVars /\ (FileServedLate(l) \/ ConfigServedLate(l))
          \/ l.by \in ChatHandlers /\ ChatServedLate(l)
    BY <1>6 DEF ServedLate
  <2> QED
    BY <1>5, <2>1
<1>7. CASE (OthersSave \/ OthersConfigure) /\ UNCHANGED chatVars
  BY <1>7 DEF OthersSave, OthersConfigure, callVars, Aside, Tables, Untouched, LinksLast
<1>8. CASE (ComesBack \/ \E l \in Handlers : LinkLost(l)) /\ UNCHANGED <<operatorVars, chatVars>>
  <2>1. /\ call' = call /\ step' = step /\ reply' = reply /\ late' = late
        /\ Tables' /\ LinksLast(Handlers)
    BY <1>8 DEF ComesBack, LinkLost, Tables, LinksLast
  <2> QED
    BY <1>8, <2>1, Kinds DEF Aside, Untouched, LinksLast
<1>9. ASSUME NEW h \in ChatHandlers, GoesOn(h) PROVE ChatGoesOn(h)
  BY <1>9, BridgeServerAssumption DEF GoesOn
<1>10. ASSUME NEW h \in ChatHandlers, Serves(h) PROVE ChatServes(h) \/ HistoryServed(h)
  BY <1>10, BridgeServerAssumption DEF Serves
<1> QED
  BY <1>1, <1>2, <1>3, <1>4, <1>6, <1>7, <1>8, <1>9, <1>10 DEF Next

LEMMA BaseNext == ChatBase /\ [Next]_vars => ChatBase'
<1> SUFFICES ASSUME ChatBase, [Next]_vars PROVE ChatBase'
  OBVIOUS
<1>1. Tables
  BY DEF ChatBase
<1> QED
  BY <1>1, ChatSteps, AsideKeeps, ArrivalsBase, GoesOnBase, ChatServesBase, HistoryServedBase,
    ServedLateBase, OutsideBase

(* The invariant of the chat routes, beside the operator routes, for any       *)
(* requests: what each handler awaits and of whom, that an open connection is   *)
(* the registered one, that what was left behind was asked for by a handler     *)
(* that came, and that a handler nobody interfered with is alone while pending.  *)
THEOREM ChatInvariant == Spec => []ChatBase
BY BaseInit, BaseNext, PTL DEF Spec

-----------------------------------------------------------------------------
(* /send: verboseFullApplied and the session *)

(* An answered verbose patch holds, unless a reset overtook it.               *)
VerboseInv ==
  /\ VerboseIsApplied
  /\ \A h \in ChatHandlers :
       step[h] = "verbose" /\ call[h].answer # None =>
         row.verbose \/ row.made = None \/ row.made \notin alone

(* The verbosity of the session goes with a reset only.                       *)
LEMMA DoesVerbose ==
  ASSUME ChatTypes, NEW h \in ChatHandlers, NEW r, Asked(h, r), Happened(h, r)
  PROVE  \/ /\ row'.made = row.made
            /\ row.verbose => row'.verbose
            /\ r = VerbosePatch => row'.verbose
         \/ h \in Resets /\ row'.made = h
<1> PICK undisturbed \in BOOLEAN : Does(h, r, undisturbed)
  BY DEF Happened
<1>0. row \in Rows
  BY DEF ChatTypes
<1>1. CASE row' = [row EXCEPT !.exists = TRUE, !.verbose = TRUE]
  BY <1>0, <1>1 DEF Rows
<1>2. ASSUME NEW p \in KnobPatches, r = KnobPatch(p),
             row' = [row EXCEPT !.exists = TRUE, !.override[p.knob] = p.level]
      PROVE  row'.made = row.made /\ row'.verbose = row.verbose /\ r # VerbosePatch
  BY <1>0, <1>2 DEF Rows, KnobPatch, VerbosePatch
<1>3. CASE h \in Resets /\ row' = FreshRow(TRUE, h)
  BY <1>3 DEF FreshRow
<1>4. CASE row' = row /\ r.method # "sessions.patch"
  BY <1>4 DEF VerbosePatch
<1>5. ASSUME local[h].message \in Messages, NEW history \in SUBSET Messages,
             r = ChatSend(local[h].message, history),
             row' = row \/ Runs(h, local[h].message, history, undisturbed)
      PROVE  row'.made = row.made /\ row'.verbose = row.verbose /\ r # VerbosePatch
  <2>1. r # VerbosePatch
    BY <1>5 DEF ChatSend, VerbosePatch
  <2>2. PICK m \in Messages : m = local[h].message
    BY <1>5
  <2>3. row' = row \/ Runs(h, m, history, undisturbed)
    BY <1>5, <2>2
  <2>4. row' = row \/ TurnRan(h, m, history, undisturbed)
    BY <2>3, RunsSets
  <2> QED
    BY <2>1, <2>4 DEF TurnRan
<1>6. CASE \E p \in KnobPatches :
             r = KnobPatch(p) /\ row' = [row EXCEPT !.exists = TRUE, !.override[p.knob] = p.level]
  BY <1>2, <1>6
<1>7. CASE /\ local[h].message \in Messages
           /\ \E history \in SUBSET Messages :
                /\ r = ChatSend(local[h].message, history)
                /\ row' = row \/ Runs(h, local[h].message, history, undisturbed)
  BY <1>5, <1>7
<1>8. \/ row' = [row EXCEPT !.exists = TRUE, !.verbose = TRUE]
      \/ \E p \in KnobPatches :
           r = KnobPatch(p) /\ row' = [row EXCEPT !.exists = TRUE, !.override[p.knob] = p.level]
      \/ h \in Resets /\ row' = FreshRow(TRUE, h)
      \/ row' = row /\ r.method # "sessions.patch"
      \/ /\ local[h].message \in Messages
         /\ \E history \in SUBSET Messages :
              /\ r = ChatSend(local[h].message, history)
              /\ row' = row \/ Runs(h, local[h].message, history, undisturbed)
  BY DoesCases
<1> QED
  BY <1>1, <1>3, <1>4, <1>6, <1>7, <1>8

LEMMA VerboseServes ==
  ASSUME ChatBase, VerboseInv, NEW h \in ChatHandlers, ChatServes(h)
  PROVE  VerboseInv'
<1>1. /\ UNCHANGED <<link, late, step, reply, verboseFull, alone>>
      /\ step[h] \in Awaiting /\ reply[h] = "pending" /\ Asked(h, call[h].request)
      /\ Does(h, call[h].request, h \in alone)
      /\ \A g \in Handlers \ {h} : call'[g] = call[g]
  BY ChatServesStep
<1>2. Happened(h, call[h].request)
  <2> SUFFICES \E undisturbed \in BOOLEAN : Does(h, call[h].request, undisturbed)
    BY DEF Happened
  <2> WITNESS (h \in alone) \in BOOLEAN
  <2> QED
    BY <1>1
<1>3. \/ /\ row'.made = row.made
         /\ row.verbose => row'.verbose
         /\ call[h].request = VerbosePatch => row'.verbose
      \/ h \in Resets /\ row'.made = h
  BY <1>1, <1>2, DoesVerbose DEF ChatBase
<1>4. VerboseIsApplied'
  BY <1>1, <1>3 DEF VerboseInv, VerboseIsApplied
<1>5. ASSUME NEW g \in ChatHandlers, step[g] = "verbose", call'[g].answer # None
      PROVE  row'.verbose \/ row'.made = None \/ row'.made \notin alone
  <2>1. reply[g] = "pending" /\ g \in Sends /\ call[g].request = VerbosePatch
    BY <1>5 DEF ChatBase, Stage, Asking
  <2>2. CASE row'.made = h /\ h \in Resets
    <3>1. g # h /\ {g, h} \subseteq Pending
      BY <1>1, <2>1, <2>2, Kinds DEF Pending
    <3> QED
      BY <1>1, <2>2, <3>1 DEF ChatBase, AloneStands
  <2>3. CASE /\ row'.made = row.made
             /\ row.verbose => row'.verbose
             /\ call[h].request = VerbosePatch => row'.verbose
    <3>1. CASE g = h
      BY <2>1, <2>3, <3>1
    <3>2. CASE g # h
      BY <1>1, <1>5, <2>3, <3>2, Kinds DEF VerboseInv
    <3> QED
      BY <3>1, <3>2
  <2> QED
    BY <1>3, <2>2, <2>3
<1> QED
  BY <1>1, <1>4, <1>5 DEF VerboseInv

LEMMA VerboseServedLate ==
  ASSUME ChatBase, VerboseInv, NEW l \in late, l.by \in ChatHandlers, ChatServedLate(l)
  PROVE  VerboseInv'
<1>1. /\ UNCHANGED <<link, call, step, reply, verboseFull>>
      /\ alone' = alone \ (Pending \cup {l.by}) /\ Does(l.by, l.request, FALSE)
  BY DEF ChatServedLate
<1>2. PICK h \in ChatHandlers : h = l.by
  OBVIOUS
<1>3. Asked(h, l.request) /\ Happened(h, l.request) /\ ChatTypes
  BY <1>1, <1>2 DEF ChatBase, Left, Happened
<1>4. \/ row'.made = row.made /\ (row.verbose => row'.verbose)
      \/ row'.made \notin alone'
  BY <1>1, <1>2, <1>3, DoesVerbose
<1> QED
  BY <1>1, <1>4 DEF VerboseInv, VerboseIsApplied

(* Steps that leave the session, and answer no verbose patch.                 *)
LEMMA VerboseStays ==
  ASSUME ChatBase, VerboseInv, row' = row,
         row.made # None => reply'[row.made] = reply[row.made] /\ (row.made \in alone' => row.made \in alone),
         \A l \in ChatHandlers :
           link'[l] = "open" /\ verboseFull'[l] =>
             (link[l] = "open" /\ verboseFull[l]) \/ row.verbose \/ row.made \notin alone \/ row.made = None,
         \A g \in ChatHandlers :
           step'[g] = "verbose" /\ call'[g].answer # None => step[g] = "verbose" /\ call[g].answer # None
  PROVE  VerboseInv'
BY DEF VerboseInv, VerboseIsApplied

LEMMA VerboseGoesOn ==
  ASSUME ChatBase, VerboseInv, NEW h \in ChatHandlers, ChatGoesOn(h)
  PROVE  VerboseInv'
<1>1. OwnStep(h) /\ Tables /\ ChatTypes /\ h \in Handlers /\ call'[h].answer = None
  BY ChatGoesOnAlone, CallIsShaped, Kinds DEF ChatBase
<1>2. row' = row /\ alone' = alone
  BY DEF ChatGoesOn, Acquires, VerboseApplied, KnobApplied, Described, HistoryRead, SendAcked,
    ResetDone, CompactDone, chatVars
<1>3. \A g \in ChatHandlers \ {h} :
        /\ call'[g] = call[g] /\ step'[g] = step[g] /\ reply'[g] = reply[g]
  BY <1>1, Kinds DEF OwnStep, Untouched
<1>4. \A g \in ChatHandlers :
        step'[g] = "verbose" /\ call'[g].answer # None => step[g] = "verbose" /\ call[g].answer # None
  BY <1>1, <1>3
<1>5. \A l \in ChatHandlers : Linked(l)
  BY DEF ChatBase
<1>6. row.made \in Resets \cup {None}
  BY <1>1 DEF ChatTypes, Rows
<1>7. Stage(h) /\ Asking(h)
  BY DEF ChatBase
<1>8. CASE /\ verboseFull' = verboseFull /\ link' = link
           /\ reply' = reply \/ reply'[h] = "502" \/ h \notin Resets
  <2>1. row.made # None /\ reply'[row.made] = "200" => reply[row.made] = "200"
    BY <1>3, <1>6, <1>8, Kinds
  <2> QED
    BY <1>2, <1>4, <1>8, <2>1 DEF VerboseInv, VerboseIsApplied
<1>9. CASE Acquires(h)
  <2>1. /\ step[h] = "acquire" /\ verboseFull' = verboseFull
        /\ link' = link \/ link' = [link EXCEPT ![h] = "open"]
        /\ reply' = reply \/ Replies(h, "502")
    BY <1>9 DEF Acquires, Given, AsksFirst, AsksKnobs, Asks
  <2>2. ~verboseFull[h]
    BY <1>5, <2>1 DEF Linked
  <2>3. row.made # None /\ reply'[row.made] = "200" => reply[row.made] = "200"
    BY <1>1, <1>3, <1>6, <2>1, Kinds DEF Replies, Tables
  <2>4. \A l \in ChatHandlers : link'[l] = "open" /\ verboseFull'[l] => link[l] = "open" /\ verboseFull[l]
    BY <1>1, <2>1, <2>2, Kinds DEF Tables
  <2> QED
    BY <1>2, <1>4, <2>3, <2>4 DEF VerboseInv, VerboseIsApplied
<1>10. CASE VerboseApplied(h)
  <2>1. PICK o \in Outcomes(h) :
          \/ o.error # None /\ Replies(h, "502") /\ UNCHANGED verboseFull
          \/ /\ o.error = None
             /\ verboseFull' = [verboseFull EXCEPT ![local[h].on] = TRUE]
    BY <1>10 DEF VerboseApplied
  <2>2. step[h] = "verbose" /\ link' = link /\ h \in Sends
    BY <1>7, <1>10 DEF VerboseApplied, Asking
  <2>3. h \notin Resets
    BY <2>2, Kinds
  <2>4. CASE UNCHANGED verboseFull
    BY <1>8, <2>2, <2>3, <2>4
  <2>5. CASE o.error = None
    <3>1. call[h].answer # None
      BY <2>2, <2>5, AnswerOnCurrent DEF Awaiting
    <3>2. row.verbose \/ row.made = None \/ row.made \notin alone
      BY <2>2, <3>1 DEF VerboseInv
    <3>3. row.made # None => reply'[row.made] = reply[row.made]
      BY <1>3, <1>6, <2>3, Kinds
    <3> QED
      BY <1>2, <1>4, <3>2, <3>3 DEF VerboseInv, VerboseIsApplied
  <2> QED
    BY <2>1, <2>4, <2>5
<1>11. CASE KnobApplied(h) \/ Described(h) \/ HistoryRead(h) \/ SendAcked(h) \/ CompactDone(h)
  <2>1. verboseFull' = verboseFull /\ link' = link
    BY <1>11 DEF KnobApplied, Described, HistoryRead, SendAcked, CompactDone, chatVars
  <2>2. step[h] \in {"knobs", "describe", "history", "send", "compact"}
    BY <1>11 DEF KnobApplied, Described, HistoryRead, SendAcked, CompactDone
  <2>3. h \notin Resets
    BY <1>7, <2>2, Kinds DEF Asking
  <2> QED
    BY <1>8, <2>1, <2>3
<1>12. CASE ResetDone(h)
  <2>1. PICK o \in Outcomes(h) :
          \/ o.error # None /\ Replies(h, "502") /\ UNCHANGED verboseFull
          \/ o.error = None /\ verboseFull' = ForgetsVerbose(h)
    BY <1>12 DEF ResetDone
  <2>2. step[h] = "reset" /\ link' = link
    BY <1>12 DEF ResetDone
  <2>3. CASE Replies(h, "502") /\ UNCHANGED verboseFull
    <3>1. reply'[h] = "502"
      BY <1>1, <2>3 DEF Replies, Tables
    <3> QED
      BY <1>8, <2>2, <2>3, <3>1
  <2>4. CASE o.error = None /\ verboseFull' = ForgetsVerbose(h)
    <3>1. local[h].on = current /\ current \in ChatHandlers
      BY <2>2, <2>4, AnswerOnCurrent DEF Awaiting
    <3>2. \A l \in ChatHandlers : link'[l] = "open" => ~verboseFull'[l]
      BY <1>1, <1>5, <2>2, <2>4, <3>1 DEF Linked, ForgetsVerbose, ChatTypes
    <3> QED
      BY <1>2, <1>4, <3>2 DEF VerboseInv, VerboseIsApplied
  <2> QED
    BY <2>1, <2>3, <2>4
<1> QED
  BY <1>9, <1>10, <1>11, <1>12 DEF ChatGoesOn

LEMMA VerboseArrivals == ChatBase /\ VerboseInv /\ ChatArrivals => VerboseInv'
<1> SUFFICES ASSUME ChatBase, VerboseInv, ChatArrivals PROVE VerboseInv'
  OBVIOUS
<1>1. PICK h \in ChatHandlers, message \in Messages \cup {None}, settings \in Settings :
        ChatArrives(h, message, settings)
  BY ArrivalsAre
<1>2. /\ UNCHANGED <<link, call, verboseFull, row>>
      /\ Untouched(Handlers \ {h}) /\ reply[h] = "none" /\ step'[h] = "acquire"
  BY <1>1, ArrivesStep
<1>3. alone' = alone \cup {h} \/ alone' = alone \ Pending
  BY <1>1 DEF ChatArrives
<1>4. row.made \in ChatHandlers \cup {None} /\ (row.made # None => reply[row.made] # "none")
  BY Kinds DEF ChatBase, ChatTypes, Rows
<1>5. \A g \in ChatHandlers : step'[g] = "verbose" => step[g] = "verbose"
  BY <1>2, Kinds DEF Untouched
<1>6. row.made # None => row.made # h /\ reply'[row.made] = reply[row.made]
  BY <1>2, <1>4, Kinds DEF Untouched
<1> QED
  BY <1>2, <1>3, <1>5, <1>6, VerboseStays

LEMMA VerboseOutside ==
  ASSUME ChatBase, VerboseInv, Rolls \/ \E m \in Messages : Deletes(m)
  PROVE  VerboseInv'
<1>1. CASE Rolls
  BY <1>1, RowRolls DEF Rolls, VerboseInv, VerboseIsApplied
<1>2. ASSUME NEW m \in Messages, Deletes(m) PROVE VerboseInv'
  BY <1>2, VerboseStays DEF Deletes, callVars
<1> QED
  BY <1>1, <1>2

LEMMA VerboseHistory ==
  ASSUME ChatBase, VerboseInv, NEW h \in ChatHandlers, HistoryServed(h)
  PROVE  VerboseInv'
<1>1. /\ UNCHANGED <<link, step, reply>> /\ UNCHANGED chatVars /\ step[h] = "history"
      /\ \A g \in Handlers \ {h} : call'[g] = call[g]
  BY HistoryServedStep
<1>2. \A g \in ChatHandlers : step'[g] = "verbose" => call'[g] = call[g]
  BY <1>1, Kinds
<1> QED
  BY <1>1, <1>2, VerboseStays DEF chatVars

LEMMA VerboseAside == ChatBase /\ VerboseInv /\ Aside => VerboseInv'
<1> SUFFICES ASSUME ChatBase, VerboseInv, Aside PROVE VerboseInv'
  OBVIOUS
<1>1. /\ UNCHANGED chatVars
      /\ \A h \in ChatHandlers : call'[h] = call[h] /\ step'[h] = step[h] /\ reply'[h] = reply[h]
      /\ \A h \in ChatHandlers : link'[h] = "open" => link[h] = "open"
  BY DEF Aside, Untouched, LinksLast
<1>2. row.made \in ChatHandlers \cup {None}
  BY Kinds DEF ChatBase, ChatTypes, Rows
<1> QED
  BY <1>1, <1>2, VerboseStays DEF chatVars

LEMMA VerboseNext == ChatBase /\ VerboseInv /\ [Next]_vars => VerboseInv'
<1> SUFFICES ASSUME ChatBase, VerboseInv, [Next]_vars PROVE VerboseInv'
  OBVIOUS
<1>1. Tables
  BY DEF ChatBase
<1> QED
  BY <1>1, ChatSteps, VerboseAside, VerboseArrivals, VerboseGoesOn, VerboseServes, VerboseHistory,
    VerboseServedLate, VerboseOutside

(* A send may skip the verbose patch on the connection it was applied on: the   *)
(* session has it, or was rolled, or reset by a handler that did not answer 200 *)
(* or was not alone; for any requests of the chat, however they interleave.    *)
THEOREM VerboseApplies == Spec => []VerboseIsApplied
<1>1. Init => VerboseInv
  BY Kinds DEF Init, CallsInit, ChatInit, VerboseInv, VerboseIsApplied
<1>2. VerboseInv => VerboseIsApplied
  BY DEF VerboseInv
<1> QED
  BY <1>1, <1>2, VerboseNext, ChatInvariant, PTL DEF Spec

-----------------------------------------------------------------------------
(* The turns of a chat, and what its model has read *)

(* What the session holds, beside what the gateway has taken.                 *)
RowFits ==
  /\ row.systemSent => row.exists
  /\ ~row.systemSent => \A m \in Messages : row.context[m] = 0
  /\ \A m \in Messages : row.context[m] > 0 => m \in accepted \cup row.early
  /\ \A m \in accepted : \E g \in Sends : local[g].message = m
  /\ deleted \subseteq accepted /\ deleted \cap thread = {}
  /\ EachTurnOnce /\ ContextMatchesThread

(* What an undisturbed handler has read still holds, and what it asks for fits. *)
SendFits(h) ==
  /\ step[h] = "describe" /\ call[h].answer # None =>
       call[h].answer.value = [exists |-> row.exists, systemSent |-> row.systemSent]
  /\ step[h] = "history" =>
       /\ ~row.systemSent
       /\ call[h].answer # None =>
            Brings(h, call[h].answer.value) /\ call[h].answer.value \subseteq thread
  /\ step[h] = "send" /\ call[h].answer = None =>
       /\ call[h].request.history \subseteq thread
       /\ call[h].request.history # {} => ~row.systemSent
       /\ ~row.systemSent /\ ~local[h].blind =>
            Prior(h) \subseteq call[h].request.history \cup local[h].cut
  /\ step[h] = "reset" /\ call[h].answer # None => \A m \in Messages : row.context[m] = 0

TurnsInv == RowFits /\ \A h \in alone : SendFits(h)

(* A request that runs no turn.                                               *)
SameTurns ==
  /\ row'.context = row.context /\ row'.systemSent = row.systemSent /\ row'.whole = row.whole
  /\ row'.mixed = row.mixed /\ row'.early = row.early /\ row'.cut = row.cut
  /\ row.exists => row'.exists

LEMMA Methods ==
  /\ Describe.method = "sessions.describe" /\ Reset.method = "sessions.reset"
  /\ \A m, history : ChatSend(m, history).method = "chat.send"
  /\ \A m, history : ChatSend(m, history).history = history
BY DEF Describe, Reset, ChatSend

(* What a request of h does to the turns.                                     *)
Turns(h, r, undisturbed) ==
  \/ SameTurns /\ accepted' = accepted /\ r # Reset /\ (r = Describe => row' = row)
  \/ h \in Resets /\ row' = FreshRow(TRUE, h) /\ accepted' = accepted /\ r = Reset
  \/ \E m \in Messages, history \in SUBSET Messages :
       /\ h \in Sends /\ m = local[h].message /\ m \notin accepted
       /\ r = ChatSend(m, history) /\ Runs(h, m, history, undisturbed)

LEMMA DoesTurns ==
  ASSUME ChatTypes, NEW h \in ChatHandlers, NEW r, Asked(h, r), NEW undisturbed \in BOOLEAN, Does(h, r, undisturbed)
  PROVE  Turns(h, r, undisturbed)
<1> DEFINE Patched ==
             \E p \in KnobPatches :
               r = KnobPatch(p) /\ Unheard /\ row' = [row EXCEPT !.exists = TRUE, !.override[p.knob] = p.level]
           Idle == r.method \notin {"chat.send", "sessions.patch", "sessions.reset"} /\ Unheard /\ row' = row
           AskedForTurn ==
             /\ h \in Sends /\ local[h].message \in Messages
             /\ \E history \in SUBSET Messages :
                  /\ r = ChatSend(local[h].message, history)
                  /\ \/ local[h].message \in accepted /\ Unheard /\ row' = row
                     \/ /\ local[h].message \notin accepted
                        /\ Runs(h, local[h].message, history, undisturbed)
           Talks == r = VerbosePatch /\ Unheard /\ row' = [row EXCEPT !.exists = TRUE, !.verbose = TRUE]
<1>0. row \in Rows
  BY DEF ChatTypes
<1>1. CASE Talks
  BY <1>0, <1>1 DEF Rows, Turns, SameTurns, Unheard, VerbosePatch, Reset, Describe
<1>2. ASSUME NEW p \in KnobPatches, r = KnobPatch(p), Unheard,
             row' = [row EXCEPT !.exists = TRUE, !.override[p.knob] = p.level]
      PROVE  SameTurns /\ accepted' = accepted /\ r # Reset /\ r # Describe
  BY <1>0, <1>2 DEF Rows, SameTurns, Unheard, KnobPatch, Reset, Describe
<1>3. CASE Patched
  BY <1>2, <1>3 DEF Turns
<1>4. CASE h \in Resets /\ r = Reset /\ Unheard /\ row' = FreshRow(TRUE, h)
  BY <1>4 DEF Turns, Unheard
<1>5. CASE Idle
  <2>1. r # Reset
    BY <1>5 DEF Reset
  <2>2. SameTurns /\ accepted' = accepted /\ row' = row
    BY <1>5 DEF Unheard, SameTurns
  <2> QED
    BY <2>1, <2>2 DEF Turns
<1>6. CASE AskedForTurn
  <2>1. PICK m \in Messages : m = local[h].message
    BY <1>6
  <2>2. PICK history \in SUBSET Messages :
                /\ r = ChatSend(m, history)
                /\ \/ m \in accepted /\ Unheard /\ row' = row
                   \/ m \notin accepted /\ Runs(h, m, history, undisturbed)
    BY <1>6, <2>1
  <2>3. CASE Unheard /\ row' = row
    BY <2>2, <2>3 DEF Turns, Unheard, SameTurns, Reset, ChatSend
  <2> QED
    BY <1>6, <2>1, <2>2, <2>3 DEF Turns
<1>7. Talks \/ Patched \/ (h \in Resets /\ r = Reset /\ Unheard /\ row' = FreshRow(TRUE, h)) \/ Idle \/ AskedForTurn
  BY DoesCases
<1> HIDE DEF Talks, Patched, Idle, AskedForTurn
<1> QED
  BY <1>1, <1>3, <1>4, <1>5, <1>6, <1>7

(* A turn on a session that fits leaves one that fits.                        *)
LEMMA RunsFit ==
  ASSUME ChatTypes, ChatTypes', RowFits, NEW h \in Sends, NEW m \in Messages,
         NEW history \in SUBSET Messages, NEW undisturbed \in BOOLEAN,
         m = local[h].message, m \notin accepted, Runs(h, m, history, undisturbed),
         thread' = thread, deleted' = deleted,
         undisturbed = TRUE =>
           /\ history \subseteq thread
           /\ history # {} => ~row.systemSent
           /\ ~row.systemSent /\ ~local[h].blind => Prior(h) \subseteq history \cup local[h].cut
  PROVE  RowFits'
<1>1. h \in ChatHandlers
  BY Kinds
<1>2. /\ accepted' = accepted \cup {m}
      /\ row'.exists /\ row'.systemSent
      /\ \A n \in Messages :
           row'.context[n] = row.context[n] + IF n \in history \cup {m} THEN 1 ELSE 0
      /\ row'.whole => row.whole \/ (~row.systemSent /\ undisturbed = TRUE /\ ~local[h].blind)
      /\ row'.mixed = FALSE => row.mixed = FALSE /\ undisturbed = TRUE
      /\ row'.early = row.early \cup (history \ accepted)
      /\ row'.cut = row.cut \cup local[h].cut
  <2>1. TurnRan(h, m, history, undisturbed)
    BY <1>1, RunsSets
  <2> QED
    BY <2>1 DEF TurnRan
<1>3. \A n \in Messages : row.context[n] \in Nat
  BY DEF ChatTypes, Rows
<1>4. \A g \in ChatHandlers : local'[g].message = local[g].message
  <2>1. /\ \A g \in ChatHandlers \ {h} : local'[g] = local[g]
        /\ local'[h] = [local[h] EXCEPT !.ran = row.override]
    BY <1>1, RunsLocal
  <2>2. local'[h].message = local[h].message
    BY <1>1, <2>1 DEF ChatTypes, Locals
  <2> QED
    BY <2>1, <2>2
<1>5. ASSUME NEW n \in Messages, row'.context[n] > 0 PROVE n \in accepted' \cup row'.early
  <2>1. CASE n \in history \cup {m}
    BY <1>2, <2>1
  <2>2. CASE n \notin history \cup {m}
    BY <1>2, <1>3, <1>5, <2>2 DEF RowFits
  <2> QED
    BY <2>1, <2>2
<1>6. ASSUME ~row'.mixed
      PROVE  /\ \A n \in Messages \ row'.early : row'.context[n] <= 1
             /\ row'.whole => \A n \in (accepted' \cap thread') \ row'.cut : row'.context[n] > 0
             /\ \A n \in deleted' : row'.context[n] = 0
  <2>0. row'.mixed = FALSE /\ row.mixed \in BOOLEAN
    BY <1>6 DEF ChatTypes, Rows
  <2>1. ~row.mixed /\ undisturbed = TRUE
    BY <1>2, <2>0
  <2>2. /\ history \subseteq thread
        /\ history # {} => ~row.systemSent
        /\ ~row.systemSent /\ ~local[h].blind => Prior(h) \subseteq history \cup local[h].cut
    BY <2>1
  <2>3. ASSUME NEW n \in Messages, n \notin row'.early PROVE row'.context[n] <= 1
    <3>1. row.context[n] <= 1
      BY <1>2, <2>1, <2>3 DEF RowFits, EachTurnOnce
    <3>2. CASE n \in history
      BY <1>2, <2>2, <3>2 DEF RowFits
    <3>3. CASE n = m /\ n \notin history
      <4>1. n \notin accepted /\ n \notin row.early
        BY <1>2, <2>3, <3>3
      <4>2. row.context[n] = 0
        BY <1>3, <4>1 DEF RowFits
      <4> QED
        BY <1>2, <4>2
    <3>4. CASE n \notin history \cup {m}
      BY <1>2, <1>3, <3>1, <3>4
    <3> QED
      BY <3>2, <3>3, <3>4
  <2>4. ASSUME row'.whole, NEW n \in accepted', n \in thread', n \notin row'.cut
        PROVE  row'.context[n] > 0
    <3>0. n \in Messages
      BY <2>4 DEF ChatTypes
    <3>1. CASE n \in history \cup {m}
      BY <1>2, <1>3, <3>0, <3>1
    <3>2. CASE n \notin history \cup {m}
      <4>1. n \in Prior(h)
        BY <1>2, <2>4, <3>2 DEF Prior
      <4>2. row.whole
        BY <1>2, <2>2, <2>4, <3>2, <4>1
      <4>3. row.context[n] > 0
        BY <1>2, <2>1, <2>4, <4>1, <4>2 DEF RowFits, ContextMatchesThread, Prior
      <4> QED
        BY <1>2, <1>3, <3>0, <3>2, <4>3
    <3> QED
      BY <3>1, <3>2
  <2>5. ASSUME NEW n \in deleted' PROVE row'.context[n] = 0
    <3>1. n \in Messages /\ n \in accepted /\ n \notin thread
      BY DEF RowFits, ChatTypes
    <3>2. row.context[n] = 0
      BY <2>1 DEF RowFits, ContextMatchesThread
    <3> QED
      BY <1>2, <2>2, <3>1, <3>2
  <2> QED
    BY <2>3, <2>4, <2>5
<1>7. \A n \in accepted' : \E g \in Sends : local'[g].message = n
  BY <1>1, <1>2, <1>4, Kinds DEF RowFits
<1>8. EachTurnOnce' /\ ContextMatchesThread'
  BY <1>6 DEF EachTurnOnce, ContextMatchesThread
<1> QED
  BY <1>2, <1>5, <1>7, <1>8 DEF RowFits

(* While h is pending, whoever else is alone is done.                         *)
LEMMA OthersAreDone ==
  ASSUME ChatBase, NEW h \in ChatHandlers, reply[h] = "pending", NEW g \in alone, g # h
  PROVE  step[g] = "done"
<1>1. g \in ChatHandlers /\ reply[g] # "none" /\ reply[g] # "pending"
  BY DEF ChatBase, ChatTypes, AloneStands, Pending
<1> QED
  BY <1>1 DEF ChatBase, Stage

LEMMA NobodyIsPending ==
  ASSUME ChatBase, NEW g \in alone \ Pending
  PROVE  step[g] = "done"
BY DEF ChatBase, ChatTypes, AloneStands, Pending, Stage

(* Nothing is said of a handler at another step.                              *)
LEMMA FitsElsewhere ==
  ASSUME NEW h, step[h] \notin {"describe", "history", "send", "reset"}
  PROVE  SendFits(h)
BY DEF SendFits

(* What is served for h, in time or late.                                     *)
LEMMA DoesFits ==
  ASSUME ChatBase, ChatTypes', RowFits, NEW h \in ChatHandlers, NEW r, Asked(h, r),
         NEW undisturbed \in BOOLEAN, Does(h, r, undisturbed),
         thread' = thread, deleted' = deleted,
         undisturbed = TRUE => step[h] \in Awaiting /\ SendFits(h) /\ call[h].answer = None /\ call[h].request = r
  PROVE  RowFits'
<1>1. ChatTypes /\ Turns(h, r, undisturbed)
  BY DoesTurns DEF ChatBase
<1>2. SessionKept(h, r)
  <2>1. Happened(h, r)
    BY DEF Happened
  <2> QED
    BY <1>1, <2>1, DoesKeeps
<1>3. \A g \in ChatHandlers : local'[g].message = local[g].message
  BY <1>2 DEF SessionKept
<1>4. CASE SameTurns /\ accepted' = accepted
  <2>1. EachTurnOnce' /\ ContextMatchesThread'
    BY <1>4 DEF SameTurns, RowFits, EachTurnOnce, ContextMatchesThread
  <2>2. \A m \in accepted' : \E g \in Sends : local'[g].message = m
    BY <1>3, <1>4, Kinds DEF RowFits
  <2> QED
    BY <1>4, <2>1, <2>2 DEF SameTurns, RowFits
<1>5. CASE h \in Resets /\ row' = FreshRow(TRUE, h) /\ accepted' = accepted
  <2>1. /\ ~row'.systemSent /\ ~row'.whole /\ row'.context = [m \in Messages |-> 0]
    BY <1>5, RowRolls
  <2>2. \A m \in Messages : row'.context[m] = 0
    BY <2>1
  <2>3. EachTurnOnce'
    BY <2>2 DEF EachTurnOnce
  <2>4. ContextMatchesThread'
    BY <1>1, <2>1, <2>2 DEF ContextMatchesThread, ChatTypes
  <2>5. \A m \in accepted' : \E g \in Sends : local'[g].message = m
    BY <1>3, <1>5, Kinds DEF RowFits
  <2>6. deleted' \subseteq accepted' /\ deleted' \cap thread' = {}
    BY <1>5 DEF RowFits
  <2>7. \A m \in Messages : ~(row'.context[m] > 0)
    BY <2>2
  <2> QED
    BY <2>1, <2>2, <2>3, <2>4, <2>5, <2>6, <2>7 DEF RowFits
<1>6. ASSUME NEW m \in Messages, NEW history \in SUBSET Messages,
             h \in Sends, m = local[h].message, m \notin accepted,
             r = ChatSend(m, history), Runs(h, m, history, undisturbed)
      PROVE  RowFits'
  <2>1. ASSUME undisturbed = TRUE
        PROVE  /\ history \subseteq thread
               /\ history # {} => ~row.systemSent
               /\ ~row.systemSent /\ ~local[h].blind => Prior(h) \subseteq history \cup local[h].cut
    <3>1. call[h].request.method = "chat.send" /\ call[h].request.history = history
      BY <1>6, <2>1 DEF ChatSend
    <3>2. step[h] = "send"
      BY <2>1, <3>1, AskedMethod
    <3> QED
      BY <2>1, <3>1, <3>2 DEF SendFits
  <2> QED
    BY <1>1, <1>6, <2>1, RunsFit
<1> QED
  BY <1>1, <1>4, <1>5, <1>6 DEF Turns

LEMMA TurnsServes ==
  ASSUME ChatBase, TurnsInv, NEW h \in ChatHandlers, ChatServes(h)
  PROVE  TurnsInv'
<1>1. /\ UNCHANGED <<link, late, step, reply, verboseFull, thread, alone, deleted>>
      /\ call[h].answer = None /\ step[h] \in Awaiting \ {"history"}
      /\ reply[h] = "pending" /\ Asked(h, call[h].request)
      /\ Does(h, call[h].request, h \in alone)
      /\ call'[h].request = call[h].request
      /\ call'[h].answer = Ok(IF call[h].request = Describe
                                THEN [exists |-> row.exists, systemSent |-> row.systemSent]
                                ELSE None)
  BY ChatServesStep
<1>2. ChatBase'
  BY ChatServesBase
<1>3. PICK undisturbed \in BOOLEAN :
        (undisturbed = TRUE <=> h \in alone) /\ Does(h, call[h].request, undisturbed)
  <2>1. CASE h \in alone
    <3>1. Does(h, call[h].request, TRUE)
      BY <1>1, <2>1
    <3> QED
      BY <2>1, <3>1
  <2>2. CASE h \notin alone
    <3>0. (h \in alone) = FALSE
      BY <2>2
    <3>1. Does(h, call[h].request, FALSE)
      BY <1>1, <3>0, Zenon
    <3> QED
      BY <2>2, <3>1
  <2> QED
    BY <2>1, <2>2
<1>4. RowFits'
  BY <1>1, <1>2, <1>3, DoesFits DEF TurnsInv, ChatBase
<1>5. ASSUME h \in alone PROVE SendFits(h)'
  <2>1. Asking(h) /\ ChatTypes /\ Turns(h, call[h].request, undisturbed)
    BY <1>1, <1>3, DoesTurns DEF ChatBase
  <2>2. CASE step[h] = "describe"
    <3>1. call[h].request = Describe
      BY <2>1, <2>2 DEF Asking
    <3>2. row' = row
      BY <2>1, <3>1, Methods DEF Turns
    <3> QED
      BY <1>1, <2>2, <3>1, <3>2 DEF SendFits, Ok
  <2>3. CASE step[h] = "send"
    <3>1. call[h].request # Describe
      BY <2>1, <2>3, Methods DEF Asking
    <3>2. call'[h].answer # None
      BY <1>1, <3>1, GatewayCallsAssumption DEF Ok
    <3> QED
      BY <1>1, <2>3, <3>2 DEF SendFits
  <2>4. CASE step[h] = "reset"
    <3>1. call[h].request = Reset
      BY <2>1, <2>4 DEF Asking
    <3>2. h \in Resets /\ row' = FreshRow(TRUE, h)
      BY <2>1, <3>1, Methods DEF Turns
    <3>3. row'.context = [m \in Messages |-> 0]
      BY <3>2, RowRolls
    <3>4. \A m \in Messages : row'.context[m] = 0
      BY <3>3
    <3> QED
      BY <1>1, <2>4, <3>4 DEF SendFits
  <2>5. CASE step[h] \notin {"describe", "history", "send", "reset"}
    BY <1>1, <2>5 DEF SendFits
  <2> QED
    BY <1>1, <2>2, <2>3, <2>4, <2>5
<1>6. ASSUME NEW g \in alone, g # h PROVE SendFits(g)'
  <2>1. step'[g] = "done"
    BY <1>1, <1>6, OthersAreDone
  <2> QED
    BY <2>1 DEF SendFits
<1> QED
  BY <1>1, <1>4, <1>5, <1>6 DEF TurnsInv

LEMMA TurnsServedLate ==
  ASSUME ChatBase, TurnsInv, NEW l \in late, l.by \in ChatHandlers, ChatServedLate(l)
  PROVE  TurnsInv'
<1>1. /\ UNCHANGED <<step, thread, deleted>>
      /\ alone' = alone \ (Pending \cup {l.by}) /\ Does(l.by, l.request, FALSE)
  BY DEF ChatServedLate
<1>2. Asked(l.by, l.request) /\ ChatBase'
  BY ServedLateBase DEF ChatBase, Left
<1>3. PICK h \in ChatHandlers : h = l.by
  OBVIOUS
<1>4. PICK undisturbed \in BOOLEAN : undisturbed = FALSE
  OBVIOUS
<1>5. Asked(h, l.request) /\ Does(h, l.request, undisturbed)
  BY <1>1, <1>2, <1>3, <1>4
<1>6. RowFits'
  BY <1>1, <1>2, <1>4, <1>5, DoesFits DEF TurnsInv, ChatBase
<1>7. ASSUME NEW g \in alone' PROVE SendFits(g)'
  <2>1. step'[g] = "done"
    BY <1>1, NobodyIsPending
  <2> QED
    BY <2>1 DEF SendFits
<1> QED
  BY <1>6, <1>7 DEF TurnsInv

LEMMA TurnsHistory ==
  ASSUME ChatBase, TurnsInv, NEW h \in ChatHandlers, HistoryServed(h)
  PROVE  TurnsInv'
<1>1. /\ UNCHANGED <<step, reply>> /\ UNCHANGED chatVars /\ step[h] = "history" /\ reply[h] = "pending"
  BY HistoryServedStep
<1>2. PICK history \in SUBSET thread : call'[h].answer = Ok(history) /\ Brings(h, history)
  BY HistoryServedStep
<1>3. RowFits'
  BY <1>1 DEF chatVars, TurnsInv, RowFits, EachTurnOnce, ContextMatchesThread
<1>4. ASSUME h \in alone PROVE SendFits(h)'
  <2>1. ~row.systemSent
    BY <1>1, <1>4 DEF TurnsInv, SendFits
  <2>2. call'[h].answer.value = history
    BY <1>2 DEF Ok
  <2>3. Brings(h, history)'
    BY <1>1, <1>2 DEF Brings, Prior, chatVars
  <2> QED
    BY <1>1, <2>1, <2>2, <2>3 DEF SendFits, chatVars
<1>5. ASSUME NEW g \in alone, g # h PROVE SendFits(g)'
  <2>1. step'[g] = "done"
    BY <1>1, <1>5, OthersAreDone
  <2> QED
    BY <2>1 DEF SendFits
<1> QED
  BY <1>1, <1>3, <1>4, <1>5 DEF TurnsInv, chatVars

(* A handler that goes on leaves the session and the others alone.            *)
LEMMA GoesOnKeeps ==
  ASSUME ChatBase, NEW h \in ChatHandlers, ChatGoesOn(h)
  PROVE  /\ UNCHANGED <<row, accepted, thread, alone>>
         /\ reply[h] = "pending"
         /\ \A g \in ChatHandlers \ {h} :
              call'[g] = call[g] /\ step'[g] = step[g] /\ reply'[g] = reply[g] /\ local'[g] = local[g]
         /\ local'[h].message = local[h].message /\ local'[h].intent = local[h].intent
<1>1. OwnStep(h) /\ Stage(h) /\ ChatTypes /\ local[h] \in Locals
  BY ChatGoesOnAlone, Kinds DEF ChatBase, ChatTypes
<1>2. reply[h] = "pending"
  BY <1>1 DEF Stage, Awaiting, ChatGoesOn, Acquires, VerboseApplied, KnobApplied, Described,
    HistoryRead, SendAcked, ResetDone, CompactDone
<1>3. UNCHANGED <<row, accepted, thread, alone>>
  BY DEF ChatGoesOn, Acquires, VerboseApplied, KnobApplied, Described, HistoryRead, SendAcked,
    ResetDone, CompactDone, chatVars
<1>4. \A g \in ChatHandlers \ {h} :
        call'[g] = call[g] /\ step'[g] = step[g] /\ reply'[g] = reply[g]
  BY <1>1, Kinds DEF OwnStep, Untouched
<1>5. /\ \A g \in ChatHandlers \ {h} : local'[g] = local[g]
      /\ local'[h].message = local[h].message /\ local'[h].intent = local[h].intent
  <2>1. ASSUME NEW l, local' = [local EXCEPT ![h].on = l]
        PROVE  /\ \A g \in ChatHandlers \ {h} : local'[g] = local[g]
               /\ local'[h].message = local[h].message /\ local'[h].intent = local[h].intent
    BY <1>1, <2>1 DEF ChatTypes, Locals
  <2>2. CASE Acquires(h)
    <3>1. local' = local \/ \E l : local' = [local EXCEPT ![h].on = l]
      BY <2>2 DEF Acquires, Given
    <3> QED
      BY <2>1, <3>1
  <2>3. CASE VerboseApplied(h) \/ SendAcked(h) \/ ResetDone(h) \/ CompactDone(h)
    BY <2>3 DEF VerboseApplied, SendAcked, ResetDone, CompactDone, chatVars
  <2>4. CASE KnobApplied(h)
    BY <2>4, KnobStep
  <2>5. CASE Described(h)
    BY <2>5, DescribedStep
  <2>6. CASE HistoryRead(h)
    BY <2>6, HistoryStep
  <2> QED
    BY <2>2, <2>3, <2>4, <2>5, <2>6 DEF ChatGoesOn
<1> QED
  BY <1>2, <1>3, <1>4, <1>5

LEMMA GoesOnTo ==
  ASSUME ChatBase, NEW h \in ChatHandlers, ChatGoesOn(h), ~Described(h), ~HistoryRead(h)
  PROVE  step'[h] \in {"verbose", "knobs", "describe", "reset", "compact", "done"}
<1>1. Tables /\ h \in Handlers
  BY Kinds DEF ChatBase
<1>2. \E s \in {"verbose", "knobs", "describe", "reset", "compact", "done"} : step' = [step EXCEPT ![h] = s]
  BY DEF ChatGoesOn, Acquires, VerboseApplied, KnobApplied, SendAcked, ResetDone, CompactDone,
    Given, AsksFirst, AsksKnobs, Asks, Replies
<1> QED
  BY <1>1, <1>2 DEF Tables

(* What a send reads of an undisturbed session decides what it asks for next.   *)
LEMMA DescribedFits ==
  ASSUME ChatBase, TurnsInv, NEW h \in alone, h \in ChatHandlers, Described(h)
  PROVE  SendFits(h)'
<1>1. /\ step[h] = "describe" /\ UNCHANGED <<row, accepted, thread>>
      /\ \/ h \in Patches /\ step'[h] = "done"
         \/ \E o \in Outcomes(h) :
              /\ local'[h].blind = (o.error # None) /\ call'[h].answer = None
              /\ \/ /\ o.error = None /\ FreshSession(o.value)
                    /\ step'[h] = "history"
                 \/ /\ ~(o.error = None /\ FreshSession(o.value))
                    /\ step'[h] = "send"
                    /\ call'[h].request = ChatSend(local[h].message, {})
  BY DescribedStep
<1>2. CASE step'[h] = "done"
  BY <1>2 DEF SendFits
<1>3. ASSUME NEW o \in Outcomes(h), o.error = None
      PROVE  o.value = [exists |-> row.exists, systemSent |-> row.systemSent]
  <2>1. o = call[h].answer /\ call[h].answer # None
    BY <1>1, <1>3, AnswerOnCurrent DEF Awaiting
  <2> QED
    BY <1>1, <2>1 DEF TurnsInv, SendFits
<1>4. row.systemSent \in BOOLEAN /\ row.exists \in BOOLEAN /\ (row.systemSent => row.exists)
  BY DEF ChatBase, ChatTypes, Rows, TurnsInv, RowFits
<1>5. ASSUME NEW o \in Outcomes(h), o.error = None PROVE FreshSession(o.value) <=> ~row.systemSent
  BY <1>3, <1>4, <1>5 DEF FreshSession
<1>6. ASSUME NEW o \in Outcomes(h), call'[h].answer = None,
             o.error = None, FreshSession(o.value), step'[h] = "history"
      PROVE  SendFits(h)'
  BY <1>1, <1>5, <1>6 DEF SendFits
<1>7. ASSUME NEW o \in Outcomes(h), call'[h].answer = None, local'[h].blind = (o.error # None),
             ~(o.error = None /\ FreshSession(o.value)), step'[h] = "send",
             call'[h].request = ChatSend(local[h].message, {})
      PROVE  SendFits(h)'
  <2>1. call'[h].request.history = {}
    BY <1>7, Methods
  <2>2. row.systemSent \/ local'[h].blind
    BY <1>5, <1>7
  <2> QED
    BY <1>1, <1>7, <2>1, <2>2 DEF SendFits
<1> QED
  BY <1>1, <1>2, <1>6, <1>7

LEMMA HistoryFits ==
  ASSUME ChatBase, TurnsInv, NEW h \in alone, h \in ChatHandlers, HistoryRead(h)
  PROVE  SendFits(h)'
<1>1. /\ step[h] = "history" /\ UNCHANGED <<row, accepted, thread>>
      /\ local'[h].message = local[h].message /\ step'[h] = "send"
  BY HistoryStep
<1>2. PICK o \in Outcomes(h) :
        /\ local'[h].blind = (o.error # None)
        /\ local'[h].cut = IF o.error = None THEN LeftOut(h, o.value) ELSE {}
        /\ call'[h].request = ChatSend(local[h].message, IF o.error = None THEN o.value ELSE {})
  BY HistoryStep
<1>3. call'[h].request.history = IF o.error = None THEN o.value ELSE {}
  BY <1>2, Methods
<1>4. Prior(h)' = Prior(h) /\ ~row.systemSent
  BY <1>1 DEF Prior, TurnsInv, SendFits
<1>5. CASE o.error = None
  <2>1. o = call[h].answer /\ call[h].answer # None
    BY <1>5, OutcomeIsAnswer
  <2>2. Prior(h) \subseteq o.value \cup LeftOut(h, o.value) /\ o.value \subseteq thread
    BY <1>1, <2>1, BringsOrCuts DEF TurnsInv, SendFits
  <2> QED
    BY <1>1, <1>2, <1>3, <1>4, <1>5, <2>2 DEF SendFits
<1>6. CASE o.error # None
  <2>1. local'[h].blind
    BY <1>2, <1>6
  <2> QED
    BY <1>1, <1>3, <1>6, <2>1 DEF SendFits
<1> QED
  BY <1>5, <1>6

LEMMA TurnsGoesOn ==
  ASSUME ChatBase, TurnsInv, NEW h \in ChatHandlers, ChatGoesOn(h)
  PROVE  TurnsInv'
<1>1. /\ UNCHANGED <<row, accepted, thread, alone>> /\ reply[h] = "pending"
      /\ \A g \in ChatHandlers \ {h} :
           call'[g] = call[g] /\ step'[g] = step[g] /\ reply'[g] = reply[g] /\ local'[g] = local[g]
      /\ local'[h].message = local[h].message
  BY GoesOnKeeps
<1>2. SendFits(h)' \/ h \notin alone
  <2>1. CASE ~Described(h) /\ ~HistoryRead(h)
    <3>1. call'[h].answer = None
      BY CallIsShaped DEF ChatBase
    <3> QED
      BY <2>1, <3>1, GoesOnTo DEF SendFits
  <2> QED
    BY <2>1, DescribedFits, HistoryFits
<1>3. ASSUME NEW g \in alone, g # h PROVE SendFits(g)'
  <2>1. g \in ChatHandlers /\ step[g] = "done"
    BY <1>1, <1>3, OthersAreDone DEF ChatBase, ChatTypes
  <2> QED
    BY <1>1, <1>3, <2>1 DEF SendFits
<1>4. \A m \in accepted' : \E g \in Sends : local'[g].message = m
  BY <1>1, Kinds DEF TurnsInv, RowFits
<1>5. CASE deleted' = deleted
  <2>1. RowFits'
    BY <1>1, <1>4, <1>5 DEF TurnsInv, RowFits, EachTurnOnce, ContextMatchesThread
  <2> QED
    BY <1>1, <1>2, <1>3, <2>1 DEF TurnsInv
<1>6. CASE h \in alone /\ ResetDone(h) /\ deleted' = deleted \cup (accepted \ thread) /\ deleted' # deleted
  <2>1. PICK o \in Outcomes(h) : o.error = None
    BY <1>6 DEF ResetDone
  <2>2. step[h] = "reset" /\ call[h].answer # None
    BY <1>6, <2>1, AnswerOnCurrent DEF ResetDone, Awaiting
  <2>3. \A m \in Messages : row.context[m] = 0
    BY <1>6, <2>2 DEF TurnsInv, SendFits
  <2>4. ContextMatchesThread'
    BY <1>1, <1>6, <2>3 DEF TurnsInv, RowFits, ContextMatchesThread, ChatBase, ChatTypes
  <2>5. EachTurnOnce' /\ deleted' \subseteq accepted' /\ deleted' \cap thread' = {}
    BY <1>1, <1>6 DEF TurnsInv, RowFits, EachTurnOnce
  <2>6. RowFits'
    BY <1>1, <1>4, <2>4, <2>5 DEF TurnsInv, RowFits
  <2> QED
    BY <1>1, <1>2, <1>3, <2>6 DEF TurnsInv
<1>7. deleted' = deleted \/ (h \in alone /\ ResetDone(h) /\ deleted' = deleted \cup (accepted \ thread))
  BY DEF ChatGoesOn, Acquires, VerboseApplied, KnobApplied, Described, HistoryRead, SendAcked,
    ResetDone, CompactDone, chatVars
<1> QED
  BY <1>5, <1>6, <1>7

LEMMA TurnsArrivals == ChatBase /\ TurnsInv /\ ChatArrivals => TurnsInv'
<1> SUFFICES ASSUME ChatBase, TurnsInv, ChatArrivals PROVE TurnsInv'
  OBVIOUS
<1>1. PICK h \in ChatHandlers, message \in Messages \cup {None}, settings \in Settings :
        /\ ChatArrives(h, message, settings)
        /\ \/ /\ h \in Sends /\ message \in Messages /\ thread' = thread \cup {message}
              /\ message \notin thread => \A g \in Sends : local[g].message # message
           \/ h \notin Sends /\ message = None /\ thread' = thread
  BY ArrivalsAre
<1>2. /\ UNCHANGED <<call, row, accepted, deleted>> /\ Untouched(Handlers \ {h})
      /\ step[h] = "new" /\ step'[h] = "acquire"
      /\ \A g \in ChatHandlers \ {h} : local'[g] = local[g]
      /\ alone' = IF Pending = {} THEN alone \cup {h} ELSE alone \ Pending
  BY <1>1, ArrivesStep
<1>3. accepted \cap thread' = accepted \cap thread /\ (accepted \cap thread = accepted \cap thread')
  BY <1>1 DEF TurnsInv, RowFits
<1>4. local[h].message = None /\ None \notin Messages /\ accepted \subseteq Messages
  BY <1>2, ChatRoutesAssumption DEF ChatBase, Stage, NoLocals, ChatTypes
<1>5. \A m \in accepted' : \E g \in Sends : local'[g].message = m
  BY <1>2, <1>4, Kinds DEF TurnsInv, RowFits
<1>6. deleted' \subseteq accepted' /\ deleted' \cap thread' = {}
  BY <1>2, <1>3 DEF TurnsInv, RowFits
<1>7. ContextMatchesThread' /\ EachTurnOnce'
  BY <1>2, <1>3 DEF TurnsInv, RowFits, EachTurnOnce, ContextMatchesThread
<1>8. RowFits'
  BY <1>2, <1>5, <1>6, <1>7 DEF TurnsInv, RowFits
<1>9. ASSUME NEW g \in alone' PROVE SendFits(g)'
  <2>1. CASE g = h
    BY <1>2, <2>1 DEF SendFits
  <2>2. CASE g # h
    <3>1. g \in alone \ Pending /\ g \in Handlers \ {h}
      BY <1>2, <1>9, <2>2, Kinds DEF ChatBase, ChatTypes
    <3>2. step'[g] = "done"
      BY <1>2, <3>1, NobodyIsPending DEF Untouched
    <3> QED
      BY <3>2 DEF SendFits
  <2> QED
    BY <2>1, <2>2
<1> QED
  BY <1>8, <1>9 DEF TurnsInv

LEMMA TurnsOutside ==
  ASSUME ChatBase, TurnsInv, Rolls \/ \E m \in Messages : Deletes(m)
  PROVE  TurnsInv'
<1>1. /\ UNCHANGED <<step, accepted, local, deleted>>
      /\ alone' = alone \ Pending /\ thread' \subseteq thread
  BY DEF Rolls, Deletes, callVars
<1>2. ASSUME NEW g \in alone' PROVE SendFits(g)'
  <2>1. step'[g] = "done"
    BY <1>1, NobodyIsPending
  <2> QED
    BY <2>1 DEF SendFits
<1>3. CASE row' = row
  <2>1. EachTurnOnce' /\ ContextMatchesThread'
    BY <1>1, <1>3 DEF TurnsInv, RowFits, EachTurnOnce, ContextMatchesThread
  <2>2. RowFits'
    BY <1>1, <1>3, <2>1 DEF TurnsInv, RowFits
  <2> QED
    BY <1>2, <2>2 DEF TurnsInv
<1>4. ASSUME NEW exists \in BOOLEAN, row' = FreshRow(exists, None) PROVE TurnsInv'
  <2>1. ~row'.systemSent /\ ~row'.whole /\ row'.context = [m \in Messages |-> 0]
    BY <1>4, RowRolls
  <2>2. \A m \in Messages : row'.context[m] = 0 /\ ~(row'.context[m] > 0)
    BY <2>1
  <2>3. EachTurnOnce' /\ ContextMatchesThread'
    BY <1>1, <2>1, <2>2 DEF EachTurnOnce, ContextMatchesThread, ChatBase, ChatTypes
  <2>4. RowFits'
    BY <1>1, <2>1, <2>2, <2>3 DEF TurnsInv, RowFits
  <2> QED
    BY <1>2, <2>4 DEF TurnsInv
<1>5. row' = row \/ \E exists \in BOOLEAN : row' = FreshRow(exists, None)
  BY DEF Rolls, Deletes
<1> QED
  BY <1>3, <1>4, <1>5

LEMMA TurnsAside == ChatBase /\ TurnsInv /\ Aside => TurnsInv'
<1> SUFFICES ASSUME ChatBase, TurnsInv, Aside PROVE TurnsInv'
  OBVIOUS
<1>1. /\ UNCHANGED chatVars
      /\ \A h \in ChatHandlers : call'[h] = call[h] /\ step'[h] = step[h]
  BY DEF Aside, Untouched
<1>2. RowFits'
  BY <1>1 DEF chatVars, TurnsInv, RowFits, EachTurnOnce, ContextMatchesThread
<1>3. \A h \in alone : SendFits(h)'
  BY <1>1 DEF chatVars, TurnsInv, SendFits, Brings, Prior, ChatBase, ChatTypes
<1> QED
  BY <1>1, <1>2, <1>3 DEF chatVars, TurnsInv

LEMMA TurnsNext == ChatBase /\ TurnsInv /\ [Next]_vars => TurnsInv'
<1> SUFFICES ASSUME ChatBase, TurnsInv, [Next]_vars PROVE TurnsInv'
  OBVIOUS
<1>1. Tables
  BY DEF ChatBase
<1> QED
  BY <1>1, ChatSteps, TurnsAside, TurnsArrivals, TurnsGoesOn, TurnsServes, TurnsHistory,
    TurnsServedLate, TurnsOutside

LEMMA TurnsInit == Init => TurnsInv
<1> SUFFICES ASSUME Init PROVE TurnsInv
  OBVIOUS
<1>1. row = FreshRow(FALSE, None) /\ accepted = {} /\ deleted = {} /\ thread = {} /\ alone = {}
  BY DEF Init, ChatInit
<1>2. ~row.systemSent /\ ~row.whole /\ row.context = [m \in Messages |-> 0]
  BY <1>1, RowRolls
<1>3. \A m \in Messages : row.context[m] = 0 /\ ~(row.context[m] > 0)
  BY <1>2
<1>4. EachTurnOnce
  BY <1>3 DEF EachTurnOnce
<1>5. ContextMatchesThread
  BY <1>1, <1>2 DEF ContextMatchesThread
<1>6. RowFits
  BY <1>1, <1>2, <1>3, <1>4, <1>5 DEF RowFits
<1> QED
  BY <1>1, <1>6 DEF TurnsInv

(* Through retries, lost answers, resets and rolls the model of a chat reads no *)
(* message twice, unless requests of the chat overlapped or a history brought  *)
(* the message before its own send: for any messages and requests.            *)
THEOREM TurnsRunOnce == Spec => []EachTurnOnce
<1>1. TurnsInv => EachTurnOnce
  BY DEF TurnsInv, RowFits
<1> QED
  BY <1>1, TurnsInit, TurnsNext, ChatInvariant, PTL DEF Spec

(* The model of a session that a send opened with the history in hand knows     *)
(* what the gateway took of the thread but for what a full block of history    *)
(* had no room for, and nothing deleted before a /reset answered 200: for any   *)
(* messages and requests, and any size of the block.                          *)
THEOREM ContextIsThread == Spec => []ContextMatchesThread
<1>1. TurnsInv => ContextMatchesThread
  BY DEF TurnsInv, RowFits
<1> QED
  BY <1>1, TurnsInit, TurnsNext, ChatInvariant, PTL DEF Spec

-----------------------------------------------------------------------------
(* The intents *)

(* With these patches left, and these overrides, w will hold in the end.       *)
Settles(left, w, override) ==
  \/ \E i \in 1 .. Len(left) :
       left[i] = w /\ \A j \in i .. Len(left) : left[j].knob = w.knob => left[j] = w
  \/ /\ override[w.knob] = w.level
     /\ \A j \in 1 .. Len(left) : left[j].knob = w.knob => left[j] = w

(* Unsets come first.                                                         *)
ClearsFirst(left) ==
  \A i, j \in 1 .. Len(left) : i < j /\ left[j].level = None => left[i].level = None

(* What h still owes of its intent once a patch failed.                       *)
Due(h, w) == ~local[h].failed \/ (h \in Patches /\ w.level = None)

KnobFits(h) ==
  /\ reply[h] = "pending" /\ h \in Sends \cup Patches =>
       /\ ClearsFirst(local[h].left)
       /\ \A w \in Wanted(local[h].intent) : Due(h, w) => Settles(local[h].left, w, row.override)
  /\ step[h] = "knobs" /\ call[h].answer # None =>
       row.override[Head(local[h].left).knob] = Head(local[h].left).level
  /\ local[h].ran # None =>
       \A w \in Wanted(local[h].intent) : Due(h, w) => local[h].ran[w.knob] = w.level

KnobsInv == \A h \in alone : KnobFits(h)

LEMMA WantedArePatches ==
  ASSUME NEW settings \in Settings, NEW w \in Wanted(settings)
  PROVE  w \in KnobPatches
BY DEF Wanted, Settings, KnobPatches

(* The patches of an intent settle it.                                        *)
LEMMA PatchesSettle ==
  ASSUME NEW settings \in Settings, NEW override
  PROVE  /\ ClearsFirst(PatchesOf(settings))
         /\ \A w \in Wanted(settings) : Settles(PatchesOf(settings), w, override)
<1> DEFINE t == PatchesOf(settings)
           clears == settings.clears
           sets == settings.sets
<1>1. clears \in Seq(Knobs) /\ sets \in [Knobs -> Levels \cup {None}]
  BY DEF Settings
<1>2. /\ t \in Seq(KnobPatches) /\ Len(clears) \in Nat /\ Len(clears) <= Len(t)
      /\ \A i \in 1 .. Len(clears) : t[i] = [knob |-> clears[i], level |-> None]
      /\ \A i \in 1 .. Len(t) : i > Len(clears) => t[i].level # None /\ t[i].level = sets[t[i].knob]
      /\ \A k \in Knobs : sets[k] # None =>
           \E i \in 1 .. Len(t) : i > Len(clears) /\ t[i] = [knob |-> k, level |-> sets[k]]
  BY <1>1, PatchesLaid DEF Laid
<1>3. \A w \in Wanted(settings) :
        \/ w.knob \in Knobs /\ sets[w.knob] # None /\ w = [knob |-> w.knob, level |-> sets[w.knob]]
        \/ /\ w.knob \in Knobs /\ sets[w.knob] = None /\ w = [knob |-> w.knob, level |-> None]
           /\ \E i \in 1 .. Len(clears) : clears[i] = w.knob
  BY <1>1 DEF Wanted
<1> HIDE DEF t, clears, sets
<1>4. /\ Len(t) \in Nat
      /\ \A i \in 1 .. Len(t) : t[i] = [knob |-> t[i].knob, level |-> t[i].level]
  <2>1. Len(t) \in Nat /\ \A i \in 1 .. Len(t) : t[i] \in KnobPatches
    BY <1>2
  <2>2. \A p \in KnobPatches : p = [knob |-> p.knob, level |-> p.level]
    BY DEF KnobPatches
  <2> QED
    BY <2>1, <2>2
<1>5. ClearsFirst(t)
  <2> SUFFICES ASSUME NEW i \in 1 .. Len(t), NEW j \in 1 .. Len(t), i < j, t[j].level = None
               PROVE  t[i].level = None
    BY DEF ClearsFirst
  <2>1. j <= Len(clears)
    BY <1>2, <1>4
  <2>2. i \in 1 .. Len(clears)
    BY <1>2, <1>4, <2>1
  <2>3. t[i] = [knob |-> clears[i], level |-> None]
    BY <1>2, <2>2
  <2> QED
    BY <2>3
<1>6. ASSUME NEW w \in Wanted(settings) PROVE Settles(t, w, override)
  <2>1. ASSUME w.knob \in Knobs, sets[w.knob] # None, w = [knob |-> w.knob, level |-> sets[w.knob]]
        PROVE  Settles(t, w, override)
    <3>1. PICK i \in 1 .. Len(t) : i > Len(clears) /\ t[i] = w
      BY <1>2, <2>1
    <3>2. ASSUME NEW j \in i .. Len(t), t[j].knob = w.knob PROVE t[j] = w
      <4>1. j \in 1 .. Len(t) /\ j > Len(clears)
        BY <1>2, <1>4, <3>1
      <4> QED
        BY <1>2, <1>4, <2>1, <3>2, <4>1
    <3> QED
      BY <3>1, <3>2 DEF Settles
  <2>2. ASSUME w.knob \in Knobs, sets[w.knob] = None, w = [knob |-> w.knob, level |-> None],
               NEW i \in 1 .. Len(clears), clears[i] = w.knob
        PROVE  Settles(t, w, override)
    <3>1. i \in 1 .. Len(t) /\ t[i] = w
      BY <1>2, <1>4, <2>2
    <3>2. ASSUME NEW j \in i .. Len(t), t[j].knob = w.knob PROVE t[j] = w
      <4>1. j \in 1 .. Len(t)
        BY <1>4, <3>1
      <4>2. j <= Len(clears)
        BY <1>2, <2>2, <3>2, <4>1
      <4>3. t[j] = [knob |-> clears[j], level |-> None]
        BY <1>2, <4>1, <4>2
      <4> QED
        BY <2>2, <3>2, <4>3
    <3> QED
      BY <3>1, <3>2 DEF Settles
  <2> QED
    BY <1>3, <2>1, <2>2
<1> QED
  BY <1>5, <1>6 DEF t

(* A patch that is done leaves the rest to be done.                           *)
LEMMA SettlesTail ==
  ASSUME NEW left \in Seq(KnobPatches), left # <<>>, NEW w, NEW override,
         Settles(left, w, override), override[Head(left).knob] = Head(left).level
  PROVE  Settles(Tail(left), w, override)
<1>1. /\ Len(left) \in Nat /\ Len(left) > 0 /\ Len(Tail(left)) = Len(left) - 1
      /\ \A i \in 1 .. Len(left) - 1 : Tail(left)[i] = left[i + 1]
      /\ Head(left) = left[1]
  OBVIOUS
<1>2. CASE /\ override[w.knob] = w.level
           /\ \A j \in 1 .. Len(left) : left[j].knob = w.knob => left[j] = w
  <2>1. \A j \in 1 .. Len(Tail(left)) : Tail(left)[j].knob = w.knob => Tail(left)[j] = w
    BY <1>1, <1>2
  <2> QED
    BY <1>2, <2>1 DEF Settles
<1>3. ASSUME NEW i \in 1 .. Len(left), left[i] = w,
             \A j \in i .. Len(left) : left[j].knob = w.knob => left[j] = w
      PROVE  Settles(Tail(left), w, override)
  <2>1. CASE i = 1
    BY <1>1, <1>2, <1>3, <2>1
  <2>2. CASE i > 1
    <3>1. i - 1 \in 1 .. Len(Tail(left)) /\ Tail(left)[i - 1] = w
      BY <1>1, <1>3, <2>2
    <3>2. ASSUME NEW j \in (i - 1) .. Len(Tail(left)), Tail(left)[j].knob = w.knob
          PROVE  Tail(left)[j] = w
      <4>1. j \in 1 .. Len(left) - 1 /\ j + 1 \in i .. Len(left)
        BY <1>1, <2>2
      <4> QED
        BY <1>1, <1>3, <3>2, <4>1
    <3> QED
      BY <3>1, <3>2 DEF Settles
  <2> QED
    BY <1>1, <2>1, <2>2
<1> QED
  BY <1>2, <1>3 DEF Settles

LEMMA ClearsFirstTail ==
  ASSUME NEW left \in Seq(KnobPatches), left # <<>>, ClearsFirst(left)
  PROVE  ClearsFirst(Tail(left))
<1>1. /\ Len(left) \in Nat /\ Len(Tail(left)) = Len(left) - 1
      /\ \A i \in 1 .. Len(left) - 1 : Tail(left)[i] = left[i + 1]
  OBVIOUS
<1> SUFFICES ASSUME NEW i \in 1 .. Len(Tail(left)), NEW j \in 1 .. Len(Tail(left)),
                    i < j, Tail(left)[j].level = None
             PROVE  Tail(left)[i].level = None
  BY DEF ClearsFirst
<1>2. i + 1 \in 1 .. Len(left) /\ j + 1 \in 1 .. Len(left) /\ i + 1 < j + 1
  BY <1>1
<1> QED
  BY <1>1, <1>2 DEF ClearsFirst

(* One that is applied settles no less.                                       *)
LEMMA SettlesApplied ==
  ASSUME NEW left \in Seq(KnobPatches), left # <<>>, NEW w, w.knob \in Knobs, NEW override,
         override \in [Knobs -> Levels \cup {None}], Settles(left, w, override)
  PROVE  Settles(left, w, [override EXCEPT ![Head(left).knob] = Head(left).level])
<1>1. Len(left) \in Nat /\ 1 \in 1 .. Len(left) /\ Head(left) = left[1]
  OBVIOUS
<1> DEFINE applied == [override EXCEPT ![Head(left).knob] = Head(left).level]
<1>2. CASE /\ override[w.knob] = w.level
           /\ \A j \in 1 .. Len(left) : left[j].knob = w.knob => left[j] = w
  <2>1. applied[w.knob] = w.level
    BY <1>1, <1>2
  <2> HIDE DEF applied
  <2> QED
    BY <1>2, <2>1 DEF Settles
<1> HIDE DEF applied
<1> QED
  BY <1>2 DEF Settles, applied

LEMMA SettledInTheEnd ==
  ASSUME NEW w, NEW override, Settles(<<>>, w, override)
  PROVE  override[w.knob] = w.level
BY DEF Settles

(* What a request of h does to the overrides.                                 *)
KnobsAfter(h, r) ==
  \/ row'.override = row.override /\ r.method # "sessions.patch"
  \/ row'.override = row.override /\ r = VerbosePatch
  \/ \E p \in KnobPatches :
       r = KnobPatch(p) /\ row'.override = [row.override EXCEPT ![p.knob] = p.level]
  \/ h \in Resets

LEMMA DoesKnobs ==
  ASSUME ChatTypes, NEW h \in ChatHandlers, NEW r, Asked(h, r), Happened(h, r)
  PROVE  KnobsAfter(h, r)
<1> PICK undisturbed \in BOOLEAN : Does(h, r, undisturbed)
  BY DEF Happened
<1>0. row \in Rows
  BY DEF ChatTypes
<1> DEFINE Talks == r = VerbosePatch /\ row' = [row EXCEPT !.exists = TRUE, !.verbose = TRUE]
           Patched ==
             \E p \in KnobPatches :
               r = KnobPatch(p) /\ row' = [row EXCEPT !.exists = TRUE, !.override[p.knob] = p.level]
           Idle == r.method \notin {"chat.send", "sessions.patch", "sessions.reset"} /\ row' = row
           AskedForTurn ==
             /\ local[h].message \in Messages
             /\ \E history \in SUBSET Messages :
                  /\ r = ChatSend(local[h].message, history)
                  /\ row' = row \/ Runs(h, local[h].message, history, undisturbed)
<1>1. CASE Talks
  BY <1>0, <1>1 DEF Rows, KnobsAfter
<1>2. ASSUME NEW p \in KnobPatches, row' = [row EXCEPT !.exists = TRUE, !.override[p.knob] = p.level]
      PROVE  row'.override = [row.override EXCEPT ![p.knob] = p.level]
  BY <1>0, <1>2 DEF Rows
<1>3. CASE Patched
  BY <1>2, <1>3 DEF KnobsAfter
<1>4. CASE h \in Resets
  BY <1>4 DEF KnobsAfter
<1>5. CASE Idle
  BY <1>5 DEF KnobsAfter
<1>6. CASE AskedForTurn
  <2>1. PICK m \in Messages : m = local[h].message
    BY <1>6
  <2>2. PICK history \in SUBSET Messages :
          r = ChatSend(m, history) /\ (row' = row \/ Runs(h, m, history, undisturbed))
    BY <1>6, <2>1
  <2>3. r.method # "sessions.patch"
    BY <2>2, Methods
  <2>4. row' = row \/ TurnRan(h, m, history, undisturbed)
    BY <2>2, RunsSets
  <2>5. row'.override = row.override
    BY <2>4 DEF TurnRan
  <2> QED
    BY <2>3, <2>5 DEF KnobsAfter
<1>7. Talks \/ Patched \/ h \in Resets \/ Idle \/ AskedForTurn
  BY DoesCases
<1> HIDE DEF Talks, Patched, Idle, AskedForTurn
<1> QED
  BY <1>1, <1>3, <1>4, <1>5, <1>6, <1>7

(* A handler that is done keeps to what its turn ran with.                    *)
LEMMA KnobsKept ==
  ASSUME NEW h, KnobFits(h), step'[h] = "done", reply'[h] # "pending",
         local'[h].ran = local[h].ran \/ local'[h].ran = None, local'[h].intent = local[h].intent,
         local'[h].failed = local[h].failed
  PROVE  KnobFits(h)'
BY DEF KnobFits, Due

LEMMA KnobsServes ==
  ASSUME ChatBase, KnobsInv, NEW h \in ChatHandlers, ChatServes(h)
  PROVE  KnobsInv'
<1>1. /\ UNCHANGED <<link, late, step, reply, verboseFull, thread, alone, deleted>>
      /\ step[h] \in Awaiting \ {"history"}
      /\ reply[h] = "pending" /\ Asked(h, call[h].request)
      /\ Does(h, call[h].request, h \in alone)
      /\ \A g \in Handlers \ {h} : call'[g] = call[g]
  BY ChatServesStep
<1>2. Happened(h, call[h].request)
  <2> SUFFICES \E undisturbed \in BOOLEAN : Does(h, call[h].request, undisturbed)
    BY DEF Happened
  <2> WITNESS (h \in alone) \in BOOLEAN
  <2> QED
    BY <1>1
<1>3. ChatTypes /\ Stage(h) /\ Asking(h) /\ local[h] \in Locals /\ row.override \in [Knobs -> Levels \cup {None}]
  BY DEF ChatBase, ChatTypes, Rows
<1>4. SessionKept(h, call[h].request) /\ KnobsAfter(h, call[h].request)
  BY <1>1, <1>2, <1>3, DoesKeeps, DoesKnobs
<1>5. /\ local'[h].left = local[h].left /\ local'[h].intent = local[h].intent
      /\ local'[h].failed = local[h].failed
      /\ \A g \in ChatHandlers \ {h} : local'[g] = local[g]
      /\ \/ local'[h].ran = local[h].ran
         \/ h \in Sends /\ call[h].request.method = "chat.send" /\ local'[h].ran = row.override
  BY <1>3, <1>4 DEF SessionKept, Locals
<1>6. ASSUME h \in alone PROVE KnobFits(h)'
  <2>1. KnobFits(h) /\ local[h].left \in Seq(KnobPatches) /\ local[h].intent \in Settings
    BY <1>3, <1>6 DEF KnobsInv, Locals
  <2>2. ASSUME NEW p \in KnobPatches, call[h].request = KnobPatch(p)
        PROVE  step[h] = "knobs" /\ local[h].left # <<>> /\ p = Head(local[h].left)
    <3>1. call[h].request.method = "sessions.patch" /\ call[h].request.patch = p /\ ~call[h].request.verbose
      BY <2>2 DEF KnobPatch
    <3>2. step[h] = "knobs"
      <4>1. step[h] # "send"
        BY <1>3, <3>1, Methods DEF Asking
      <4>2. step[h] \notin {"describe", "reset", "compact"}
        BY <1>3, <3>1, Methods DEF Asking, Compact
      <4>3. step[h] # "verbose"
        BY <1>3, <3>1 DEF Asking, VerbosePatch
      <4> QED
        BY <1>1, <4>1, <4>2, <4>3 DEF Awaiting
    <3>3. local[h].left # <<>> /\ call[h].request = KnobPatch(Head(local[h].left))
      BY <1>3, <3>2 DEF Asking
    <3>4. call[h].request.patch = Head(local[h].left)
      BY <3>3 DEF KnobPatch
    <3> QED
      BY <3>1, <3>2, <3>3, <3>4
  <2>3. ASSUME h \in Sends \cup Patches, NEW w \in Wanted(local[h].intent), Due(h, w)
        PROVE  Settles(local[h].left, w, row'.override)
    <3>1. Settles(local[h].left, w, row.override) /\ w \in KnobPatches /\ w.knob \in Knobs
      BY <1>1, <2>1, <2>3, WantedArePatches DEF KnobFits, KnobPatches
    <3>2. CASE row'.override = row.override
      BY <3>1, <3>2
    <3>3. CASE \E p \in KnobPatches :
                 call[h].request = KnobPatch(p) /\ row'.override = [row.override EXCEPT ![p.knob] = p.level]
      BY <1>3, <2>1, <2>2, <3>1, <3>3, SettlesApplied
    <3>4. h \notin Resets
      BY <2>3, Kinds
    <3> QED
      BY <1>4, <3>2, <3>3, <3>4 DEF KnobsAfter
  <2>4. ASSUME step[h] = "knobs"
        PROVE  row'.override[Head(local[h].left).knob] = Head(local[h].left).level
    <3>1. /\ h \notin Resets /\ local[h].left # <<>>
          /\ call[h].request = KnobPatch(Head(local[h].left))
      BY <1>3, <2>4, Kinds DEF Asking
    <3>2. call[h].request.method = "sessions.patch" /\ call[h].request # VerbosePatch
      BY <3>1 DEF KnobPatch, VerbosePatch
    <3>3. PICK p \in KnobPatches :
            call[h].request = KnobPatch(p) /\ row'.override = [row.override EXCEPT ![p.knob] = p.level]
      BY <1>4, <3>1, <3>2 DEF KnobsAfter
    <3>4. p = Head(local[h].left) /\ p.knob \in Knobs
      BY <2>2, <3>3 DEF KnobPatches
    <3>5. row'.override[p.knob] = p.level
      BY <1>3, <3>3, <3>4
    <3> QED
      BY <3>4, <3>5
  <2>5. ASSUME local'[h].ran = row.override, h \in Sends, call[h].request.method = "chat.send",
               NEW w \in Wanted(local[h].intent), Due(h, w)
        PROVE  row.override[w.knob] = w.level
    <3>1. step[h] = "send"
      BY <1>1, <2>5, AskedMethod
    <3>2. local[h].left = <<>>
      BY <1>3, <3>1 DEF Stage
    <3>3. Settles(<<>>, w, row.override)
      BY <1>1, <2>1, <2>5, <3>2 DEF KnobFits
    <3> QED
      BY <3>3, SettledInTheEnd
  <2>6. \A w : Due(h, w)' <=> Due(h, w)
    BY <1>5 DEF Due
  <2>7. local'[h].ran # None =>
          \A w \in Wanted(local[h].intent) : Due(h, w) => local'[h].ran[w.knob] = w.level
    BY <1>5, <2>1, <2>5 DEF KnobFits
  <2> QED
    BY <1>1, <1>5, <2>1, <2>3, <2>4, <2>6, <2>7 DEF KnobFits
<1>7. ASSUME NEW g \in alone, g # h PROVE KnobFits(g)'
  <2>1. g \in ChatHandlers /\ step[g] = "done" /\ KnobFits(g)
    BY <1>1, <1>7, OthersAreDone DEF ChatBase, ChatTypes, KnobsInv
  <2>2. reply[g] # "pending"
    BY <2>1 DEF ChatBase, Stage
  <2> QED
    BY <1>1, <1>5, <1>7, <2>1, <2>2, KnobsKept
<1> QED
  BY <1>1, <1>6, <1>7 DEF KnobsInv

LEMMA KnobsServedLate ==
  ASSUME ChatBase, KnobsInv, NEW l \in late, l.by \in ChatHandlers, ChatServedLate(l)
  PROVE  KnobsInv'
<1>1. /\ UNCHANGED <<step, reply>>
      /\ alone' = alone \ (Pending \cup {l.by}) /\ Does(l.by, l.request, FALSE)
  BY DEF ChatServedLate
<1>2. PICK h \in ChatHandlers : h = l.by
  OBVIOUS
<1>3. Asked(h, l.request) /\ Happened(h, l.request) /\ ChatTypes
  BY <1>1, <1>2 DEF ChatBase, Left, Happened
<1>4. \A g \in ChatHandlers \ {h} : local'[g] = local[g]
  BY <1>3, DoesKeeps DEF SessionKept
<1>5. ASSUME NEW g \in alone' PROVE KnobFits(g)'
  <2>1. g \in ChatHandlers \ {h} /\ g \in alone \ Pending /\ KnobFits(g)
    BY <1>1, <1>2, <1>3 DEF ChatTypes, KnobsInv
  <2>2. step[g] = "done" /\ reply[g] # "pending"
    BY <2>1, NobodyIsPending DEF Pending
  <2> QED
    BY <1>1, <1>4, <2>1, <2>2, KnobsKept
<1> QED
  BY <1>5 DEF KnobsInv

LEMMA KnobsHistory ==
  ASSUME ChatBase, KnobsInv, NEW h \in ChatHandlers, HistoryServed(h)
  PROVE  KnobsInv'
<1>1. /\ UNCHANGED <<step, reply>> /\ UNCHANGED chatVars /\ step[h] = "history"
      /\ \A g \in Handlers \ {h} : call'[g] = call[g]
  BY HistoryServedStep
<1>2. \A g \in alone : step[g] = "knobs" => call'[g] = call[g]
  BY <1>1, Kinds DEF ChatBase, ChatTypes
<1> QED
  BY <1>1, <1>2 DEF chatVars, KnobsInv, KnobFits, Due

(* What goes on without a patch keeps what is left.                           *)
LEMMA KnobsStay ==
  ASSUME NEW h, KnobFits(h), row' = row, reply[h] = "pending", call'[h].answer = None,
         local'[h].left = local[h].left, local'[h].intent = local[h].intent,
         local'[h].failed = local[h].failed, local'[h].ran = local[h].ran
  PROVE  KnobFits(h)'
BY DEF KnobFits, Due

LEMMA AcquiresLeaves ==
  ASSUME ChatBase, NEW h \in ChatHandlers,
         Acquires(h) \/ VerboseApplied(h) \/ SendAcked(h) \/ ResetDone(h) \/ CompactDone(h)
  PROVE  /\ local'[h].left = local[h].left /\ local'[h].intent = local[h].intent
         /\ local'[h].failed = local[h].failed /\ local'[h].ran = local[h].ran
<1>1. local \in [ChatHandlers -> Locals] /\ local[h] \in Locals
  BY DEF ChatBase, ChatTypes
<1>2. local' = local \/ \E l : local' = [local EXCEPT ![h].on = l]
  BY DEF Acquires, Given, VerboseApplied, SendAcked, ResetDone, CompactDone, chatVars
<1> QED
  BY <1>1, <1>2 DEF Locals

LEMMA KnobAppliedFits ==
  ASSUME ChatBase, NEW h \in ChatHandlers, KnobFits(h), KnobApplied(h)
  PROVE  KnobFits(h)'
<1>1. /\ step[h] = "knobs" /\ local[h].left \in Seq(KnobPatches) /\ local[h].left # <<>>
      /\ row' = row
      /\ local'[h].ran = local[h].ran /\ local'[h].intent = local[h].intent
  BY KnobStep
<1>2. PICK o \in Outcomes(h) :
        \/ /\ o.error = None
           /\ local'[h].left = Tail(local[h].left) /\ local'[h].failed = local[h].failed
        \/ /\ o.error # None
           /\ \/ h \in Patches /\ Head(local[h].left).level = None /\ Replies(h, "502")
              \/ /\ ~(h \in Patches /\ Head(local[h].left).level = None)
                 /\ Asks(h, "describe", local[h].on, Describe)
           /\ local'[h].left = <<>> /\ local'[h].failed
  BY KnobStep
<1>3. /\ h \in Sends \cup Patches /\ reply[h] = "pending" /\ local[h].ran = None
  BY <1>1 DEF ChatBase, Stage, Asking, Awaiting
<1>4. /\ ClearsFirst(local[h].left)
      /\ \A w \in Wanted(local[h].intent) : Due(h, w) => Settles(local[h].left, w, row.override)
  BY <1>3 DEF KnobFits
<1>5. call'[h].answer = None
  BY CallIsShaped DEF ChatBase, ChatGoesOn
<1>6. CASE o.error = None /\ local'[h].left = Tail(local[h].left) /\ local'[h].failed = local[h].failed
  <2>1. call[h].answer # None
    BY <1>1, <1>6, AnswerOnCurrent DEF Awaiting
  <2>2. row.override[Head(local[h].left).knob] = Head(local[h].left).level
    BY <1>1, <2>1 DEF KnobFits
  <2>3. ClearsFirst(local'[h].left)
    BY <1>1, <1>4, <1>6, ClearsFirstTail
  <2>4. ASSUME NEW w \in Wanted(local[h].intent), Due(h, w)
        PROVE  Settles(local'[h].left, w, row.override)
    BY <1>1, <1>4, <1>6, <2>2, <2>4, SettlesTail
  <2>5. \A w : Due(h, w)' <=> Due(h, w)
    BY <1>6 DEF Due
  <2> QED
    BY <1>1, <1>3, <1>5, <2>3, <2>4, <2>5 DEF KnobFits
<1>7. CASE Replies(h, "502")
  <2>1. reply'[h] = "502"
    BY <1>7, Kinds DEF Replies, ChatBase, Tables
  <2> QED
    BY <1>1, <1>3, <1>5, <2>1 DEF KnobFits
<1>8. CASE /\ ~(h \in Patches /\ Head(local[h].left).level = None)
           /\ local'[h].left = <<>> /\ local'[h].failed
  <2>1. ASSUME NEW w \in Wanted(local[h].intent), Due(h, w)'
        PROVE  Settles(<<>>, w, row.override)
    <3>1. h \in Patches /\ w.level = None /\ Head(local[h].left).level # None
      BY <1>8, <2>1 DEF Due
    <3>2. Settles(local[h].left, w, row.override)
      BY <1>4, <3>1 DEF Due
    <3>3. /\ Len(local[h].left) \in Nat /\ 1 \in 1 .. Len(local[h].left)
          /\ Head(local[h].left) = local[h].left[1]
      BY <1>1
    <3>4. ASSUME NEW i \in 1 .. Len(local[h].left) PROVE local[h].left[i] # w
      <4>1. CASE i = 1
        BY <3>1, <3>3, <4>1
      <4>2. CASE i # 1
        <5>1. 1 < i
          BY <3>3, <4>2
        <5>2. local[h].left[i].level # None
          BY <1>4, <3>1, <3>3, <5>1 DEF ClearsFirst
        <5> QED
          BY <3>1, <5>2
      <4> QED
        BY <4>1, <4>2
    <3>5. row.override[w.knob] = w.level
      BY <3>2, <3>4 DEF Settles
    <3> QED
      BY <3>5 DEF Settles
  <2>2. ClearsFirst(<<>>)
    BY DEF ClearsFirst
  <2> QED
    BY <1>1, <1>3, <1>5, <1>8, <2>1, <2>2 DEF KnobFits
<1> QED
  BY <1>2, <1>6, <1>7, <1>8

LEMMA DescribedKnobs ==
  ASSUME ChatBase, NEW h \in ChatHandlers, KnobFits(h), Described(h)
  PROVE  KnobFits(h)'
<1>1. /\ step[h] = "describe" /\ row' = row
      /\ local'[h].left = local[h].left /\ local'[h].failed = local[h].failed
      /\ local'[h].intent = local[h].intent
      /\ \/ /\ h \in Patches /\ step'[h] = "done" /\ reply'[h] = "200"
            /\ local'[h].ran = row.override
         \/ local'[h].ran = local[h].ran /\ call'[h].answer = None
  BY DescribedStep
<1>2. /\ h \in Sends \cup Patches /\ reply[h] = "pending" /\ local[h].left = <<>>
  BY <1>1 DEF ChatBase, Stage, Asking, Awaiting
<1>3. CASE local'[h].ran = local[h].ran /\ call'[h].answer = None
  BY <1>1, <1>2, <1>3, KnobsStay
<1>4. CASE /\ h \in Patches /\ step'[h] = "done" /\ reply'[h] = "200"
           /\ local'[h].ran = row.override
  <2>1. ASSUME NEW w \in Wanted(local[h].intent), Due(h, w)'
        PROVE  row.override[w.knob] = w.level
    <3>1. Due(h, w)
      BY <1>1, <2>1 DEF Due
    <3>2. Settles(<<>>, w, row.override)
      BY <1>2, <3>1 DEF KnobFits
    <3> QED
      BY <3>2, SettledInTheEnd
  <2> QED
    BY <1>1, <1>4, <2>1 DEF KnobFits
<1> QED
  BY <1>1, <1>3, <1>4

LEMMA KnobsGoesOn ==
  ASSUME ChatBase, KnobsInv, NEW h \in ChatHandlers, ChatGoesOn(h)
  PROVE  KnobsInv'
<1>1. /\ UNCHANGED <<row, accepted, thread, alone>> /\ reply[h] = "pending"
      /\ \A g \in ChatHandlers \ {h} :
           call'[g] = call[g] /\ step'[g] = step[g] /\ reply'[g] = reply[g] /\ local'[g] = local[g]
  BY GoesOnKeeps
<1>2. call'[h].answer = None
  BY CallIsShaped DEF ChatBase
<1>3. ASSUME h \in alone PROVE KnobFits(h)'
  <2>1. KnobFits(h)
    BY <1>3 DEF KnobsInv
  <2>2. CASE Acquires(h) \/ VerboseApplied(h) \/ SendAcked(h) \/ ResetDone(h) \/ CompactDone(h)
    BY <1>1, <1>2, <2>1, <2>2, AcquiresLeaves, KnobsStay
  <2>3. CASE HistoryRead(h)
    BY <1>1, <1>2, <2>1, <2>3, HistoryStep, KnobsStay
  <2> QED
    BY <2>1, <2>2, <2>3, KnobAppliedFits, DescribedKnobs DEF ChatGoesOn
<1>4. ASSUME NEW g \in alone, g # h PROVE KnobFits(g)'
  <2>1. g \in ChatHandlers /\ step[g] = "done" /\ KnobFits(g)
    BY <1>1, <1>4, OthersAreDone DEF ChatBase, ChatTypes, KnobsInv
  <2>2. reply[g] # "pending"
    BY <2>1 DEF ChatBase, Stage
  <2> QED
    BY <1>1, <1>4, <2>1, <2>2, KnobsKept
<1> QED
  BY <1>1, <1>3, <1>4 DEF KnobsInv

LEMMA KnobsArrivals == ChatBase /\ KnobsInv /\ ChatArrivals => KnobsInv'
<1> SUFFICES ASSUME ChatBase, KnobsInv, ChatArrivals PROVE KnobsInv'
  OBVIOUS
<1>1. PICK h \in ChatHandlers, message \in Messages \cup {None}, settings \in Settings :
        ChatArrives(h, message, settings)
  BY ArrivalsAre
<1>2. /\ UNCHANGED <<call, row>> /\ Untouched(Handlers \ {h})
      /\ step'[h] = "acquire"
      /\ \A g \in ChatHandlers \ {h} : local'[g] = local[g]
      /\ local'[h].intent = settings /\ local'[h].left = PatchesOf(settings)
      /\ local'[h].ran = None
      /\ alone' = IF Pending = {} THEN alone \cup {h} ELSE alone \ Pending
  BY <1>1, ArrivesStep
<1>3. KnobFits(h)'
  <2>1. /\ ClearsFirst(PatchesOf(settings))
        /\ \A w \in Wanted(settings) : Settles(PatchesOf(settings), w, row.override)
    BY PatchesSettle
  <2> QED
    BY <1>2, <2>1 DEF KnobFits
<1>4. ASSUME NEW g \in alone', g # h PROVE KnobFits(g)'
  <2>1. g \in alone \ Pending /\ g \in Handlers \ {h} /\ g \in ChatHandlers \ {h} /\ KnobFits(g)
    BY <1>2, <1>4, Kinds DEF ChatBase, ChatTypes, KnobsInv
  <2>2. step[g] = "done" /\ reply[g] # "pending"
    BY <2>1, NobodyIsPending DEF Pending
  <2>3. step'[g] = "done" /\ reply'[g] # "pending"
    BY <1>2, <2>1, <2>2 DEF Untouched
  <2> QED
    BY <1>2, <2>1, <2>3, KnobsKept
<1> QED
  BY <1>3, <1>4 DEF KnobsInv

LEMMA KnobsOutside ==
  ASSUME ChatBase, KnobsInv, Rolls \/ \E m \in Messages : Deletes(m)
  PROVE  KnobsInv'
<1>1. UNCHANGED <<step, reply, local>> /\ alone' = alone \ Pending
  BY DEF Rolls, Deletes, callVars
<1> SUFFICES ASSUME NEW g \in alone' PROVE KnobFits(g)'
  BY DEF KnobsInv
<1>2. g \in alone \ Pending /\ g \in ChatHandlers /\ KnobFits(g)
  BY <1>1 DEF ChatBase, ChatTypes, KnobsInv
<1>3. step[g] = "done" /\ reply[g] # "pending"
  BY <1>2, NobodyIsPending DEF Pending
<1> QED
  BY <1>1, <1>2, <1>3, KnobsKept

LEMMA KnobsAside == ChatBase /\ KnobsInv /\ Aside => KnobsInv'
<1> SUFFICES ASSUME ChatBase, KnobsInv, Aside PROVE KnobsInv'
  OBVIOUS
<1>1. /\ UNCHANGED chatVars
      /\ \A h \in ChatHandlers : call'[h] = call[h] /\ step'[h] = step[h] /\ reply'[h] = reply[h]
  BY DEF Aside, Untouched
<1> QED
  BY <1>1 DEF chatVars, KnobsInv, KnobFits, Due, ChatBase, ChatTypes

LEMMA KnobsNext == ChatBase /\ KnobsInv /\ [Next]_vars => KnobsInv'
<1> SUFFICES ASSUME ChatBase, KnobsInv, [Next]_vars PROVE KnobsInv'
  OBVIOUS
<1>1. Tables
  BY DEF ChatBase
<1> QED
  BY <1>1, ChatSteps, KnobsAside, KnobsArrivals, KnobsGoesOn, KnobsServes, KnobsHistory,
    KnobsServedLate, KnobsOutside

(* A turn runs with the overrides its /send asked for, when nothing else       *)
(* touched the session and no patch failed, and a /patch answered 200 has had   *)
(* its unsets applied: for any intents, levels and requests.                  *)
THEOREM IntentsHonoured == Spec => []IntentHonoured
<1>1. Init => KnobsInv
  BY DEF Init, ChatInit, KnobsInv
<1>2. KnobsInv => IntentHonoured
  BY DEF KnobsInv, KnobFits, Due, IntentHonoured
<1> QED
  BY <1>1, <1>2, KnobsNext, ChatInvariant, PTL DEF Spec

-----------------------------------------------------------------------------
(* The types of the whole bridge *)

Operators == FileRequests \cup ConfigRequests
LinkStates == {"none", "open", "lost", "killed", "closed"}
Answered == {"200", "409", "502"}

(* What the invariants of the routes do not say of the tables they share, and  *)
(* the bound of the file: an operator route leaves no connection behind.       *)
Wired ==
  /\ up \in BOOLEAN
  /\ link \in [Handlers -> LinkStates]
  /\ reply \in [Handlers -> {"none", "pending"} \cup Answered]
  /\ file \in 0 .. MaxVersion
  /\ \A h \in Operators :
       /\ Shaped(call[h]) /\ call[h].on \in {h, None}
       /\ reply[h] # "pending" => call[h] = NoCall /\ link[h] \in {"none", "closed"}
  /\ \A l \in late : l.by \in Handlers

BridgeInv == FileInv /\ ConfigInv /\ ChatBase

(* The tables after a step of h: one entry of its own at most.                *)
Enters(h) ==
  /\ up' = up
  /\ link' = link \/ \E s \in LinkStates : link' = [link EXCEPT ![h] = s]
  /\ reply' = reply \/ \E s \in Answered : reply' = [reply EXCEPT ![h] = s]

LEMMA HandlerKinds ==
  /\ Handlers = Operators \cup ChatHandlers /\ Operators \cap ChatHandlers = {}
  /\ FileRequests \subseteq Operators /\ ConfigRequests \subseteq Operators
BY BridgeServerAssumption DEF Operators

LEMMA WiredTypes == BridgeInv /\ Wired => TypeOK
<1> SUFFICES ASSUME BridgeInv, Wired PROVE TypeOK
  OBVIOUS
<1>1. ASSUME NEW h \in ChatHandlers
      PROVE  /\ call[h].on \in Handlers \cup {None}
             /\ reply[h] # "pending" => call[h] = NoCall
  <2>1. Stage(h) /\ Asking(h)
    BY DEF BridgeInv, ChatBase
  <2>2. CASE step[h] \in Awaiting
    BY <2>1, <2>2, Kinds DEF Stage, Asking, Awaiting
  <2>3. CASE step[h] \notin Awaiting
    BY <2>1, <2>3 DEF Stage, NoCall
  <2> QED
    BY <2>2, <2>3
<1>2. CallsTypeOK
  <2>1. link \in [Handlers -> {"none", "open", "lost", "killed", "closed"}]
        /\ reply \in [Handlers -> {"none", "pending", "200", "409", "502"}]
    <3>1. {"none", "pending"} \cup Answered = {"none", "pending", "200", "409", "502"}
      BY DEF Answered
    <3> QED
      BY <3>1 DEF Wired, LinkStates
  <2>2. ASSUME NEW h \in Operators
        PROVE  /\ call[h].on \in Handlers \cup {None}
               /\ reply[h] # "pending" => call[h] = NoCall
    BY HandlerKinds DEF Wired
  <2>3. \A h \in Handlers :
          call[h].on \in Handlers \cup {None} /\ (reply[h] # "pending" => call[h] = NoCall)
    BY <1>1, <2>2, HandlerKinds
  <2> QED
    BY <2>1, <2>3 DEF CallsTypeOK, Wired, BridgeInv, ChatBase, Tables
<1>3. OperatorTypeOK
  BY DEF OperatorTypeOK, Wired, Operators, BridgeInv, FileInv, FileStage, ConfigInv, ConfigTypes,
    ConfigOk, ConfigStage, Configs, Authors
<1>4. ASSUME NEW h \in ChatHandlers
      PROVE  /\ step[h] = "knobs" => local[h].left # <<>>
             /\ step[h] \notin {"new", "acquire", "done"} => local[h].on # None
  BY <1>4, Kinds DEF BridgeInv, ChatBase, Stage, Asking, Awaiting
<1>5. ChatTypeOK
  BY <1>4 DEF ChatTypeOK, BridgeInv, ChatBase, ChatTypes
<1> QED
  BY <1>2, <1>3, <1>5 DEF TypeOK

LEMMA WiredInit == Init => Wired
<1> SUFFICES ASSUME Init PROVE Wired
  OBVIOUS
<1>1. file \in 0 .. MaxVersion
  BY OperatorRoutesAssumption DEF Init, OperatorInit
<1>2. Shaped(NoCall) /\ NoCall.on = None
  BY DEF Shaped, NoCall
<1> QED
  BY <1>1, <1>2, HandlerKinds DEF Init, CallsInit, Wired, LinkStates, Answered

LEMMA WiredTables ==
  ASSUME Wired, NEW h \in Handlers, Enters(h)
  PROVE  /\ up' \in BOOLEAN
         /\ link' \in [Handlers -> LinkStates]
         /\ reply' \in [Handlers -> {"none", "pending"} \cup Answered]
BY DEF Wired, Enters

(* A step that no operator route takes.                                       *)
LEMMA WiredElsewhere ==
  ASSUME Wired, up' \in BOOLEAN, link' \in [Handlers -> LinkStates],
         reply' \in [Handlers -> {"none", "pending"} \cup Answered],
         file' \in 0 .. MaxVersion, NEW S, Operators \subseteq S,
         Untouched(S), LinksLast(S), LateOnlyBy(Handlers)
  PROVE  Wired'
BY HandlerKinds DEF Wired, Untouched, LinksLast, LateOnlyBy

(* A step of one operator route.                                              *)
LEMMA WiredOwn ==
  ASSUME Wired, NEW h \in Operators, OwnStep(h), Enters(h), file' \in 0 .. MaxVersion,
         Shaped(call[h])', call'[h].on \in {h, None},
         reply'[h] # "pending" => call'[h] = NoCall /\ link'[h] \in {"none", "closed"}
  PROVE  Wired'
<1>1. h \in Handlers
  BY HandlerKinds
<1>2. ASSUME NEW g \in Operators \ {h}
      PROVE  /\ Shaped(call[g])' /\ call'[g].on \in {g, None}
             /\ reply'[g] # "pending" => call'[g] = NoCall /\ link'[g] \in {"none", "closed"}
  BY HandlerKinds DEF Wired, OwnStep, Untouched, LinksLast
<1>3. \A l \in late' : l.by \in Handlers
  BY <1>1 DEF Wired, OwnStep, LateOnlyBy
<1>4. \A g \in Operators :
        /\ Shaped(call[g])' /\ call'[g].on \in {g, None}
        /\ reply'[g] # "pending" => call'[g] = NoCall /\ link'[g] \in {"none", "closed"}
  BY <1>2
<1> QED
  BY <1>1, <1>3, <1>4, WiredTables DEF Wired

(* Where an operation of an operator route goes: on, over, or to its polls.    *)
GoesTo(h) ==
  /\ UNCHANGED <<up, file>>
  /\ link' = link \/ \E s \in LinkStates : link' = [link EXCEPT ![h] = s]
  /\ \/ /\ reply' = reply
        /\ \/ \E r : call' = [call EXCEPT ![h] = [on |-> h, request |-> r, answer |-> None]]
           \/ call' = [call EXCEPT ![h] = NoCall]
     \/ \E status \in Answered : Finishes(h, status)

LEMMA FileGoesTo ==
  ASSUME NEW h, FileGoesOn(h)
  PROVE  GoesTo(h)
<1> USE DEF GoesTo, Finishes, LinkStates, Answered
<1>1. CASE FileConnects(h)
  BY <1>1 DEF FileConnects, Opens, Asks, operatorVars
<1>2. CASE FileRead(h)
  BY <1>2 DEF FileRead, AsksNext, Continues, Asks
<1>3. CASE FileWrite(h)
  BY <1>3 DEF FileWrite, AsksNext, Continues, Asks, operatorVars
<1>4. CASE FileConfirm(h)
  BY <1>4 DEF FileConfirm
<1> QED
  BY <1>1, <1>2, <1>3, <1>4 DEF FileGoesOn

LEMMA ConfigGoesTo ==
  ASSUME NEW h, ConfigGoesOn(h)
  PROVE  GoesTo(h)
<1> USE DEF GoesTo, Finishes, LinkStates, Answered
<1>1. CASE ConfigConnects(h)
  BY <1>1 DEF ConfigConnects, Opens, Asks, Fails
<1>2. CASE ConfigGot(h)
  BY <1>2 DEF ConfigGot, AsksNext, Continues, Asks, Fails
<1>3. CASE ConfigPatched(h)
  BY <1>3 DEF ConfigPatched, AsksNext, Continues, Asks, Fails
<1>4. CASE ConfigReported(h)
  BY <1>4 DEF ConfigReported, Fails
<1>5. CASE Polls(h)
  BY <1>5 DEF Polls, Opens, Asks, PollsOn
<1>6. CASE ReadsBack(h)
  BY <1>6 DEF ReadsBack, PollsOn
<1> QED
  BY <1>1, <1>2, <1>3, <1>4, <1>5, <1>6 DEF ConfigGoesOn

LEMMA GoesOnPending ==
  ASSUME BridgeInv, NEW h,
         \/ h \in FileRequests /\ FileGoesOn(h)
         \/ h \in ConfigRequests /\ ConfigGoesOn(h)
  PROVE  reply[h] = "pending"
<1>1. CASE h \in FileRequests /\ FileGoesOn(h)
  <2>1. FileStage(h)
    BY <1>1 DEF BridgeInv, FileInv
  <2> QED
    BY <1>1, <2>1 DEF FileStage, FileGoesOn, FileConnects, FileRead, FileWrite, FileConfirm
<1>2. CASE h \in ConfigRequests /\ ConfigGoesOn(h)
  <2>1. ConfigStage(h)
    BY <1>2 DEF BridgeInv, ConfigInv, ConfigOk
  <2> QED
    BY <1>2, <2>1 DEF ConfigStage, ConfigGoesOn, ConfigConnects, ConfigGot, ConfigPatched,
      ConfigReported, Polls, ReadsBack
<1> QED
  BY <1>1, <1>2

LEMMA WiredGoesOn ==
  ASSUME BridgeInv, Wired, NEW h,
         \/ h \in FileRequests /\ FileGoesOn(h)
         \/ h \in ConfigRequests /\ ConfigGoesOn(h)
  PROVE  Wired'
<1>1. h \in Operators /\ h \in Handlers /\ Tables
  BY HandlerKinds DEF BridgeInv, ChatBase
<1>2. OwnStep(h) /\ GoesTo(h) /\ reply[h] = "pending"
  BY <1>1, FileGoesOnAlone, ConfigGoesOnAlone, FileGoesTo, ConfigGoesTo, GoesOnPending
<1>3. Enters(h)
  BY <1>2 DEF GoesTo, Finishes, Replies, Enters, LinkStates
<1>4. file' \in 0 .. MaxVersion
  BY <1>2 DEF GoesTo, Wired
<1>5. Shaped(NoCall) /\ NoCall.on = None
  BY DEF Shaped, NoCall
<1>6. CASE reply' = reply
  <2>1. Shaped(call[h])' /\ call'[h].on \in {h, None}
    BY <1>1, <1>2, <1>5, <1>6 DEF GoesTo, Shaped, Finishes, Replies, Tables
  <2> QED
    BY <1>1, <1>2, <1>3, <1>4, <1>6, <2>1, WiredOwn
<1>7. CASE \E status \in Answered : Finishes(h, status)
  <2>1. call'[h] = NoCall /\ link'[h] = "closed"
    BY <1>1, <1>7 DEF Finishes, Replies, Tables
  <2> QED
    BY <1>1, <1>2, <1>3, <1>4, <1>5, <2>1, WiredOwn DEF Shaped
<1> QED
  BY <1>2, <1>6, <1>7 DEF GoesTo

(* The file moves within its bound.                                           *)
LEMMA FileBounded ==
  ASSUME Wired, file' = file \/ (file < MaxVersion /\ file' = file + 1)
  PROVE  file' \in 0 .. MaxVersion
BY OperatorRoutesAssumption DEF Wired

LEMMA WiredServes ==
  ASSUME BridgeInv, Wired, NEW h,
         \/ h \in FileRequests /\ FileServes(h)
         \/ h \in ConfigRequests /\ ConfigServes(h)
  PROVE  Wired'
<1>1. h \in Operators /\ h \in Handlers /\ Tables
  BY HandlerKinds DEF BridgeInv, ChatBase
<1>2. Service(h)
  BY <1>1, FileServesOne, ConfigServesOne
<1>3. /\ reply' = reply /\ up' \in BOOLEAN /\ link' \in [Handlers -> LinkStates]
      /\ \E value : call' = Served(h, value)
  BY <1>2 DEF FileServes, ConfigServes, Restarting, Wired, LinkStates, Service
<1>4. file' \in 0 .. MaxVersion
  BY FileBounded DEF FileServes, ConfigServes, Written, Merges, operatorVars
<1>5. reply[h] = "pending"
  <2>1. call[h].request # None
    BY DEF FileServes, ConfigServes, Servable
  <2>2. NoCall.request = None
    BY DEF NoCall
  <2> QED
    BY <1>1, <2>1, <2>2 DEF Wired
<1>6. Shaped(call[h])' /\ call'[h].on \in {h, None}
  <2>1. PICK value : call' = Served(h, value)
    BY <1>3
  <2>2. call'[h] = [call[h] EXCEPT !.answer = value]
    BY <1>1, <2>1 DEF Served, Tables
  <2>3. call[h] = [on |-> call[h].on, request |-> call[h].request, answer |-> call[h].answer]
        /\ call[h].on \in {h, None}
    BY <1>1 DEF Wired, Shaped
  <2>4. call'[h] = [on |-> call[h].on, request |-> call[h].request, answer |-> value]
    BY <2>2, <2>3
  <2> QED
    BY <2>3, <2>4 DEF Shaped
<1>7. ASSUME NEW g \in Operators \ {h}
      PROVE  /\ Shaped(call[g])' /\ call'[g].on \in {g, None}
             /\ reply'[g] # "pending" => call'[g] = NoCall /\ link'[g] \in {"none", "closed"}
  BY <1>2, HandlerKinds DEF Wired, Service, Untouched, LinksLast
<1>8. \A g \in Operators :
        /\ Shaped(call[g])' /\ call'[g].on \in {g, None}
        /\ reply'[g] # "pending" => call'[g] = NoCall /\ link'[g] \in {"none", "closed"}
  BY <1>3, <1>5, <1>6, <1>7
<1> QED
  BY <1>2, <1>3, <1>4, <1>8 DEF Wired, Service

LEMMA WiredServedLate ==
  ASSUME BridgeInv, Wired, NEW l \in late,
         \/ l.by \in FileRequests /\ FileServedLate(l)
         \/ l.by \in ConfigRequests /\ ConfigServedLate(l)
         \/ l.by \in ChatHandlers /\ ChatServedLate(l) /\ UNCHANGED operatorVars
  PROVE  Wired'
<1>1. /\ Tables' /\ call' = call /\ step' = step /\ reply' = reply
      /\ late' \subseteq late /\ LinksLast(Handlers)
  BY LateAnswersNobody DEF BridgeInv, ChatBase
<1>2. up' \in BOOLEAN /\ link' \in [Handlers -> LinkStates]
  BY DEF FileServedLate, ConfigServedLate, ChatServedLate, Restarting, Wired, LinkStates
<1>3. file' \in 0 .. MaxVersion
  BY FileBounded DEF FileServedLate, ConfigServedLate, Written, Merges, operatorVars
<1>4. Untouched(Handlers) /\ LateOnlyBy(Handlers)
  BY <1>1 DEF Untouched, LateOnlyBy
<1> QED
  BY <1>1, <1>2, <1>3, <1>4, WiredElsewhere, HandlerKinds DEF Wired

LEMMA WiredArrives ==
  ASSUME BridgeInv, Wired, NEW h \in Handlers, NEW s, Arrives(h, s),
         UNCHANGED <<up, link, call, late, file>>
  PROVE  Wired'
BY HandlerKinds DEF Arrives, Wired

(* A handler of a chat goes on, and is answered.                              *)
LEMMA ChatEnters ==
  ASSUME NEW h, ChatGoesOn(h)
  PROVE  Enters(h)
<1> USE DEF Enters, LinkStates, Answered
<1>0. ASSUME NEW l, NEW left, AsksKnobs(h, l, left) PROVE reply' = reply
  BY <1>0 DEF AsksKnobs, Asks
<1>1. CASE Acquires(h)
  <2>1. ASSUME NEW l, Given(h, l) PROVE reply' = reply
    BY <1>0, <2>1 DEF Given, AsksFirst, Asks
  <2> QED
    BY <1>1, <2>1 DEF Acquires, Replies
<1>2. CASE VerboseApplied(h)
  BY <1>0, <1>2 DEF VerboseApplied, Replies
<1>3. CASE KnobApplied(h)
  BY <1>0, <1>3 DEF KnobApplied, Asks, Replies
<1>4. CASE Described(h)
  BY <1>4 DEF Described, AsksChatSend, Asks, Replies
<1>5. CASE HistoryRead(h)
  BY <1>5 DEF HistoryRead, AsksChatSend, Asks
<1>6. CASE SendAcked(h)
  BY <1>6 DEF SendAcked, Replies
<1>7. CASE ResetDone(h)
  BY <1>7 DEF ResetDone, Replies
<1>8. CASE CompactDone(h)
  BY <1>8 DEF CompactDone, Replies
<1> QED
  BY <1>1, <1>2, <1>3, <1>4, <1>5, <1>6, <1>7, <1>8 DEF ChatGoesOn

LEMMA WiredChat ==
  ASSUME BridgeInv, Wired, NEW h \in ChatHandlers, UNCHANGED operatorVars,
         ChatGoesOn(h) \/ ChatServes(h) \/ HistoryServed(h)
  PROVE  Wired'
<1>1. h \in Handlers /\ h \notin Operators /\ Tables
  BY HandlerKinds DEF BridgeInv, ChatBase
<1>2. CASE ChatGoesOn(h)
  <2>1. OwnStep(h) /\ Enters(h)
    BY <1>1, <1>2, ChatGoesOnAlone, ChatEnters
  <2>2. Untouched(Operators) /\ LinksLast(Operators) /\ LateOnlyBy(Handlers)
    BY <1>1, <2>1, HandlerKinds DEF OwnStep, Untouched, LinksLast, LateOnlyBy
  <2>3. file' \in 0 .. MaxVersion
    BY DEF operatorVars, Wired
  <2> QED
    BY <1>1, <2>1, <2>2, <2>3, WiredTables, WiredElsewhere
<1>3. CASE ChatServes(h) \/ HistoryServed(h)
  <2>1. Service(h) /\ UNCHANGED <<up, link, late, reply, file>>
    BY <1>1, <1>3, ChatServesOne DEF ChatServes, HistoryServed, operatorVars
  <2>2. Untouched(Operators) /\ LinksLast(Operators) /\ LateOnlyBy(Handlers)
    BY <1>1, <2>1, HandlerKinds DEF Service, Untouched, LinksLast, LateOnlyBy
  <2> QED
    BY <2>1, <2>2, WiredElsewhere DEF Wired
<1> QED
  BY <1>2, <1>3

LEMMA WiredOutside ==
  ASSUME BridgeInv, Wired,
         \/ OthersSave \/ OthersConfigure
         \/ (ComesBack \/ \E l \in Handlers : LinkLost(l)) /\ UNCHANGED operatorVars
         \/ UNCHANGED <<callVars, file>>
  PROVE  Wired'
<1>1. file' \in 0 .. MaxVersion
  BY FileBounded DEF OthersSave, OthersConfigure, operatorVars
<1>2. /\ UNCHANGED <<call, late, step, reply>> /\ up' \in BOOLEAN
      /\ link' \in [Handlers -> LinkStates]
  BY DEF OthersSave, OthersConfigure, ComesBack, LinkLost, callVars, operatorVars, Wired, LinkStates
<1>3. LinksLast(Handlers)
  BY DEF OthersSave, OthersConfigure, ComesBack, LinkLost, callVars, LinksLast, Wired
<1>4. Untouched(Handlers) /\ LateOnlyBy(Handlers)
  BY <1>2 DEF Untouched, LateOnlyBy, Wired
<1> QED
  BY <1>1, <1>2, <1>3, <1>4, WiredElsewhere, HandlerKinds DEF Wired

LEMMA WiredNext == BridgeInv /\ Wired /\ [Next]_vars => Wired'
<1> SUFFICES ASSUME BridgeInv, Wired, [Next]_vars PROVE Wired'
  OBVIOUS
<1>1. CASE UNCHANGED vars
  BY <1>1, WiredOutside DEF vars, operatorVars, callVars
<1>2. CASE OperatorArrives
  <2>1. PICK h \in Operators : Arrives(h, "connect") /\ UNCHANGED <<up, link, call, late, file>>
    BY <1>2 DEF OperatorArrives, FileArrives, ConfigArrives, Operators
  <2> QED
    BY <2>1, WiredArrives, HandlerKinds
<1>3. CASE ChatArrivals /\ UNCHANGED operatorVars
  <2>1. PICK h \in ChatHandlers : \E m, i : ChatArrives(h, m, i)
    BY <1>3 DEF ChatArrivals, SendArrives, PatchArrives, OtherArrives, ChatHandlers
  <2> QED
    BY <1>3, <2>1, WiredArrives, HandlerKinds DEF ChatArrives, operatorVars
<1>4. ASSUME NEW h \in Handlers, GoesOn(h)
      PROVE  Wired'
  BY <1>4, WiredGoesOn, WiredChat DEF GoesOn
<1>5. ASSUME NEW h \in Handlers, Serves(h)
      PROVE  Wired'
  BY <1>5, WiredServes, WiredChat DEF Serves
<1>6. CASE ServedLate
  BY <1>6, WiredServedLate DEF ServedLate
<1>7. CASE OthersSave \/ OthersConfigure
  BY <1>7, WiredOutside
<1>8. CASE (Rolls \/ \E m \in Messages : Deletes(m)) /\ UNCHANGED operatorVars
  BY <1>8, WiredOutside DEF Rolls, Deletes, operatorVars
<1>9. CASE (ComesBack \/ \E l \in Handlers : LinkLost(l)) /\ UNCHANGED <<operatorVars, chatVars>>
  BY <1>9, WiredOutside
<1> QED
  BY <1>1, <1>2, <1>3, <1>4, <1>5, <1>6, <1>7, <1>8, <1>9 DEF Next

(* Every state of the bridge is well typed; a handler that has answered awaits  *)
(* nothing, and an operator route leaves no connection open behind it          *)
(* (withOperatorConnection's finally), for any requests and versions.          *)
THEOREM BridgeTypeCorrect == Spec => []TypeOK
<1>1. Spec => []Wired
  <2>1. Init => Wired
    BY WiredInit
  <2>2. BridgeInv /\ Wired /\ [Next]_vars => Wired'
    BY WiredNext
  <2>3. Spec => []BridgeInv
    BY FileInvariant, ConfigInvariant, ChatInvariant, PTL DEF BridgeInv
  <2> QED
    BY <2>1, <2>2, <2>3, PTL DEF Spec
<1>2. BridgeInv /\ Wired => TypeOK
  BY WiredTypes
<1>3. Spec => []BridgeInv
  BY FileInvariant, ConfigInvariant, ChatInvariant, PTL DEF BridgeInv
<1> QED
  BY <1>1, <1>2, <1>3, PTL
=============================================================================
