------------------------------ MODULE ChatRoutes ------------------------------
(***************************************************************************)
(* POST /send, /patch, /reset and /compact for one chat (server.ts): what a   *)
(* send does before its turn begins, beside the other requests of the chat and *)
(* retries of its own, with a gateway session that may roll, connections that  *)
(* are lost, and a thread in Convex from which messages are deleted.          *)
(***************************************************************************)
EXTENDS GatewayCalls, Sequences, FiniteSets

CONSTANTS
  Sends, Patches, Resets, Compacts,   \* the requests to each route
  Messages,      \* the user messages, by clientMessageId
  Levels,        \* the values of the knobs; `standard` among them
  standard,      \* fastMode: false
  Intents,       \* the sessionSettings of the requests
  HistoryBlock   \* the prior turns that a history may hold

ChatHandlers == Sends \cup Patches \cup Resets \cup Compacts
Knobs == {"thinkingLevel", "model", "fastMode"}

(* sessionSettings: the overrides to unset, and the level of each other knob.  *)
Settings == [clears : Seq(Knobs), sets : [Knobs -> Levels \cup {None}]]

(* One sessions.patch of them.                                               *)
KnobPatches == [knob : Knobs, level : Levels \cup {None}]

ASSUME ChatRoutesAssumption ==
  /\ ChatHandlers \subseteq Handlers
  /\ Sends \cap (Patches \cup Resets \cup Compacts) = {}
  /\ Patches \cap (Resets \cup Compacts) = {} /\ Resets \cap Compacts = {}
  /\ standard \in Levels /\ None \notin Levels /\ None \notin Messages
  /\ Intents \subseteq Settings
  /\ HistoryBlock \in Nat

VARIABLES
  current,      \* who opened the connection of the registered session
  verboseFull,  \* verboseFullApplied of each connection
  row,          \* the session in the gateway's store, and what its model has read
  accepted,     \* the messages the gateway has taken: the idempotency keys it knows
  thread,       \* the messages Convex shows
  local,        \* the body and the locals of each handler
  alone,        \* the handlers nobody has interfered with so far (no state of the code)
  deleted       \* deleted messages whose /reset was answered 200 (no state of the code)

chatVars == <<current, verboseFull, row, accepted, thread, local, alone, deleted>>

Inherited == [k \in Knobs |-> None]

(* No state of the code: the reset that left the row so (made), that it was     *)
(* opened by a send whose reads all went well (whole), that a send that was not  *)
(* alone went into it (mixed), which messages a history brought in before their *)
(* own send did (early), and which a full one had no room for (cut).           *)
FreshRow(exists, by) ==
  [exists |-> exists, systemSent |-> FALSE, verbose |-> FALSE, override |-> Inherited,
   context |-> [m \in Messages |-> 0],
   made |-> by, whole |-> FALSE, mixed |-> FALSE, early |-> {},
   cut |-> {}]

Rows ==
  [exists : BOOLEAN, systemSent : BOOLEAN, verbose : BOOLEAN,
   override : [Knobs -> Levels \cup {None}], context : [Messages -> Nat],
   made : Resets \cup {None}, whole : BOOLEAN, mixed : BOOLEAN, early : SUBSET Messages,
   cut : SUBSET Messages]

(* on: the connection of the session acquired.  left: the patches to apply.    *)
(* No state of the code: failed, one of them failed; blind, the description or   *)
(* the history could not be read; cut, what the history had no room for; ran,  *)
(* the overrides that its turn ran with, or that were there when the /patch was  *)
(* answered.                                                                 *)
Locals ==
  [message : Messages \cup {None}, intent : Settings, on : ChatHandlers \cup {None},
   left : Seq(KnobPatches), failed : BOOLEAN, blind : BOOLEAN,
   cut : SUBSET Messages, ran : [Knobs -> Levels \cup {None}] \cup {None}]

NoSettings == [clears |-> <<>>, sets |-> Inherited]

NoLocals ==
  [message |-> None, intent |-> NoSettings, on |-> None, left |-> <<>>, failed |-> FALSE,
   blind |-> FALSE, cut |-> {}, ran |-> None]

ChatTypeOK ==
  /\ current \in ChatHandlers \cup {None}
  /\ verboseFull \in [ChatHandlers -> BOOLEAN]
  /\ row \in Rows
  /\ accepted \in SUBSET Messages
  /\ thread \in SUBSET Messages
  /\ local \in [ChatHandlers -> Locals]
  /\ alone \in SUBSET ChatHandlers
  /\ deleted \in SUBSET Messages
  /\ \A h \in ChatHandlers :
       /\ step[h] = "knobs" => local[h].left # <<>>
       /\ step[h] \notin {"new", "acquire", "done"} => local[h].on # None

ChatInit ==
  /\ current = None
  /\ verboseFull = [h \in ChatHandlers |-> FALSE]
  /\ row = FreshRow(FALSE, None)
  /\ accepted = {}
  /\ thread = {}
  /\ local = [h \in ChatHandlers |-> NoLocals]
  /\ alone = {}
  /\ deleted = {}

-----------------------------------------------------------------------------
(* The requests *)

Pending == {h \in ChatHandlers : reply[h] = "pending"}

Clearings(clears) == [i \in DOMAIN clears |-> [knob |-> clears[i], level |-> None]]

SettingOf(k, level) == IF level = None THEN <<>> ELSE <<[knob |-> k, level |-> level]>>

(* Mutant: `if (settings.fastMode)`: false is dropped. *)
PatchesIfTruthy(settings) ==
  Clearings(settings.clears) \o
  SettingOf("thinkingLevel", settings.sets["thinkingLevel"]) \o
  SettingOf("model", settings.sets["model"]) \o
  SettingOf("fastMode", IF settings.sets["fastMode"] = standard THEN None ELSE settings.sets["fastMode"])

(* applySessionSettings: the unsets first, then what is set, in a fixed order. *)
PatchesOf(settings) ==
  Clearings(settings.clears) \o
  SettingOf("thinkingLevel", settings.sets["thinkingLevel"]) \o
  SettingOf("model", settings.sets["model"]) \o
  SettingOf("fastMode", settings.sets["fastMode"])

ChatArrives(h, message, settings) ==
  /\ Arrives(h, "acquire")
  /\ local' = [local EXCEPT ![h].message = message,
                            ![h].intent = settings, ![h].left = PatchesOf(settings)]
  /\ alone' = IF Pending = {} THEN alone \cup {h} ELSE alone \ Pending
  /\ UNCHANGED <<up, link, call, late, current, verboseFull, row, accepted, deleted>>

(* Convex has stored the message, and may dispatch it again.                  *)
SendArrives(h) ==
  \E m \in Messages, i \in Intents :
    /\ m \notin thread => \A g \in Sends : local[g].message # m
    /\ ChatArrives(h, m, i)
    /\ thread' = thread \cup {m}

PatchArrives(h) ==
  \E i \in Intents :
    /\ PatchesOf(i) # <<>>
    /\ ChatArrives(h, None, i)
    /\ UNCHANGED thread

OtherArrives(h) == ChatArrives(h, None, NoSettings) /\ UNCHANGED thread

(* A message is deleted; Convex asks for a reset afterwards.                  *)
Deletes(m) ==
  /\ m \in thread
  /\ \E h \in Resets : reply[h] = "none"
  /\ thread' = thread \ {m}
  /\ alone' = alone \ Pending
  /\ UNCHANGED <<callVars, current, verboseFull, row, accepted, local, deleted>>

-----------------------------------------------------------------------------
(* What the handlers ask of the gateway, and of Convex *)

VerbosePatch == [method |-> "sessions.patch", verbose |-> TRUE]
KnobPatch(p) == [method |-> "sessions.patch", verbose |-> FALSE, patch |-> p]
Describe == [method |-> "sessions.describe"]
GetHistory == [method |-> "getRehydrationContext"]
ChatSend(m, history) == [method |-> "chat.send", message |-> m, history |-> history]
Reset == [method |-> "sessions.reset"]
Compact == [method |-> "sessions.compact"]

(* The patches left, then the description of the session.                     *)
AsksKnobs(h, l, left) ==
  IF left # <<>>
    THEN Asks(h, "knobs", l, KnobPatch(Head(left)))
    ELSE Asks(h, "describe", l, Describe)

(* The first request of each route, on the connection of its session.         *)
AsksFirst(h, l) ==
  \/ h \in Sends /\ ~verboseFull[l] /\ Asks(h, "verbose", l, VerbosePatch)
  \/ h \in Patches \cup {s \in Sends : verboseFull[l]} /\ AsksKnobs(h, l, local[h].left)
  \/ h \in Resets /\ Asks(h, "reset", l, Reset)
  \/ h \in Compacts /\ Asks(h, "compact", l, Compact)

Given(h, l) ==
  /\ local' = [local EXCEPT ![h].on = l]
  /\ current' = l
  /\ AsksFirst(h, l)

(* registry.acquire (SessionRegistry): the session whose connection is open,   *)
(* else a new one.                                                            *)
Acquires(h) ==
  /\ step[h] = "acquire"
  /\ LET live == current # None /\ link[current] = "open" IN
     \/ live /\ Given(h, current) /\ UNCHANGED link
     \/ /\ ~live
        /\ \E o \in ConnectOutcomes :
             \/ o.error # None /\ Replies(h, "502") /\ UNCHANGED <<link, local, current>>
             \/ o.error = None /\ Given(h, h) /\ link' = [link EXCEPT ![h] = "open"]
  /\ UNCHANGED <<up, late, verboseFull, row, accepted, thread, alone, deleted>>

-----------------------------------------------------------------------------
(* performSend and performPatch *)

VerboseApplied(h) ==
  /\ step[h] = "verbose"
  /\ \E o \in Outcomes(h) :
       /\ late' = LeftBehind(h, o)
       /\ \/ o.error # None /\ Replies(h, "502") /\ UNCHANGED verboseFull
          \/ /\ o.error = None
             /\ AsksKnobs(h, local[h].on, local[h].left)
             /\ verboseFull' = [verboseFull EXCEPT ![local[h].on] = TRUE]
  /\ UNCHANGED <<up, link, current, row, accepted, thread, local, alone, deleted>>

(* A patch that fails skips those left and is no failure of the request; but    *)
(* applyPatchIntent lets a clear that fails fail the /patch.                   *)
KnobApplied(h) ==
  /\ step[h] = "knobs"
  /\ \E o \in Outcomes(h) :
       /\ late' = LeftBehind(h, o)
       /\ \/ /\ o.error = None
             /\ AsksKnobs(h, local[h].on, Tail(local[h].left))
             /\ local' = [local EXCEPT ![h].left = Tail(@)]
          \/ /\ o.error # None
             /\ IF h \in Patches /\ Head(local[h].left).level = None
                  THEN Replies(h, "502")
                  ELSE Asks(h, "describe", local[h].on, Describe)
             /\ local' = [local EXCEPT ![h].left = <<>>, ![h].failed = TRUE]
  /\ UNCHANGED <<up, link, current, verboseFull, row, accepted, thread, alone, deleted>>

(* Mutant: only a session without a row is fresh. *)
FreshIfAbsent(session) == ~session.exists

FreshSession(session) == ~session.exists \/ ~session.systemSent

AsksChatSend(h, history) ==
  Asks(h, "send", local[h].on, ChatSend(local[h].message, history))

(* A send rehydrates a fresh session, and goes out bare when it cannot tell. A *)
(* /patch reports the session, and is done either way.                        *)
Described(h) ==
  /\ step[h] = "describe"
  /\ \E o \in Outcomes(h) :
       \/ /\ h \in Patches
          /\ Replies(h, "200")
          /\ local' = [local EXCEPT ![h].ran = row.override]
       \/ /\ h \in Sends
          /\ local' = [local EXCEPT ![h].blind = (o.error # None)]
          /\ IF o.error = None /\ FreshSession(o.value)
               THEN Asks(h, "history", None, GetHistory)
               ELSE AsksChatSend(h, {})
  /\ UNCHANGED <<up, link, late, current, verboseFull, row, accepted, thread, alone, deleted>>

(* What of the thread a full history had no room for.                         *)
LeftOut(h, history) ==
  IF Cardinality(history) < HistoryBlock THEN {} ELSE thread \ (history \cup {local[h].message})

(* Without the history the bare message goes out.                             *)
HistoryRead(h) ==
  /\ step[h] = "history"
  /\ \E o \in Outcomes(h) :
       /\ AsksChatSend(h, IF o.error = None THEN o.value ELSE {})
       /\ local' = [local EXCEPT ![h].blind = (o.error # None),
              ![h].cut = IF o.error = None THEN LeftOut(h, o.value) ELSE {}]
  /\ UNCHANGED <<up, link, late, current, verboseFull, row, accepted, thread, alone, deleted>>

(* The ack; then beginTurn, which Convex may refuse (TurnPipeline).           *)
SendAcked(h) ==
  /\ step[h] = "send"
  /\ \E o \in Outcomes(h) :
       /\ late' = LeftBehind(h, o)
       /\ \/ o.error = None /\ Replies(h, "200")
          \/ Replies(h, "502")
  /\ UNCHANGED <<up, link, chatVars>>

-----------------------------------------------------------------------------
(* performReset and performCompact *)

(* Mutant: the reset leaves verboseFullApplied. *)
KeepsVerbose(h) == verboseFull

ForgetsVerbose(h) == [verboseFull EXCEPT ![local[h].on] = FALSE]

ResetDone(h) ==
  /\ step[h] = "reset"
  /\ \E o \in Outcomes(h) :
       /\ late' = LeftBehind(h, o)
       /\ \/ o.error # None /\ Replies(h, "502") /\ UNCHANGED <<verboseFull, deleted>>
          \/ /\ o.error = None /\ Replies(h, "200")
             /\ verboseFull' = ForgetsVerbose(h)
             /\ deleted' = IF h \in alone THEN deleted \cup (accepted \ thread) ELSE deleted
  /\ UNCHANGED <<up, link, current, row, accepted, thread, local, alone>>

CompactDone(h) ==
  /\ step[h] = "compact"
  /\ \E o \in Outcomes(h) :
       /\ late' = LeftBehind(h, o)
       /\ Replies(h, IF o.error = None THEN "200" ELSE "502")
  /\ UNCHANGED <<up, link, chatVars>>

-----------------------------------------------------------------------------
(* The gateway's session store, and Convex *)

(* Mutant: each dispatch has an idempotency key of its own. *)
KnownNever(m) == FALSE

(* idempotencyKey is a hash of the session key and the clientMessageId: the     *)
(* gateway acks the run it has for it.                                        *)
Known(m) == m \in accepted

Unheard == UNCHANGED <<accepted, local>>

(* The turn of h runs: on its message, behind the history it brings.          *)
Runs(h, m, history, undisturbed) ==
  /\ accepted' = accepted \cup {m}
  /\ local' = [local EXCEPT ![h].ran = row.override]
  /\ row' = [row EXCEPT
       !.exists = TRUE, !.systemSent = TRUE,
       !.context = [n \in Messages |-> @[n] + IF n \in history \cup {m} THEN 1 ELSE 0],
       !.whole = @ \/ (~row.systemSent /\ undisturbed /\ ~local[h].blind),
       !.mixed = @ \/ ~undisturbed,
       !.early = @ \cup (history \ accepted),
       !.cut = @ \cup local[h].cut]

(* What a request of h does.  Compaction summarises the context.              *)
Does(h, r, undisturbed) ==
  \/ /\ r.method = "sessions.patch" /\ Unheard
     /\ row' = IF r.verbose
                 THEN [row EXCEPT !.exists = TRUE, !.verbose = TRUE]
                 ELSE [row EXCEPT !.exists = TRUE, !.override[r.patch.knob] = r.patch.level]
  \/ r.method = "sessions.reset" /\ Unheard /\ row' = FreshRow(TRUE, h)
  \/ r.method \in {"sessions.compact", "sessions.describe"} /\ Unheard /\ UNCHANGED row
  \/ /\ r.method = "chat.send"
     /\ IF Known(r.message) THEN Unheard /\ UNCHANGED row ELSE Runs(h, r.message, r.history, undisturbed)

ChatServes(h) ==
  /\ Servable(h) /\ call[h].on # None
  /\ call' = Served(h, Ok(IF call[h].request = Describe
                            THEN [exists |-> row.exists, systemSent |-> row.systemSent]
                            ELSE None))
  /\ Does(h, call[h].request, h \in alone)
  /\ UNCHANGED <<up, link, late, step, reply, current, verboseFull, thread, alone, deleted>>

ChatServedLate(l) ==
  /\ up
  /\ late' = late \ {l}
  /\ alone' = alone \ (Pending \cup {l.by})
  /\ Does(l.by, l.request, FALSE)
  /\ UNCHANGED <<up, link, call, step, reply, current, verboseFull, thread, deleted>>

(* The prior turns: those the gateway took, and maybe messages it never did.   *)
PriorTurns(h) == {thread \ {local[h].message}, (thread \cap accepted) \ {local[h].message}}

(* A bounded block of them: all, or as many as it holds; which, Convex decides. *)
Blocks(turns) ==
  IF Cardinality(turns) <= HistoryBlock THEN {turns}
  ELSE {block \in SUBSET turns : Cardinality(block) = HistoryBlock}

HistoryServed(h) ==
  /\ Servable(h) /\ call[h].request = GetHistory
  /\ \E turns \in PriorTurns(h) : \E block \in Blocks(turns) : call' = Served(h, Ok(block))
  /\ UNCHANGED <<up, link, late, step, reply, chatVars>>

(* The daily or the idle reset, or pruning.                                   *)
Rolls ==
  /\ row.exists
  /\ \E exists \in BOOLEAN : row' = FreshRow(exists, None)
  /\ alone' = alone \ Pending
  /\ UNCHANGED <<callVars, current, verboseFull, accepted, thread, local, deleted>>

-----------------------------------------------------------------------------
ChatGoesOn(h) ==
  \/ Acquires(h) \/ VerboseApplied(h) \/ KnobApplied(h) \/ Described(h) \/ HistoryRead(h)
  \/ SendAcked(h) \/ ResetDone(h) \/ CompactDone(h)

ChatArrivals ==
  \/ \E h \in Sends : SendArrives(h)
  \/ \E h \in Patches : PatchArrives(h)
  \/ \E h \in Resets \cup Compacts : OtherArrives(h)

-----------------------------------------------------------------------------
(* Properties *)

(* POST /send carries an idempotency key and prepends the thread to a fresh     *)
(* session.  Through retries, lost answers, resets and rolls the model reads no *)
(* message twice, unless requests of the chat overlapped, or the history had    *)
(* brought it before its own send was taken.                                  *)
EachTurnOnce ==
  ~row.mixed => \A m \in Messages \ row.early : row.context[m] <= 1

(* The model of a session that a send opened with the history in hand knows     *)
(* every turn of the thread but those that a full block left out; and none of   *)
(* the deleted ones whose /reset was answered 200.  Neither is promised of       *)
(* sends that overlap.                                                       *)
ContextMatchesThread ==
  ~row.mixed =>
    /\ row.whole => \A m \in (accepted \cap thread) \ row.cut : row.context[m] > 0
    /\ \A m \in deleted : row.context[m] = 0

(* A send skips the verbose patch only on a session that has it: but a roll     *)
(* goes unnoticed, and so does a reset that is not answered 200 or overlaps.   *)
VerboseIsApplied ==
  \A l \in ChatHandlers :
    link[l] = "open" /\ verboseFull[l] /\ ~row.verbose =>
      \/ row.made = None
      \/ reply[row.made] # "200" \/ row.made \notin alone

(* What an intent asks of each knob: a level, or none; a set outdoes a clear.    *)
Wanted(settings) ==
  {[knob |-> k, level |-> settings.sets[k]] : k \in {k \in Knobs : settings.sets[k] # None}} \cup
  {[knob |-> k, level |-> None] :
     k \in {settings.clears[i] : i \in DOMAIN settings.clears} \cap {k \in Knobs : settings.sets[k] = None}}

(* A turn runs with the overrides its /send asked for, a false one and the      *)
(* unsets included, when nothing else touched the session and no patch failed; *)
(* and a /patch answered 200 has at least had its unsets applied.              *)
IntentHonoured ==
  \A h \in alone :
    local[h].ran # None =>
      \A w \in Wanted(local[h].intent) :
        ~local[h].failed \/ (h \in Patches /\ w.level = None) => local[h].ran[w.knob] = w.level
=============================================================================
