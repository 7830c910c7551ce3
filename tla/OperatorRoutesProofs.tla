------------------------- MODULE OperatorRoutesProofs -------------------------
(***************************************************************************)
(* Proofs about /agent-files and /config-defaults, beside the chat routes, for *)
(* any requests, versions, values and number of read-backs.                   *)
(*                                                                          *)
(* They begin with what every step of the bridge leaves alone: a handler goes *)
(* on by itself, and the gateway serves one request at a time.  The proofs     *)
(* about the chat routes rest on those lemmas too.                            *)
(***************************************************************************)
EXTENDS BridgeServer, TLAPS

-----------------------------------------------------------------------------
(* Steps of the bridge *)

Tables ==
  /\ DOMAIN call = Handlers /\ DOMAIN step = Handlers
  /\ DOMAIN reply = Handlers /\ DOMAIN link = Handlers

Untouched(S) ==
  \A g \in S : call'[g] = call[g] /\ step'[g] = step[g] /\ reply'[g] = reply[g]

LateOnlyBy(S) == \A l \in late' : l \in late \/ l.by \in S

(* The connections of S are as they were, but for losses and a restart.       *)
LinksLast(S) ==
  \A g \in S : link'[g] = link[g] \/ (link[g] = "open" /\ link'[g] \in {"lost", "killed"})

(* One step of h, which leaves everybody else alone.                          *)
OwnStep(h) ==
  /\ Tables'
  /\ Untouched(Handlers \ {h})
  /\ LateOnlyBy({h})
  /\ LinksLast(Handlers \ {h})

(* A step of the gateway, with the call of h answered at most.                *)
Service(h) ==
  /\ Tables'
  /\ Untouched(Handlers \ {h})
  /\ step' = step /\ reply' = reply
  /\ late' \subseteq late
  /\ LinksLast(Handlers)

(* An outcome without an error is the answer of the gateway, on a connection  *)
(* that is open.                                                              *)
LEMMA OutcomeIsAnswer ==
  ASSUME NEW h, NEW o \in Outcomes(h), o.error = None
  PROVE  /\ o = call[h].answer /\ call[h].answer # None
         /\ call[h].on = None \/ link[call[h].on] = "open"
<1> DEFINE answered == IF call[h].answer = None THEN {Failed("UPSTREAM_ERROR")} ELSE {call[h].answer}
<1>1. Failed("UPSTREAM_ERROR").error # None /\ Failed("GATEWAY_TIMEOUT").error # None
      /\ Failed("GATEWAY_DISCONNECTED").error # None
  BY GatewayCallsAssumption DEF Failed
<1>2. o \in answered /\ (call[h].on = None \/ link[call[h].on] = "open")
  BY <1>1 DEF Outcomes
<1> QED
  BY <1>1, <1>2

(* The error of a call that was not answered is one of three.                  *)
LEMMA OutcomeUnanswered ==
  ASSUME NEW h, NEW o \in Outcomes(h), call[h].answer = None
  PROVE  o.error \in {"GATEWAY_DISCONNECTED", "GATEWAY_TIMEOUT", "UPSTREAM_ERROR"}
BY DEF Outcomes, Failed

LEMMA LeftBehindIsOwn ==
  ASSUME NEW h, NEW o, late' = LeftBehind(h, o)
  PROVE  LateOnlyBy({h})
BY DEF LeftBehind, LateOnlyBy

LEMMA FileGoesOnAlone ==
  ASSUME Tables, NEW h \in Handlers, FileGoesOn(h)
  PROVE  OwnStep(h)
<1>1. CASE FileConnects(h)
  BY <1>1 DEF FileConnects, Opens, Finishes, Asks, Replies, OwnStep, Tables, Untouched,
    LateOnlyBy, LinksLast
<1>2. CASE FileRead(h)
  BY <1>2, LeftBehindIsOwn DEF FileRead, Finishes, AsksNext, Continues, Asks, Replies, OwnStep,
    Tables, Untouched, LinksLast
<1>3. CASE FileWrite(h)
  BY <1>3, LeftBehindIsOwn DEF FileWrite, Finishes, AsksNext, Continues, Asks, Replies, OwnStep,
    Tables, Untouched, LinksLast
<1>4. CASE FileConfirm(h)
  BY <1>4, LeftBehindIsOwn DEF FileConfirm, Finishes, Asks, Replies, OwnStep,
    Tables, Untouched, LinksLast
<1> QED
  BY <1>1, <1>2, <1>3, <1>4 DEF FileGoesOn

LEMMA FailsAlone ==
  ASSUME Tables, NEW h \in Handlers, NEW error, Fails(h, error)
  PROVE  Tables' /\ Untouched(Handlers \ {h}) /\ LinksLast(Handlers \ {h})
BY DEF Fails, Finishes, Replies, Tables, Untouched, LinksLast

LEMMA PollsOnAlone ==
  ASSUME Tables, NEW h \in Handlers, PollsOn(h)
  PROVE  Tables' /\ Untouched(Handlers \ {h}) /\ LinksLast(Handlers \ {h})
BY DEF PollsOn, Finishes, Replies, Tables, Untouched, LinksLast

LEMMA ConfigGoesOnAlone ==
  ASSUME Tables, NEW h \in Handlers, ConfigGoesOn(h)
  PROVE  OwnStep(h)
<1>1. CASE ConfigConnects(h)
  BY <1>1, FailsAlone DEF ConfigConnects, Opens, Asks, OwnStep, Tables, Untouched,
    LateOnlyBy, LinksLast
<1>2. CASE ConfigGot(h)
  BY <1>2, FailsAlone, LeftBehindIsOwn DEF ConfigGot, AsksNext, Continues, Asks, OwnStep, Tables,
    Untouched, LinksLast
<1>3. CASE ConfigPatched(h)
  BY <1>3, FailsAlone, LeftBehindIsOwn DEF ConfigPatched, AsksNext, Continues, Asks, OwnStep, Tables,
    Untouched, LinksLast
<1>4. CASE ConfigReported(h)
  BY <1>4, FailsAlone, LeftBehindIsOwn DEF ConfigReported, Finishes, Replies, OwnStep, Tables,
    Untouched, LinksLast
<1>5. CASE Polls(h)
  BY <1>5, PollsOnAlone DEF Polls, Opens, Asks, OwnStep, Tables, Untouched, LateOnlyBy, LinksLast
<1>6. CASE ReadsBack(h)
  BY <1>6, PollsOnAlone, LeftBehindIsOwn DEF ReadsBack, Finishes, Replies, OwnStep, Tables,
    Untouched, LinksLast
<1> QED
  BY <1>1, <1>2, <1>3, <1>4, <1>5, <1>6 DEF ConfigGoesOn

LEMMA AsksKnobsAlone ==
  ASSUME Tables, NEW h \in Handlers, NEW l, NEW left, AsksKnobs(h, l, left)
  PROVE  DOMAIN call' = Handlers /\ DOMAIN step' = Handlers /\ reply' = reply
         /\ Untouched(Handlers \ {h})
BY DEF AsksKnobs, Asks, Tables, Untouched

LEMMA GivenAlone ==
  ASSUME Tables, NEW h \in Handlers, NEW l, Given(h, l)
  PROVE  DOMAIN call' = Handlers /\ DOMAIN step' = Handlers /\ reply' = reply
         /\ Untouched(Handlers \ {h})
BY AsksKnobsAlone DEF Given, AsksFirst, Asks, Tables, Untouched

LEMMA ChatGoesOnAlone ==
  ASSUME Tables, NEW h \in Handlers, ChatGoesOn(h)
  PROVE  OwnStep(h)
<1>1. CASE Acquires(h)
  BY <1>1, GivenAlone DEF Acquires, Replies, OwnStep, Tables, Untouched, LateOnlyBy, LinksLast
<1>2. CASE VerboseApplied(h)
  BY <1>2, AsksKnobsAlone, LeftBehindIsOwn DEF VerboseApplied, Replies, OwnStep, Tables, Untouched,
    LinksLast
<1>3. CASE KnobApplied(h)
  BY <1>3, AsksKnobsAlone, LeftBehindIsOwn DEF KnobApplied, Asks, Replies, OwnStep, Tables,
    Untouched, LinksLast
<1>4. CASE Described(h)
  BY <1>4 DEF Described, AsksChatSend, Asks, Replies, OwnStep, Tables, Untouched, LateOnlyBy, LinksLast
<1>5. CASE HistoryRead(h)
  BY <1>5 DEF HistoryRead, AsksChatSend, Asks, OwnStep, Tables, Untouched, LateOnlyBy, LinksLast
<1>6. CASE SendAcked(h)
  BY <1>6, LeftBehindIsOwn DEF SendAcked, Replies, OwnStep, Tables, Untouched, LinksLast
<1>7. CASE ResetDone(h)
  BY <1>7, LeftBehindIsOwn DEF ResetDone, Replies, OwnStep, Tables, Untouched, LinksLast
<1>8. CASE CompactDone(h)
  BY <1>8, LeftBehindIsOwn DEF CompactDone, Replies, OwnStep, Tables, Untouched, LinksLast
<1> QED
  BY <1>1, <1>2, <1>3, <1>4, <1>5, <1>6, <1>7, <1>8 DEF ChatGoesOn

(* A handler that goes on changes its own calls and connection only.          *)
THEOREM GoesOnAlone ==
  ASSUME Tables, NEW h \in Handlers, GoesOn(h)
  PROVE  OwnStep(h)
BY FileGoesOnAlone, ConfigGoesOnAlone, ChatGoesOnAlone DEF GoesOn

LEMMA FileServesOne ==
  ASSUME Tables, NEW h \in Handlers, FileServes(h)
  PROVE  Service(h)
BY DEF FileServes, Served, Service, Tables, Untouched, LinksLast

LEMMA ConfigServesOne ==
  ASSUME Tables, NEW h \in Handlers, ConfigServes(h)
  PROVE  Service(h)
BY DEF ConfigServes, Served, Restarting, Service, Tables, Untouched, LinksLast

LEMMA ChatServesOne ==
  ASSUME Tables, NEW h \in Handlers, ChatServes(h) \/ HistoryServed(h)
  PROVE  Service(h)
BY DEF ChatServes, HistoryServed, Served, Service, Tables, Untouched, LinksLast

(* The gateway and Convex answer one handler; a restart takes connections and *)
(* what waited, and adds nothing.                                             *)
THEOREM ServesOne ==
  ASSUME Tables, NEW h \in Handlers, Serves(h)
  PROVE  Service(h)
BY FileServesOne, ConfigServesOne, ChatServesOne DEF Serves

(* What is served late answers nobody.                                        *)
THEOREM LateAnswersNobody ==
  ASSUME Tables, NEW l \in late,
         \/ FileServedLate(l) \/ ConfigServedLate(l) \/ ChatServedLate(l)
  PROVE  /\ Tables' /\ call' = call /\ step' = step /\ reply' = reply
         /\ late' \subseteq late /\ LinksLast(Handlers)
<1>1. CASE FileServedLate(l)
  BY <1>1 DEF FileServedLate, Tables, LinksLast
<1>2. CASE ConfigServedLate(l)
  BY <1>2 DEF ConfigServedLate, Restarting, Tables, LinksLast
<1>3. CASE ChatServedLate(l)
  BY <1>3 DEF ChatServedLate, Tables, LinksLast
<1> QED
  BY <1>1, <1>2, <1>3

(* A request that comes is its handler's first step.                          *)
LEMMA ArrivesAlone ==
  ASSUME Tables, NEW h \in Handlers, NEW s, Arrives(h, s), UNCHANGED <<link, call, late>>
  PROVE  /\ Tables' /\ Untouched(Handlers \ {h})
         /\ reply[h] = "none" /\ reply'[h] = "pending" /\ step'[h] = s
BY DEF Arrives, Tables, Untouched

-----------------------------------------------------------------------------
(* /agent-files *)

(* Somebody was told stamp v, and what was told stays on record.              *)
Stamped(v) ==
  \E g \in FileRequests :
    /\ reply[g] = "200"
    /\ (edit[g].op # "set" /\ edit[g].before = v) \/ edit[g].after = v

(* Where a file request stands.                                               *)
FileStage(h) ==
  /\ step[h] \in {"new", "connect", "read", "write", "confirm", "done"}
  /\ reply[h] = "none" => step[h] = "new" /\ edit[h] = NoEdit
  /\ step[h] = "new" => reply[h] = "none"
  /\ reply[h] = "200" => step[h] = "done"
  /\ step[h] \in {"connect", "read", "write", "confirm"} => reply[h] = "pending"
  /\ step[h] \in {"new", "connect", "read"} => edit[h].wrote = None
  /\ \A l \in late : l.by = h => step[h] = "done"

(* What it awaits: a save only at its write; a get brings a version there was. *)
FileCall(h) ==
  /\ step[h] # "write" => call[h].request \in {FileGet, None}
  /\ step[h] \in {"read", "confirm"} => call[h].request = FileGet
  /\ step[h] \in {"read", "confirm"} /\ call[h].answer # None =>
       \E v \in Nat : v <= file /\ call[h].answer = Ok(v)
  /\ step[h] \in {"new", "connect", "done"} => call[h] = NoCall

(* Its pins: given to somebody, and compared before anything is written.      *)
FilePin(h) ==
  edit[h].base # None =>
    /\ Stamped(edit[h].base)
    /\ step[h] \in {"write", "confirm"} \/ (\E l \in late : l.by = h) => edit[h].before = edit[h].base
    /\ edit[h].wrote # None =>
         edit[h].wrote \in Nat /\ (edit[h].wrote - 1 > edit[h].before \/ edit[h].wrote - 1 = edit[h].base)

FileInv ==
  /\ Tables
  /\ file \in Nat
  /\ edit \in [FileRequests -> Edits]
  /\ \A h \in FileRequests :
       /\ FileStage(h) /\ FileCall(h) /\ FilePin(h)
       /\ edit[h].before # None => edit[h].before <= file

LEMMA FileInit == Init => FileInv
<1> SUFFICES ASSUME Init PROVE FileInv
  OBVIOUS
<1>1. Tables
  BY DEF Init, CallsInit, Tables
<1>2. file \in Nat /\ edit \in [FileRequests -> Edits]
  BY DEF Init, OperatorInit, NoEdit, Edits
<1>3. \A h \in FileRequests : step[h] = "new" /\ reply[h] = "none" /\ edit[h] = NoEdit /\ call[h] = NoCall
  BY OperatorRoutesAssumption DEF Init, CallsInit, OperatorInit
<1>4. late = {}
  BY DEF Init, CallsInit
<1> QED
  BY <1>1, <1>2, <1>3, <1>4 DEF FileInv, FileStage, FileCall, FilePin, NoEdit, NoCall

(* FileInv speaks of the file requests only, and of the file as it grows.      *)
LEMMA FileElsewhere ==
  ASSUME FileInv, Tables', Untouched(FileRequests), edit' = edit,
         file' \in Nat, file <= file',
         \A l \in late' : l \in late \/ l.by \notin FileRequests
  PROVE  FileInv'
<1> SUFFICES ASSUME NEW h \in FileRequests
             PROVE  (FileStage(h) /\ FileCall(h) /\ FilePin(h)
                     /\ (edit[h].before # None => edit[h].before <= file))'
  BY DEF FileInv
<1>1. FileStage(h)'
  BY DEF FileInv, FileStage, Untouched
<1>2. FileCall(h)'
  BY DEF FileInv, FileCall, Untouched
<1>3. \A v : Stamped(v) => Stamped(v)'
  BY DEF Stamped, Untouched
<1>4. FilePin(h)'
  BY <1>3 DEF FileInv, FilePin, Untouched
<1>5. (edit[h].before # None => edit[h].before <= file)'
  BY DEF FileInv, Edits
<1> QED
  BY <1>1, <1>2, <1>4, <1>5

(* A step of one file request leaves what is known of the others.             *)
LEMMA FileOthers ==
  ASSUME FileInv, NEW h \in FileRequests, OwnStep(h) \/ Service(h), reply[h] # "200",
         \A g \in FileRequests \ {h} : edit'[g] = edit[g],
         file' \in Nat, file <= file'
  PROVE  /\ \A v : Stamped(v) => Stamped(v)'
         /\ \A g \in FileRequests \ {h} :
              /\ FileStage(g)' /\ FileCall(g)' /\ FilePin(g)'
              /\ (edit[g].before # None => edit[g].before <= file)'
<1>1. /\ Tables'
      /\ \A g \in FileRequests \ {h} : call'[g] = call[g] /\ step'[g] = step[g] /\ reply'[g] = reply[g]
      /\ \A l \in late' : l \in late \/ l.by = h
  BY OperatorRoutesAssumption DEF OwnStep, Service, Untouched, LateOnlyBy
<1>2. \A v : Stamped(v) => Stamped(v)'
  BY <1>1 DEF Stamped
<1>3. ASSUME NEW g \in FileRequests \ {h}
      PROVE  /\ FileStage(g)' /\ FileCall(g)' /\ FilePin(g)'
             /\ (edit[g].before # None => edit[g].before <= file)'
  <2>1. FileStage(g)'
    BY <1>1 DEF FileInv, FileStage
  <2>2. FileCall(g)'
    BY <1>1 DEF FileInv, FileCall
  <2>3. FilePin(g)'
    BY <1>1, <1>2 DEF FileInv, FilePin
  <2>4. (edit[g].before # None => edit[g].before <= file)'
    BY DEF FileInv, Edits
  <2> QED
    BY <2>1, <2>2, <2>3, <2>4
<1> QED
  BY <1>2, <1>3

(* So it is enough to look at the request that takes the step.                *)
LEMMA FileOwn ==
  ASSUME FileInv, NEW h \in FileRequests, OwnStep(h) \/ Service(h), reply[h] # "200",
         \A g \in FileRequests \ {h} : edit'[g] = edit[g],
         file' \in Nat, file <= file', edit' \in [FileRequests -> Edits],
         FileStage(h)', FileCall(h)', FilePin(h)',
         (edit[h].before # None => edit[h].before <= file)'
  PROVE  FileInv'
BY FileOthers DEF FileInv, OwnStep, Service

LEMMA FileConnectsKeeps ==
  ASSUME FileInv, NEW h \in FileRequests, FileConnects(h)
  PROVE  FileInv'
<1> USE DEF FileInv
<1>1. OwnStep(h)
  BY FileGoesOnAlone, OperatorRoutesAssumption DEF FileGoesOn
<1>2. step[h] = "connect" /\ UNCHANGED <<file, edit, late>> /\ reply[h] # "200"
  BY DEF FileConnects, operatorVars, FileStage
<1>3. \/ step'[h] = "done" /\ reply'[h] = "502" /\ call'[h] = NoCall
      \/ /\ step'[h] = "read" /\ reply'[h] = reply[h]
         /\ call'[h].request = FileGet /\ call'[h].answer = None
  BY OperatorRoutesAssumption DEF FileConnects, Opens, Finishes, Asks, Replies, Tables
<1>4. FileStage(h)'
  BY <1>2, <1>3 DEF FileStage
<1>5. FileCall(h)'
  BY <1>3 DEF FileCall, NoCall
<1>6. \A v : Stamped(v) => Stamped(v)'
  BY <1>1, <1>2, FileOthers
<1>7. FilePin(h)'
  BY <1>2, <1>3, <1>6 DEF FilePin, FileStage
<1> QED
  BY <1>1, <1>2, <1>4, <1>5, <1>7, FileOwn

(* A get that is given up leaves nothing behind.                              *)
LEMMA GetLeavesNothing ==
  ASSUME NEW h, NEW o, call[h].request = FileGet
  PROVE  LeftBehind(h, o) = late
BY DEF LeftBehind, FileGet, ReadMethods

LEMMA OkValue == \A v : Ok(v).value = v /\ Ok(v).error = None
BY DEF Ok

LEMMA FileReadKeeps ==
  ASSUME FileInv, NEW h \in FileRequests, FileRead(h)
  PROVE  FileInv'
<1> USE DEF FileInv
<1>1. OwnStep(h)
  BY FileGoesOnAlone, OperatorRoutesAssumption DEF FileGoesOn
<1>2. step[h] = "read" /\ reply[h] = "pending" /\ edit[h].wrote = None /\ edit[h] \in Edits
      /\ file' = file /\ h \in Handlers /\ ~(\E l \in late : l.by = h)
  BY OperatorRoutesAssumption DEF FileRead, FileStage
<1>3. PICK o \in Outcomes(h) :
       /\ late' = LeftBehind(h, o)
       /\ \/ o.error # None /\ Finishes(h, "502") /\ UNCHANGED edit
          \/ /\ o.error = None
             /\ edit' = [edit EXCEPT ![h].before = o.value]
             /\ \/ edit[h].op # "set" /\ Finishes(h, "200")
                \/ edit[h].op = "set" /\ Moved(h, o.value) /\ Finishes(h, "409")
                \/ edit[h].op = "set" /\ ~Moved(h, o.value) /\ AsksNext(h, "write", FileSet)
  BY DEF FileRead
<1>4. late' = late
  BY <1>2, <1>3, GetLeavesNothing DEF FileCall
<1>5. \A status : Finishes(h, status) =>
        step'[h] = "done" /\ reply'[h] = status /\ call'[h] = NoCall
  BY <1>2 DEF Finishes, Replies, Tables
<1>6. CASE o.error # None
  <2>1. step'[h] = "done" /\ reply'[h] = "502" /\ call'[h] = NoCall /\ edit' = edit
    BY <1>3, <1>5, <1>6
  <2>2. \A v : Stamped(v) => Stamped(v)'
    BY <1>1, <1>2, <2>1, FileOthers
  <2>3. FileStage(h)' /\ FileCall(h)'
    BY <1>2, <2>1 DEF FileStage, FileCall, NoCall
  <2>4. FilePin(h)'
    BY <1>2, <1>4, <2>1, <2>2 DEF FilePin
  <2> QED
    BY <1>1, <1>2, <2>1, <2>3, <2>4, FileOwn
<1>7. CASE o.error = None
  <2>1. PICK v \in Nat : v <= file /\ o.value = v
    <3>1. o = call[h].answer /\ call[h].answer # None
      BY <1>7, OutcomeIsAnswer
    <3>2. PICK v \in Nat : v <= file /\ o = Ok(v)
      BY <1>2, <3>1 DEF FileCall
    <3> QED
      BY <3>2, OkValue
  <2>2. /\ edit' \in [FileRequests -> Edits]
        /\ \A g \in FileRequests \ {h} : edit'[g] = edit[g]
        /\ edit'[h].before = v /\ edit'[h].base = edit[h].base /\ edit'[h].wrote = None
    BY <1>2, <1>3, <1>7, <2>1 DEF Edits
  <2>3. \A w : Stamped(w) => Stamped(w)'
    BY <1>1, <1>2, <2>2, FileOthers
  <2>4. \/ step'[h] = "done" /\ reply'[h] \in {"200", "409"} /\ call'[h] = NoCall
        \/ /\ step'[h] = "write" /\ reply'[h] = "pending" /\ call'[h].answer = None
           /\ ~Moved(h, v)
    BY <1>2, <1>3, <1>5, <1>7, <2>1 DEF AsksNext, Continues, Asks, Tables
  <2>5. FileStage(h)' /\ FileCall(h)'
    BY <1>2, <1>4, <2>2, <2>4 DEF FileStage, FileCall, NoCall
  <2>6. ~Moved(h, v) => edit[h].base = None \/ edit[h].base = v
    BY DEF Moved
  <2>7. FilePin(h)'
    BY <1>2, <1>4, <2>2, <2>3, <2>4, <2>6 DEF FilePin
  <2> QED
    BY <1>1, <1>2, <2>1, <2>2, <2>5, <2>7, FileOwn
<1> QED
  BY <1>6, <1>7

LEMMA FileWriteKeeps ==
  ASSUME FileInv, NEW h \in FileRequests, FileWrite(h)
  PROVE  FileInv'
<1> USE DEF FileInv
<1>1. OwnStep(h)
  BY FileGoesOnAlone, OperatorRoutesAssumption DEF FileGoesOn
<1>2. step[h] = "write" /\ reply[h] = "pending" /\ UNCHANGED <<file, edit>> /\ h \in Handlers
  BY OperatorRoutesAssumption DEF FileWrite, FileStage, operatorVars
<1>3. \/ step'[h] = "done" /\ reply'[h] = "502" /\ call'[h] = NoCall
      \/ /\ step'[h] = "confirm" /\ reply'[h] = "pending" /\ late' = late
         /\ call'[h].request = FileGet /\ call'[h].answer = None
  <2>1. PICK o \in Outcomes(h) :
         /\ late' = LeftBehind(h, o)
         /\ IF o.error = None THEN AsksNext(h, "confirm", FileGet) ELSE Finishes(h, "502")
    BY DEF FileWrite
  <2>2. o.error = None => late' = late
    BY <2>1, OutcomeIsAnswer DEF LeftBehind
  <2> QED
    BY <1>2, <2>1, <2>2 DEF AsksNext, Continues, Asks, Finishes, Replies, Tables
<1>4. FileStage(h)' /\ FileCall(h)'
  BY <1>2, <1>3 DEF FileStage, FileCall, NoCall
<1>5. \A v : Stamped(v) => Stamped(v)'
  BY <1>1, <1>2, FileOthers
<1>6. FilePin(h)'
  BY <1>2, <1>5 DEF FilePin
<1> QED
  BY <1>1, <1>2, <1>4, <1>6, FileOwn

LEMMA FileConfirmKeeps ==
  ASSUME FileInv, NEW h \in FileRequests, FileConfirm(h)
  PROVE  FileInv'
<1> USE DEF FileInv
<1>1. OwnStep(h)
  BY FileGoesOnAlone, OperatorRoutesAssumption DEF FileGoesOn
<1>2. step[h] = "confirm" /\ reply[h] = "pending" /\ file' = file /\ h \in Handlers /\ edit[h] \in Edits
  BY OperatorRoutesAssumption DEF FileConfirm, FileStage
<1>3. /\ step'[h] = "done" /\ reply'[h] \in {"200", "502"} /\ call'[h] = NoCall
      /\ edit' = edit \/ \E v \in Nat : edit' = [edit EXCEPT ![h].after = v]
  <2>1. PICK o \in Outcomes(h) :
         \/ o.error # None /\ Finishes(h, "502") /\ UNCHANGED edit
         \/ /\ o.error = None /\ Finishes(h, "200")
            /\ edit' = [edit EXCEPT ![h].after = o.value]
    BY DEF FileConfirm
  <2>2. ASSUME o.error = None PROVE o.value \in Nat
    <3>1. o = call[h].answer /\ call[h].answer # None
      BY <2>2, OutcomeIsAnswer
    <3>2. PICK v \in Nat : o = Ok(v)
      BY <1>2, <3>1 DEF FileCall
    <3> QED
      BY <3>2, OkValue
  <2> QED
    BY <1>2, <2>1, <2>2 DEF Finishes, Replies, Tables
<1>4. /\ edit' \in [FileRequests -> Edits]
      /\ \A g \in FileRequests \ {h} : edit'[g] = edit[g]
      /\ edit'[h].before = edit[h].before /\ edit'[h].base = edit[h].base /\ edit'[h].wrote = edit[h].wrote
  BY <1>2, <1>3 DEF Edits
<1>5. FileStage(h)' /\ FileCall(h)'
  BY <1>2, <1>3, <1>4 DEF FileStage, FileCall, NoCall
<1>6. \A v : Stamped(v) => Stamped(v)'
  BY <1>1, <1>2, <1>4, FileOthers
<1>7. FilePin(h)'
  BY <1>2, <1>4, <1>6 DEF FilePin
<1> QED
  BY <1>1, <1>2, <1>4, <1>5, <1>7, FileOwn

(* What a save does once the gateway serves it, in time or late.              *)
LEMMA WrittenKeepsPin ==
  ASSUME FileInv, NEW h \in FileRequests, Written(h),
         step[h] = "write" \/ (\E l \in late : l.by = h)
  PROVE  /\ file' \in Nat /\ file <= file' /\ edit' \in [FileRequests -> Edits]
         /\ \A g \in FileRequests \ {h} : edit'[g] = edit[g]
         /\ edit'[h].before = edit[h].before /\ edit'[h].base = edit[h].base
         /\ edit'[h].op = edit[h].op /\ edit'[h].after = edit[h].after
         /\ edit'[h].base # None =>
              edit'[h].wrote \in Nat
              /\ (edit'[h].wrote - 1 > edit'[h].before \/ edit'[h].wrote - 1 = edit'[h].base)
<1>1. file \in Nat /\ edit \in [FileRequests -> Edits] /\ edit[h] \in Edits
  BY DEF FileInv
<1>2. file' = file + 1 /\ edit' = [edit EXCEPT ![h].wrote = file + 1]
  BY DEF Written
<1>3. /\ edit' \in [FileRequests -> Edits]
      /\ \A g \in FileRequests \ {h} : edit'[g] = edit[g]
      /\ edit'[h].before = edit[h].before /\ edit'[h].base = edit[h].base
      /\ edit'[h].op = edit[h].op /\ edit'[h].after = edit[h].after
      /\ edit'[h].wrote = file + 1
  BY <1>1, <1>2 DEF Edits
<1>4. ASSUME edit[h].base # None
      PROVE  edit[h].before \in Nat /\ edit[h].before <= file /\ edit[h].before = edit[h].base
  BY <1>1, <1>4 DEF FileInv, FilePin, Edits
<1>5. file' \in Nat /\ file <= file'
  BY <1>1, <1>2
<1>6. ASSUME edit[h].base # None
      PROVE  file + 1 - 1 > edit[h].before \/ file + 1 - 1 = edit[h].base
  BY <1>1, <1>4, <1>6
<1> QED
  BY <1>1, <1>3, <1>5, <1>6

LEMMA FileServesKeeps ==
  ASSUME FileInv, NEW h \in FileRequests, FileServes(h)
  PROVE  FileInv'
<1> USE DEF FileInv
<1>1. Service(h)
  BY FileServesOne, OperatorRoutesAssumption
<1>2. h \in Handlers /\ call[h].request # None /\ step' = step /\ reply' = reply /\ late' = late
  BY OperatorRoutesAssumption DEF FileServes, Servable
<1>3. step[h] \in {"read", "write", "confirm"} /\ reply[h] = "pending"
  BY <1>2 DEF FileStage, FileCall, NoCall
<1>4. CASE call[h].request = FileGet /\ call' = Served(h, Ok(file)) /\ UNCHANGED operatorVars
  <2>1. UNCHANGED <<file, edit>> /\ call'[h].request = FileGet /\ call'[h].answer = Ok(file)
    BY <1>2, <1>4 DEF Served, operatorVars, Tables
  <2>2. FileStage(h)' /\ FileCall(h)'
    BY <1>2, <1>3, <2>1 DEF FileStage, FileCall
  <2>3. FilePin(h)'
    BY <1>2, <2>1 DEF FilePin, Stamped
  <2> QED
    BY <1>1, <1>3, <2>1, <2>2, <2>3, FileOwn
<1>5. CASE call[h].request = FileSet /\ call' = Served(h, Ok(None)) /\ Written(h)
  <2>1. step[h] = "write"
    BY <1>2, <1>5 DEF FileCall, FileGet, FileSet
  <2>2. \A v : Stamped(v) => Stamped(v)'
    BY <1>1, <1>3, <1>5, <2>1, WrittenKeepsPin, FileOthers
  <2>3. FileStage(h)' /\ FileCall(h)'
    BY <1>2, <1>3, <2>1 DEF FileStage, FileCall
  <2>4. FilePin(h)'
    BY <1>2, <1>5, <2>1, <2>2, WrittenKeepsPin DEF FilePin
  <2>5. (edit[h].before # None => edit[h].before <= file)'
    BY <1>5, <2>1, WrittenKeepsPin DEF Edits
  <2> QED
    BY <1>1, <1>3, <1>5, <2>1, <2>3, <2>4, <2>5, WrittenKeepsPin, FileOwn
<1> QED
  BY <1>4, <1>5 DEF FileServes

LEMMA FileServedLateKeeps ==
  ASSUME FileInv, NEW l \in late, l.by \in FileRequests, FileServedLate(l)
  PROVE  FileInv'
<1> DEFINE h == l.by
<1> USE DEF FileInv
<1>1. /\ Tables' /\ UNCHANGED <<call, step, reply>> /\ late' \subseteq late
  BY LateAnswersNobody DEF FileServedLate
<1>2. Written(h) /\ step[h] = "done"
  BY DEF FileServedLate, FileStage
<1>3. /\ file' \in Nat /\ file <= file' /\ edit' \in [FileRequests -> Edits]
      /\ \A g \in FileRequests \ {h} : edit'[g] = edit[g]
      /\ edit'[h].before = edit[h].before /\ edit'[h].base = edit[h].base
      /\ edit'[h].op = edit[h].op /\ edit'[h].after = edit[h].after
      /\ edit'[h].base # None =>
           edit'[h].wrote \in Nat
           /\ (edit'[h].wrote - 1 > edit'[h].before \/ edit'[h].wrote - 1 = edit'[h].base)
  BY <1>2, WrittenKeepsPin
<1>4. \A v : Stamped(v) => Stamped(v)'
  BY <1>1, <1>3 DEF Stamped
<1>5. ASSUME NEW g \in FileRequests
      PROVE  /\ FileStage(g)' /\ FileCall(g)' /\ FilePin(g)'
             /\ (edit[g].before # None => edit[g].before <= file)'
  <2>1. FileStage(g)'
    BY <1>1, <1>2, <1>3 DEF FileStage
  <2>2. FileCall(g)'
    BY <1>1, <1>3 DEF FileCall
  <2>3. FilePin(g)'
    BY <1>1, <1>3, <1>4 DEF FilePin
  <2>4. (edit[g].before # None => edit[g].before <= file)'
    BY <1>3 DEF Edits
  <2> QED
    BY <2>1, <2>2, <2>3, <2>4
<1> QED
  BY <1>1, <1>3, <1>5

LEMMA FileArrivesKeeps ==
  ASSUME FileInv, NEW h \in FileRequests, FileArrives(h)
  PROVE  FileInv'
<1> USE DEF FileInv
<1>1. h \in Handlers /\ UNCHANGED <<link, call, late, file>>
  BY OperatorRoutesAssumption DEF FileArrives
<1>2. /\ Tables' /\ Untouched(Handlers \ {h})
      /\ reply[h] = "none" /\ reply'[h] = "pending" /\ step'[h] = "connect"
  BY <1>1, ArrivesAlone DEF FileArrives
<1>3. PICK op \in {"list", "get", "set"}, base \in (Stamps \ {0}) \cup {None} :
       edit' = [edit EXCEPT ![h].op = op, ![h].base = base]
  BY DEF FileArrives
<1>4. base # None => Stamped(base) /\ base \in Nat \cup {None}
  BY DEF Stamps, Stamped, Edits
<1>5. edit[h] = NoEdit /\ edit[h] \in Edits
  BY <1>2 DEF FileStage
<1>6. /\ edit' \in [FileRequests -> Edits]
      /\ \A g \in FileRequests \ {h} : edit'[g] = edit[g]
      /\ edit'[h].before = edit[h].before /\ edit'[h].base = base /\ edit'[h].wrote = edit[h].wrote
  BY <1>3, <1>4, <1>5 DEF Edits
<1>7. OwnStep(h)
  BY <1>1, <1>2 DEF OwnStep, LateOnlyBy, LinksLast
<1>8. \A v : Stamped(v) => Stamped(v)'
  BY <1>1, <1>2, <1>6, <1>7, FileOthers
<1>9. ~\E l \in late : l.by = h
  BY <1>2 DEF FileStage
<1>10. FileStage(h)' /\ FileCall(h)'
  BY <1>1, <1>2, <1>5, <1>6, <1>9 DEF FileStage, FileCall, NoEdit, NoCall
<1>11. FilePin(h)'
  BY <1>1, <1>2, <1>4, <1>5, <1>6, <1>8, <1>9 DEF FilePin, NoEdit
<1> QED
  BY <1>1, <1>2, <1>5, <1>6, <1>7, <1>10, <1>11, FileOwn

(* The steps of the other routes, and of everybody else.                      *)
LEMMA FileElsewhereSteps ==
  ASSUME FileInv,
         \/ \E h \in ConfigRequests : ConfigArrives(h) \/ ConfigGoesOn(h) \/ ConfigServes(h)
         \/ /\ UNCHANGED operatorVars
            /\ \E h \in ChatHandlers :
                 \/ \E m, i : ChatArrives(h, m, i)
                 \/ ChatGoesOn(h) \/ ChatServes(h) \/ HistoryServed(h)
         \/ \E l \in late : \/ l.by \in ConfigRequests /\ ConfigServedLate(l)
                            \/ l.by \in ChatHandlers /\ ChatServedLate(l) /\ UNCHANGED operatorVars
         \/ OthersSave \/ OthersConfigure
         \/ /\ UNCHANGED operatorVars
            /\ \/ Rolls \/ ComesBack
               \/ \E m \in Messages : Deletes(m)
               \/ \E l \in Handlers : LinkLost(l)
  PROVE  FileInv'
<1> USE DEF FileInv
<1>0. /\ FileRequests \subseteq Handlers /\ ConfigRequests \subseteq Handlers /\ ChatHandlers \subseteq Handlers
      /\ FileRequests \cap ConfigRequests = {} /\ FileRequests \cap ChatHandlers = {}
  BY BridgeServerAssumption
<1>1. ASSUME NEW h \in Handlers \ FileRequests, OwnStep(h) \/ Service(h), UNCHANGED <<file, edit>>
      PROVE  FileInv'
  BY <1>0, <1>1, FileElsewhere DEF OwnStep, Service, Untouched, LateOnlyBy
<1>2. ASSUME NEW h \in ConfigRequests, ConfigArrives(h) \/ ConfigGoesOn(h) \/ ConfigServes(h)
      PROVE  FileInv'
  <2>1. UNCHANGED <<file, edit>>
    BY <1>2 DEF ConfigArrives, ConfigGoesOn, ConfigConnects, ConfigGot, ConfigPatched, ConfigReported,
      Polls, ReadsBack, ConfigServes, Merges, operatorVars
  <2>2. OwnStep(h) \/ Service(h)
    BY <1>0, <1>2, ConfigGoesOnAlone, ConfigServesOne, ArrivesAlone
      DEF ConfigArrives, OwnStep, LateOnlyBy, LinksLast
  <2> QED
    BY <1>0, <1>1, <2>1, <2>2
<1>3. ASSUME UNCHANGED operatorVars, NEW h \in ChatHandlers,
             \/ \E m, i : ChatArrives(h, m, i)
             \/ ChatGoesOn(h) \/ ChatServes(h) \/ HistoryServed(h)
      PROVE  FileInv'
  <2>1. OwnStep(h) \/ Service(h)
    BY <1>0, <1>3, ChatGoesOnAlone, ChatServesOne, ArrivesAlone
      DEF ChatArrives, OwnStep, LateOnlyBy, LinksLast
  <2> QED
    BY <1>0, <1>1, <1>3, <2>1 DEF operatorVars
<1>4. ASSUME NEW l \in late,
             \/ l.by \in ConfigRequests /\ ConfigServedLate(l)
             \/ l.by \in ChatHandlers /\ ChatServedLate(l) /\ UNCHANGED operatorVars
      PROVE  FileInv'
  <2>1. UNCHANGED <<file, edit>>
    BY <1>4 DEF ConfigServedLate, Merges, operatorVars
  <2> QED
    BY <1>4, <2>1, LateAnswersNobody, FileElsewhere DEF Untouched
<1>5. CASE OthersSave \/ OthersConfigure
  BY <1>5, FileElsewhere DEF OthersSave, OthersConfigure, callVars, Tables, Untouched
<1>6. CASE /\ UNCHANGED operatorVars
           /\ \/ Rolls \/ ComesBack
              \/ \E m \in Messages : Deletes(m)
              \/ \E l \in Handlers : LinkLost(l)
  <2>1. UNCHANGED <<call, late, step, reply, file, edit>> /\ Tables'
    BY <1>6 DEF operatorVars, callVars, Rolls, ComesBack, Deletes, LinkLost, Tables
  <2> QED
    BY <2>1, FileElsewhere DEF Untouched
<1> QED
  BY <1>2, <1>3, <1>4, <1>5, <1>6

LEMMA FileStutters == FileInv /\ UNCHANGED vars => FileInv'
BY FileElsewhere DEF FileInv, vars, callVars, operatorVars, Tables, Untouched

LEMMA FileNext == FileInv /\ [Next]_vars => FileInv'
<1> SUFFICES ASSUME FileInv, Next PROVE FileInv'
  BY FileStutters
<1>1. CASE OperatorArrives /\ UNCHANGED chatVars
  BY <1>1, FileArrivesKeeps, FileElsewhereSteps DEF OperatorArrives
<1>2. CASE ChatArrivals /\ UNCHANGED operatorVars
  BY <1>2, FileElsewhereSteps
    DEF ChatArrivals, SendArrives, PatchArrives, OtherArrives, ChatHandlers
<1>3. ASSUME NEW h \in Handlers, GoesOn(h)
      PROVE  FileInv'
  BY <1>3, FileConnectsKeeps, FileReadKeeps, FileWriteKeeps, FileConfirmKeeps, FileElsewhereSteps
    DEF GoesOn, FileGoesOn
<1>4. ASSUME NEW h \in Handlers, Serves(h)
      PROVE  FileInv'
  BY <1>4, FileServesKeeps, FileElsewhereSteps DEF Serves
<1>5. CASE ServedLate
  BY <1>5, FileServedLateKeeps, FileElsewhereSteps DEF ServedLate
<1>6. CASE (OthersSave \/ OthersConfigure) /\ UNCHANGED chatVars
  BY <1>6, FileElsewhereSteps
<1>7. CASE (Rolls \/ \E m \in Messages : Deletes(m)) /\ UNCHANGED operatorVars
  BY <1>7, FileElsewhereSteps
<1>8. CASE (ComesBack \/ \E l \in Handlers : LinkLost(l)) /\ UNCHANGED <<operatorVars, chatVars>>
  BY <1>8, FileElsewhereSteps
<1> QED
  BY <1>1, <1>2, <1>3, <1>4, <1>5, <1>6, <1>7, <1>8 DEF Next

(* The invariant of /agent-files, for any requests, versions and editors: a    *)
(* pin is a stamp somebody was given, a write follows a read of its pin, and   *)
(* what waits or was given up is known by where its handler stands.            *)
THEOREM FileInvariant == Spec => []FileInv
BY FileInit, FileNext, PTL DEF Spec

(* A pinned save overwrites a version its author has seen or saved, but for    *)
(* the two windows NoUnseenOverwrite names.                                   *)
THEOREM UnseenIsKept == Spec => []NoUnseenOverwrite
<1>1. ASSUME FileInv PROVE NoUnseenOverwrite
  <2> SUFFICES ASSUME NEW h \in FileRequests, edit[h].wrote # None, edit[h].base # None,
                      ~(edit[h].wrote - 1 > edit[h].before)
               PROVE  \E g \in FileRequests :
                        \/ edit[g].op # "set" /\ reply[g] = "200" /\ edit[g].before = edit[h].wrote - 1
                        \/ edit[g].wrote = edit[h].wrote - 1
                        \/ reply[g] = "200" /\ edit[g].after = edit[h].wrote - 1
    BY DEF NoUnseenOverwrite
  <2>1. edit[h].wrote - 1 = edit[h].base /\ Stamped(edit[h].base)
    BY <1>1 DEF FileInv, FilePin
  <2> QED
    BY <2>1 DEF Stamped
<1> QED
  BY <1>1, FileInvariant, PTL

-----------------------------------------------------------------------------
(* /config-defaults *)

Configs == [Fields -> Values]
Authors == [Fields -> ConfigRequests \cup {None}]

(* What h wants is in configuration c, or was set by another since.           *)
Landed(h, c, a) ==
  \A d \in Defaults : change[h].want[d] = None \/ c[d] = change[h].want[d] \/ a[d] # h

(* Where a defaults request stands.                                           *)
ConfigStage(h) ==
  /\ step[h] \in {"new", "connect", "get", "patch", "report", "poll", "readback", "done"}
  /\ reply[h] = "none" => step[h] = "new" /\ change[h] = NoChange
  /\ step[h] = "new" => reply[h] = "none"
  /\ reply[h] = "200" => step[h] = "done"
  /\ step[h] \in {"connect", "get", "patch", "report", "poll", "readback"} => reply[h] = "pending"

(* How often its patch was applied: a patch is out once, or was refused.       *)
ConfigOnce(h) ==
  /\ change[h].applied \in {0, 1}
  /\ step[h] \in {"new", "connect", "get"} => change[h].applied = 0
  /\ step[h] = "patch" /\ call[h].answer = None => change[h].applied = 0
  /\ step[h] = "report" => change[h].want = Unasked \/ change[h].applied = 1

(* A patch given up has not been applied, and there is one at most.            *)
ConfigLate(h) ==
  /\ \A l \in late : l.by = h =>
       /\ step[h] \in {"poll", "readback", "done"}
       /\ change[h].applied = 0
       /\ l.request.want = change[h].want
  /\ \A l, m \in late : l.by = h /\ m.by = h => l = m

(* What it awaits.                                                            *)
ConfigCall(h) ==
  /\ step[h] \in {"new", "connect", "poll", "done"} => call[h] = NoCall
  /\ step[h] \in {"get", "report", "readback"} => call[h].request = ConfigGet
  /\ step[h] = "patch" =>
       /\ call[h].request.method = "config.patch"
       /\ call[h].request.want = change[h].want
       /\ call[h].answer # None =>
            \/ call[h].answer = Ok(None) /\ change[h].applied = 1
            \/ call[h].answer = Failed("base hash") /\ change[h].applied = 0
  /\ step[h] \in {"get", "report", "readback"} /\ call[h].answer # None =>
       \E c \in Configs, a \in Authors :
         /\ call[h].answer = Ok([config |-> c, author |-> a])
         /\ step[h] = "report" => Landed(h, c, a)

(* What was applied stands, and what was told is so.                          *)
ConfigHeld(h) ==
  /\ change[h].applied = 1 => Landed(h, config, author)
  /\ reply[h] = "200" =>
       \/ DefaultsApplied(change[h].want, change[h].told)
       \/ /\ Landed(h, change[h].told, change[h].authors)
          /\ change[h].want = Unasked \/ change[h].applied = 1

ConfigOk(h) ==
  ConfigStage(h) /\ ConfigOnce(h) /\ ConfigLate(h) /\ ConfigCall(h) /\ ConfigHeld(h)

ConfigTypes ==
  /\ Tables
  /\ config \in Configs
  /\ author \in Authors
  /\ change \in [ConfigRequests -> Changes]

ConfigInv == ConfigTypes /\ \A h \in ConfigRequests : ConfigOk(h)

LEMMA ConfigInit == Init => ConfigInv
<1> SUFFICES ASSUME Init PROVE ConfigInv
  OBVIOUS
<1>1. Tables
  BY DEF Init, CallsInit, Tables
<1>2. config \in Configs /\ author \in Authors
  BY OperatorRoutesAssumption DEF Init, OperatorInit, Configs, Authors
<1>3. NoChange \in Changes
  BY DEF NoChange, Changes, Unasked
<1>4. change = [h \in ConfigRequests |-> NoChange] /\ late = {}
      /\ \A h \in ConfigRequests : step[h] = "new" /\ reply[h] = "none" /\ call[h] = NoCall
  BY OperatorRoutesAssumption DEF Init, CallsInit, OperatorInit
<1>5. ASSUME NEW h \in ConfigRequests PROVE ConfigOk(h)
  <2>1. change[h] = NoChange /\ change[h].applied = 0
    BY <1>4 DEF NoChange
  <2>2. ConfigStage(h)
    BY <1>4, <2>1 DEF ConfigStage
  <2>3. ConfigOnce(h) /\ ConfigLate(h)
    BY <1>4, <2>1 DEF ConfigOnce, ConfigLate
  <2>4. ConfigCall(h)
    BY <1>4 DEF ConfigCall
  <2>5. ConfigHeld(h)
    BY <1>4, <2>1 DEF ConfigHeld
  <2> QED
    BY <2>2, <2>3, <2>4, <2>5 DEF ConfigOk
<1> QED
  BY <1>1, <1>2, <1>3, <1>4, <1>5 DEF ConfigInv, ConfigTypes

(* A request that takes no step keeps what is known of it, whatever else        *)
(* becomes of the configuration in other hands.                               *)
LEMMA ConfigKept ==
  ASSUME NEW g \in ConfigRequests, ConfigOk(g),
         call'[g] = call[g], step'[g] = step[g], reply'[g] = reply[g], change'[g] = change[g],
         \A l \in late' : l.by = g => l \in late,
         \A d \in Defaults : (config'[d] = config[d] /\ author'[d] = author[d]) \/ author'[d] # g
  PROVE  ConfigOk(g)'
<1>1. ConfigStage(g)'
  BY DEF ConfigOk, ConfigStage
<1>2. ConfigOnce(g)'
  BY DEF ConfigOk, ConfigOnce
<1>3. ConfigLate(g)'
  BY DEF ConfigOk, ConfigLate
<1>4. \A c, a : Landed(g, c, a) => Landed(g, c, a)'
  BY DEF Landed
<1>5. ConfigCall(g)'
  BY <1>4 DEF ConfigOk, ConfigCall
<1>6. change'[g].applied = 1 => Landed(g, config, author)'
  BY DEF ConfigOk, ConfigHeld, Landed
<1>7. Landed(g, change[g].told, change[g].authors) => Landed(g, change[g].told, change[g].authors)'
  BY DEF Landed
<1>8. ConfigHeld(g)'
  BY <1>6, <1>7 DEF ConfigOk, ConfigHeld
<1> QED
  BY <1>1, <1>2, <1>3, <1>5, <1>8 DEF ConfigOk

LEMMA ConfigElsewhere ==
  ASSUME ConfigInv, Tables', Untouched(ConfigRequests), change' = change,
         config' \in Configs, author' \in Authors,
         \A l \in late' : l \in late \/ l.by \notin ConfigRequests,
         \A d \in Defaults : (config'[d] = config[d] /\ author'[d] = author[d]) \/ author'[d] = None
  PROVE  ConfigInv'
<1>1. ConfigTypes'
  BY DEF ConfigInv, ConfigTypes
<1>2. ASSUME NEW g \in ConfigRequests PROVE ConfigOk(g)'
  <2>1. None # g
    BY GatewayCallsAssumption, OperatorRoutesAssumption
  <2>2. ConfigOk(g)
    BY DEF ConfigInv
  <2>3. \A d \in Defaults : (config'[d] = config[d] /\ author'[d] = author[d]) \/ author'[d] # g
    BY <2>1
  <2>4. call'[g] = call[g] /\ step'[g] = step[g] /\ reply'[g] = reply[g] /\ change'[g] = change[g]
    BY DEF Untouched
  <2>5. \A l \in late' : l.by = g => l \in late
    OBVIOUS
  <2> QED
    BY <2>2, <2>3, <2>4, <2>5, ConfigKept
<1> QED
  BY <1>1, <1>2 DEF ConfigInv

(* So it is enough to look at the request that takes the step.                *)
LEMMA ConfigOwn ==
  ASSUME ConfigInv, NEW h \in ConfigRequests, OwnStep(h) \/ Service(h),
         config' \in Configs, author' \in Authors, change' \in [ConfigRequests -> Changes],
         \A g \in ConfigRequests \ {h} : change'[g] = change[g],
         \A d \in Defaults : (config'[d] = config[d] /\ author'[d] = author[d]) \/ author'[d] = h,
         ConfigOk(h)'
  PROVE  ConfigInv'
<1>1. ConfigTypes'
  BY DEF ConfigInv, ConfigTypes, OwnStep, Service
<1>2. ASSUME NEW g \in ConfigRequests, g # h PROVE ConfigOk(g)'
  <2>1. call'[g] = call[g] /\ step'[g] = step[g] /\ reply'[g] = reply[g] /\ change'[g] = change[g]
    BY <1>2, OperatorRoutesAssumption DEF OwnStep, Service, Untouched
  <2>2. \A l \in late' : l.by = g => l \in late
    BY <1>2 DEF OwnStep, Service, LateOnlyBy
  <2>3. \A d \in Defaults : (config'[d] = config[d] /\ author'[d] = author[d]) \/ author'[d] # g
    BY <1>2
  <2>4. ConfigOk(g)
    BY DEF ConfigInv
  <2> QED
    BY <2>1, <2>2, <2>3, <2>4, ConfigKept
<1> QED
  BY <1>1, <1>2 DEF ConfigInv

(* The locals of h that matter, but for the one that a step sets.             *)
SameChange(h) ==
  /\ change' \in [ConfigRequests -> Changes]
  /\ \A g \in ConfigRequests \ {h} : change'[g] = change[g]
  /\ change'[h].want = change[h].want /\ change'[h].applied = change[h].applied

(* What h leaves behind may be served, once.                                  *)
LateStands(h) ==
  /\ \A l \in late' : l.by = h => change[h].applied = 0 /\ l.request.want = change[h].want
  /\ \A l, m \in late' : l.by = h /\ m.by = h => l = m

GivesUp(h) ==
  /\ call'[h] = NoCall
  /\ \/ step'[h] = "poll" /\ reply'[h] = reply[h]
     \/ step'[h] = "done" /\ reply'[h] = "502"

LEMMA GivesUpKeeps ==
  ASSUME ConfigInv, NEW h \in ConfigRequests, OwnStep(h), reply[h] = "pending",
         GivesUp(h), SameChange(h), LateStands(h), UNCHANGED <<config, author>>
  PROVE  ConfigInv'
<1>1. ConfigOk(h) /\ ConfigTypes
  BY DEF ConfigInv
<1>2. ConfigStage(h)'
  BY DEF GivesUp, ConfigStage
<1>3. ConfigOnce(h)'
  BY <1>1 DEF GivesUp, SameChange, ConfigOk, ConfigOnce
<1>4. ConfigLate(h)'
  BY DEF GivesUp, SameChange, LateStands, ConfigLate
<1>5. ConfigCall(h)'
  BY DEF GivesUp, ConfigCall
<1>6. ConfigHeld(h)'
  BY <1>1 DEF GivesUp, SameChange, ConfigOk, ConfigHeld, Landed
<1>7. ConfigOk(h)'
  BY <1>2, <1>3, <1>4, <1>5, <1>6 DEF ConfigOk
<1> QED
  BY <1>1, <1>7, ConfigOwn DEF SameChange, ConfigTypes

(* The locals of h are set field by field.                                    *)
LEMMA PollsSet ==
  ASSUME ConfigTypes, NEW h \in ConfigRequests, NEW n \in Nat,
         change' = [change EXCEPT ![h].polls = n]
  PROVE  SameChange(h)
<1>1. change \in [ConfigRequests -> Changes] /\ change[h] \in Changes
  BY DEF ConfigTypes
<1>2. change' = [change EXCEPT ![h] = [change[h] EXCEPT !.polls = n]]
  OBVIOUS
<1>3. [change[h] EXCEPT !.polls = n] \in Changes
  BY <1>1 DEF Changes
<1>4. /\ change'[h].want = change[h].want /\ change'[h].applied = change[h].applied
  BY <1>1, <1>2 DEF Changes
<1> QED
  BY <1>1, <1>2, <1>3, <1>4 DEF SameChange

LEMMA SameChangeStutters ==
  ASSUME ConfigTypes, NEW h, change' = change
  PROVE  SameChange(h)
BY DEF ConfigTypes, SameChange

LEMMA FailsGivesUp ==
  ASSUME ConfigTypes, NEW h \in ConfigRequests, NEW error, Fails(h, error)
  PROVE  GivesUp(h) /\ SameChange(h)
<1>1. h \in Handlers /\ change[h] \in Changes
  BY OperatorRoutesAssumption DEF ConfigTypes
<1>2. GivesUp(h)
  BY <1>1 DEF Fails, Finishes, Replies, ConfigTypes, Tables, GivesUp
<1>3. SameChange(h)
  BY PollsSet, SameChangeStutters DEF Fails
<1> QED
  BY <1>2, <1>3

LEMMA PollsOnGivesUp ==
  ASSUME ConfigTypes, NEW h \in ConfigRequests, PollsOn(h)
  PROVE  GivesUp(h) /\ SameChange(h)
<1>1. h \in Handlers /\ change[h] \in Changes
  BY OperatorRoutesAssumption DEF ConfigTypes
<1>2. GivesUp(h)
  BY <1>1 DEF PollsOn, Finishes, Replies, ConfigTypes, Tables, GivesUp
<1>3. CASE /\ change[h].polls + 1 < MaxPolls
           /\ change' = [change EXCEPT ![h].polls = @ + 1]
  <2>1. change[h].polls + 1 \in Nat
    BY <1>1 DEF Changes
  <2>2. change' = [change EXCEPT ![h].polls = change[h].polls + 1]
    BY <1>3
  <2> QED
    BY <1>2, <2>1, <2>2, PollsSet
<1>4. CASE UNCHANGED change
  BY <1>2, <1>4, SameChangeStutters
<1> QED
  BY <1>3, <1>4 DEF PollsOn

LEMMA ConfigGetLeavesNothing ==
  ASSUME NEW h, NEW o, call[h].request = ConfigGet
  PROVE  LeftBehind(h, o) = late
BY DEF LeftBehind, ConfigGet, ReadMethods

LEMMA LateStandsStill ==
  ASSUME NEW h, ConfigLate(h), late' = late
  PROVE  LateStands(h)
BY DEF ConfigLate, LateStands

LEMMA ConfigConnectsKeeps ==
  ASSUME ConfigInv, NEW h \in ConfigRequests, ConfigConnects(h)
  PROVE  ConfigInv'
<1>1. OwnStep(h) /\ ConfigOk(h) /\ ConfigTypes /\ h \in Handlers
  BY ConfigGoesOnAlone, OperatorRoutesAssumption DEF ConfigInv, ConfigTypes, ConfigGoesOn
<1>2. step[h] = "connect" /\ UNCHANGED <<late, config, author>> /\ reply[h] = "pending"
  BY <1>1 DEF ConfigConnects, ConfigOk, ConfigStage
<1>3. ASSUME NEW error, Fails(h, error) PROVE ConfigInv'
  BY <1>1, <1>2, <1>3, FailsGivesUp, GivesUpKeeps, LateStandsStill DEF ConfigOk
<1>4. ASSUME UNCHANGED change, Opens(h, IF IsSet(h) THEN "get" ELSE "report", ConfigGet)
      PROVE  ConfigInv'
  <2>1. /\ step'[h] = (IF IsSet(h) THEN "get" ELSE "report") /\ reply'[h] = reply[h]
        /\ call'[h].request = ConfigGet /\ call'[h].answer = None
    BY <1>1, <1>4 DEF Opens, Asks, ConfigTypes, Tables
  <2>2. ConfigStage(h)' /\ ConfigCall(h)'
    BY <1>2, <1>4, <2>1 DEF ConfigStage, ConfigCall
  <2>3. ConfigOnce(h)' /\ ConfigLate(h)'
    BY <1>1, <1>2, <1>4, <2>1 DEF ConfigOk, ConfigOnce, ConfigLate, IsSet
  <2>4. ConfigHeld(h)'
    BY <1>1, <1>2, <1>4, <2>1 DEF ConfigOk, ConfigHeld, Landed
  <2>5. ConfigOk(h)'
    BY <2>2, <2>3, <2>4 DEF ConfigOk
  <2> QED
    BY <1>1, <1>2, <1>4, <2>5, ConfigOwn DEF ConfigTypes
<1> QED
  BY <1>3, <1>4 DEF ConfigConnects


LEMMA ConfigGotKeeps ==
  ASSUME ConfigInv, NEW h \in ConfigRequests, ConfigGot(h)
  PROVE  ConfigInv'
<1>1. OwnStep(h) /\ ConfigOk(h) /\ ConfigTypes /\ h \in Handlers
  BY ConfigGoesOnAlone, OperatorRoutesAssumption DEF ConfigInv, ConfigTypes, ConfigGoesOn
<1>2. step[h] = "get" /\ UNCHANGED <<config, author>> /\ reply[h] = "pending"
  BY <1>1 DEF ConfigGot, ConfigOk, ConfigStage
<1>3. PICK o \in Outcomes(h) :
       /\ late' = LeftBehind(h, o)
       /\ \/ o.error # None /\ Fails(h, o.error)
          \/ /\ o.error = None /\ UNCHANGED change
             /\ \E baseHash : AsksNext(h, "patch", ConfigPatch(change[h].want, baseHash))
  BY DEF ConfigGot
<1>4. late' = late
  BY <1>1, <1>2, <1>3, ConfigGetLeavesNothing DEF ConfigOk, ConfigCall
<1>5. CASE Fails(h, o.error)
  BY <1>1, <1>2, <1>4, <1>5, FailsGivesUp, GivesUpKeeps, LateStandsStill DEF ConfigOk
<1>6. ASSUME UNCHANGED change, NEW baseHash, AsksNext(h, "patch", ConfigPatch(change[h].want, baseHash))
      PROVE  ConfigInv'
  <2>1. /\ step'[h] = "patch" /\ reply'[h] = reply[h] /\ call'[h].answer = None
        /\ call'[h].request.method = "config.patch" /\ call'[h].request.want = change[h].want
    BY <1>1, <1>6 DEF AsksNext, Asks, ConfigTypes, Tables, ConfigPatch
  <2>2. ConfigStage(h)' /\ ConfigCall(h)'
    BY <1>2, <1>6, <2>1 DEF ConfigStage, ConfigCall
  <2>3. ConfigOnce(h)' /\ ConfigLate(h)'
    BY <1>1, <1>2, <1>4, <1>6, <2>1 DEF ConfigOk, ConfigOnce, ConfigLate
  <2>4. ConfigHeld(h)'
    BY <1>1, <1>2, <1>6, <2>1 DEF ConfigOk, ConfigHeld, Landed
  <2>5. ConfigOk(h)'
    BY <2>2, <2>3, <2>4 DEF ConfigOk
  <2> QED
    BY <1>1, <1>2, <1>6, <2>5, ConfigOwn DEF ConfigTypes
<1> QED
  BY <1>3, <1>5, <1>6

(* "base hash" is the gateway's word, and it means that nothing was applied;   *)
(* so does a patch nobody answered.                                           *)
LEMMA PatchOutcome ==
  ASSUME NEW h \in ConfigRequests, ConfigOk(h), step[h] = "patch", NEW o \in Outcomes(h)
  PROVE  /\ o.error = None => change[h].applied = 1 /\ call[h].answer # None
         /\ o.error = "base hash" => change[h].applied = 0 /\ call[h].answer # None
         /\ call[h].answer = None => change[h].applied = 0
         /\ call[h].request.want = change[h].want
<1>1. \/ call[h].answer = None /\ change[h].applied = 0
      \/ call[h].answer = Ok(None) /\ change[h].applied = 1
      \/ call[h].answer = Failed("base hash") /\ change[h].applied = 0
  BY DEF ConfigOk, ConfigOnce, ConfigCall
<1>2. Ok(None).error = None /\ Failed("base hash").error = "base hash" /\ None # "base hash"
  BY GatewayCallsAssumption DEF Ok, Failed
<1>3. ASSUME o.error = None PROVE change[h].applied = 1 /\ call[h].answer # None
  BY <1>1, <1>2, <1>3, OutcomeIsAnswer
<1>4. ASSUME o.error = "base hash" PROVE change[h].applied = 0 /\ call[h].answer # None
  <2>1. call[h].answer # None
    BY <1>4, OutcomeUnanswered
  <2> DEFINE answered == IF call[h].answer = None THEN {Failed("UPSTREAM_ERROR")} ELSE {call[h].answer}
  <2>2. /\ o # Failed("UPSTREAM_ERROR") /\ o # Failed("GATEWAY_TIMEOUT")
        /\ o # Failed("GATEWAY_DISCONNECTED")
    <3>1. /\ Failed("UPSTREAM_ERROR").error # "base hash"
          /\ Failed("GATEWAY_TIMEOUT").error # "base hash"
          /\ Failed("GATEWAY_DISCONNECTED").error # "base hash"
      BY DEF Failed
    <3> QED
      BY <1>4, <3>1
  <2>3. o \in answered
    BY <2>2 DEF Outcomes
  <2> QED
    BY <1>1, <1>2, <1>4, <2>1, <2>3
<1>5. call[h].request.want = change[h].want
  BY DEF ConfigOk, ConfigCall
<1> QED
  BY <1>1, <1>3, <1>4, <1>5, GatewayCallsAssumption DEF Ok, Failed

LEMMA AnsweredLeavesNothing ==
  ASSUME NEW h, NEW o, call[h].answer # None
  PROVE  LeftBehind(h, o) = late
BY DEF LeftBehind

LEMMA ConfigPatchedKeeps ==
  ASSUME ConfigInv, NEW h \in ConfigRequests, ConfigPatched(h)
  PROVE  ConfigInv'
<1>1. OwnStep(h) /\ ConfigOk(h) /\ ConfigTypes /\ h \in Handlers /\ change[h] \in Changes
  BY ConfigGoesOnAlone, OperatorRoutesAssumption DEF ConfigInv, ConfigTypes, ConfigGoesOn
<1>2. step[h] = "patch" /\ UNCHANGED <<config, author>> /\ reply[h] = "pending"
  BY <1>1 DEF ConfigPatched, ConfigOk, ConfigStage
<1>3. PICK o \in Outcomes(h) :
       /\ late' = LeftBehind(h, o)
       /\ \/ o.error = None /\ AsksNext(h, "report", ConfigGet) /\ UNCHANGED change
          \/ /\ o.error # None /\ Retries(h, o.error)
             /\ AsksNext(h, "get", ConfigGet)
             /\ change' = [change EXCEPT ![h].retried = TRUE]
          \/ o.error # None /\ ~Retries(h, o.error) /\ Fails(h, o.error)
  BY DEF ConfigPatched
<1>4. ASSUME NEW s \in {"report", "get"}, AsksNext(h, s, ConfigGet), late' = late,
             s = "report" => change[h].applied = 1, s = "get" => change[h].applied = 0,
             change' \in [ConfigRequests -> Changes],
             \A g \in ConfigRequests \ {h} : change'[g] = change[g],
             change'[h].want = change[h].want, change'[h].applied = change[h].applied
      PROVE  ConfigInv'
  <2>1. /\ step'[h] = s /\ reply'[h] = reply[h] /\ call'[h].answer = None
        /\ call'[h].request = ConfigGet
    BY <1>1, <1>4 DEF AsksNext, Asks, ConfigTypes, Tables
  <2>2. ConfigStage(h)' /\ ConfigCall(h)'
    BY <1>2, <1>4, <2>1 DEF ConfigStage, ConfigCall
  <2>3. ConfigOnce(h)' /\ ConfigLate(h)'
    BY <1>1, <1>2, <1>4, <2>1 DEF ConfigOk, ConfigOnce, ConfigLate
  <2>4. ConfigHeld(h)'
    BY <1>1, <1>2, <1>4, <2>1 DEF ConfigOk, ConfigHeld, Landed
  <2>5. ConfigOk(h)'
    BY <2>2, <2>3, <2>4 DEF ConfigOk
  <2> QED
    BY <1>1, <1>2, <1>4, <2>5, ConfigOwn DEF ConfigTypes
<1>5. CASE o.error = None /\ AsksNext(h, "report", ConfigGet) /\ UNCHANGED change
  <2>1. change[h].applied = 1 /\ late' = late
    BY <1>1, <1>2, <1>3, <1>5, PatchOutcome, AnsweredLeavesNothing
  <2> QED
    BY <1>1, <1>4, <1>5, <2>1 DEF ConfigTypes
<1>6. CASE /\ Retries(h, o.error) /\ AsksNext(h, "get", ConfigGet)
           /\ change' = [change EXCEPT ![h].retried = TRUE]
  <2>1. change[h].applied = 0 /\ late' = late
    BY <1>1, <1>2, <1>3, <1>6, PatchOutcome, AnsweredLeavesNothing DEF Retries
  <2>2. change' = [change EXCEPT ![h] = [change[h] EXCEPT !.retried = TRUE]]
    BY <1>6
  <2>3. /\ [change[h] EXCEPT !.retried = TRUE] \in Changes
        /\ [change[h] EXCEPT !.retried = TRUE].want = change[h].want
        /\ [change[h] EXCEPT !.retried = TRUE].applied = change[h].applied
    BY <1>1 DEF Changes
  <2>4. /\ change' \in [ConfigRequests -> Changes]
        /\ \A g \in ConfigRequests \ {h} : change'[g] = change[g]
        /\ change'[h] = [change[h] EXCEPT !.retried = TRUE]
    BY <1>1, <2>2, <2>3 DEF ConfigTypes
  <2> QED
    BY <1>4, <1>6, <2>1, <2>3, <2>4
<1>7. CASE Fails(h, o.error)
  <2>1. \A l \in late : l.by # h
    BY <1>1, <1>2 DEF ConfigOk, ConfigLate
  <2>2. \/ late' = late
        \/ /\ late' = late \cup {[by |-> h, request |-> call[h].request]}
           /\ change[h].applied = 0
    BY <1>1, <1>2, <1>3, PatchOutcome DEF LeftBehind
  <2> DEFINE mine == [by |-> h, request |-> call[h].request]
  <2>3. mine.request.want = change[h].want
    BY <1>1, <1>2, PatchOutcome
  <2>4. \A l \in late' : l.by = h => l = mine /\ change[h].applied = 0
    BY <2>1, <2>2
  <2>5. LateStands(h)
    BY <2>3, <2>4 DEF LateStands
  <2> QED
    BY <1>1, <1>2, <1>7, <2>5, FailsGivesUp, GivesUpKeeps
<1> QED
  BY <1>3, <1>5, <1>6, <1>7

(* A read answered: what is told is what the gateway's answer says.           *)
LEMMA ReadAnswered ==
  ASSUME NEW h \in ConfigRequests, ConfigOk(h), step[h] \in {"report", "readback"},
         NEW o \in Outcomes(h), o.error = None
  PROVE  /\ o.value.config \in Configs /\ o.value.author \in Authors
         /\ step[h] = "report" => Landed(h, o.value.config, o.value.author)
<1>1. o = call[h].answer /\ call[h].answer # None
  BY OutcomeIsAnswer
<1>2. PICK c \in Configs, a \in Authors :
       /\ call[h].answer = Ok([config |-> c, author |-> a])
       /\ step[h] = "report" => Landed(h, c, a)
  BY <1>1 DEF ConfigOk, ConfigCall
<1>3. o.value = [config |-> c, author |-> a]
  BY <1>1, <1>2, OkValue
<1>4. o.value.config = c /\ o.value.author = a
  BY <1>3
<1> QED
  BY <1>2, <1>4

LEMMA ToldSets ==
  ASSUME ConfigTypes, NEW h \in ConfigRequests, NEW v, v.config \in Configs, v.author \in Authors,
         change' = Told(h, v)
  PROVE  /\ change' \in [ConfigRequests -> Changes]
         /\ \A g \in ConfigRequests \ {h} : change'[g] = change[g]
         /\ change'[h].want = change[h].want /\ change'[h].applied = change[h].applied
         /\ change'[h].told = v.config /\ change'[h].authors = v.author
<1>1. change \in [ConfigRequests -> Changes] /\ change[h] \in Changes
  BY DEF ConfigTypes
<1> DEFINE mine == [change[h] EXCEPT !.told = v.config, !.authors = v.author]
<1>2. change' = [change EXCEPT ![h] = mine]
  BY <1>1 DEF Told
<1>3. mine \in Changes
  BY <1>1 DEF Changes, Configs, Authors
<1>4. /\ mine.want = change[h].want /\ mine.applied = change[h].applied
      /\ mine.told = v.config /\ mine.authors = v.author
  BY <1>1 DEF Changes
<1>5. change'[h] = mine
  BY <1>1, <1>2
<1> QED
  BY <1>1, <1>2, <1>3, <1>4, <1>5

(* A 200 on what was read.                                                    *)
LEMMA TellsKeeps ==
  ASSUME ConfigInv, NEW h \in ConfigRequests, OwnStep(h), Finishes(h, "200"), late' = late,
         step[h] \in {"report", "readback"},
         NEW o \in Outcomes(h), o.error = None, change' = Told(h, o.value),
         UNCHANGED <<config, author>>,
         step[h] = "readback" => DefaultsApplied(change[h].want, o.value.config)
  PROVE  ConfigInv'
<1>1. ConfigOk(h) /\ ConfigTypes /\ h \in Handlers
  BY OperatorRoutesAssumption DEF ConfigInv
<1>2. /\ o.value.config \in Configs /\ o.value.author \in Authors
      /\ step[h] = "report" => Landed(h, o.value.config, o.value.author)
  BY <1>1, ReadAnswered
<1>3. /\ change' \in [ConfigRequests -> Changes]
      /\ \A g \in ConfigRequests \ {h} : change'[g] = change[g]
      /\ change'[h].want = change[h].want /\ change'[h].applied = change[h].applied
      /\ change'[h].told = o.value.config /\ change'[h].authors = o.value.author
  BY <1>1, <1>2, ToldSets
<1>4. step'[h] = "done" /\ reply'[h] = "200" /\ call'[h] = NoCall
  BY <1>1 DEF Finishes, Replies, ConfigTypes, Tables
<1>5. ConfigStage(h)' /\ ConfigCall(h)'
  BY <1>4 DEF ConfigStage, ConfigCall
<1>6. ConfigOnce(h)' /\ ConfigLate(h)'
  BY <1>1, <1>3, <1>4 DEF ConfigOk, ConfigOnce, ConfigLate
<1>7. change'[h].applied = 1 => Landed(h, config, author)'
  BY <1>1, <1>3 DEF ConfigOk, ConfigHeld, Landed
<1>8. \/ DefaultsApplied(change'[h].want, change'[h].told)
      \/ /\ Landed(h, change[h].told, change[h].authors)'
         /\ change'[h].want = Unasked \/ change'[h].applied = 1
  <2>1. CASE step[h] = "readback"
    BY <1>3, <2>1
  <2>2. CASE step[h] = "report"
    BY <1>1, <1>2, <1>3, <2>2 DEF ConfigOk, ConfigOnce, Landed
  <2> QED
    BY <2>1, <2>2
<1>9. ConfigHeld(h)'
  BY <1>7, <1>8 DEF ConfigHeld
<1>10. ConfigOk(h)'
  BY <1>5, <1>6, <1>9 DEF ConfigOk
<1> QED
  BY <1>1, <1>3, <1>10, ConfigOwn DEF ConfigTypes

LEMMA ConfigReportedKeeps ==
  ASSUME ConfigInv, NEW h \in ConfigRequests, ConfigReported(h)
  PROVE  ConfigInv'
<1>1. OwnStep(h) /\ ConfigOk(h) /\ ConfigTypes /\ h \in Handlers
  BY ConfigGoesOnAlone, OperatorRoutesAssumption DEF ConfigInv, ConfigTypes, ConfigGoesOn
<1>2. step[h] = "report" /\ UNCHANGED <<config, author>> /\ reply[h] = "pending"
  BY <1>1 DEF ConfigReported, ConfigOk, ConfigStage
<1>3. PICK o \in Outcomes(h) :
       /\ late' = LeftBehind(h, o)
       /\ \/ o.error # None /\ Fails(h, o.error)
          \/ o.error = None /\ Finishes(h, "200") /\ change' = Told(h, o.value)
  BY DEF ConfigReported
<1>4. late' = late
  BY <1>1, <1>2, <1>3, ConfigGetLeavesNothing DEF ConfigOk, ConfigCall
<1>5. CASE Fails(h, o.error)
  BY <1>1, <1>2, <1>4, <1>5, FailsGivesUp, GivesUpKeeps, LateStandsStill DEF ConfigOk
<1>6. CASE o.error = None /\ Finishes(h, "200") /\ change' = Told(h, o.value)
  BY <1>1, <1>2, <1>4, <1>6, TellsKeeps
<1> QED
  BY <1>3, <1>5, <1>6

LEMMA PollsKeeps ==
  ASSUME ConfigInv, NEW h \in ConfigRequests, Polls(h)
  PROVE  ConfigInv'
<1>1. OwnStep(h) /\ ConfigOk(h) /\ ConfigTypes /\ h \in Handlers
  BY ConfigGoesOnAlone, OperatorRoutesAssumption DEF ConfigInv, ConfigTypes, ConfigGoesOn
<1>2. step[h] = "poll" /\ UNCHANGED <<late, config, author>> /\ reply[h] = "pending"
  BY <1>1 DEF Polls, ConfigOk, ConfigStage
<1>3. CASE PollsOn(h)
  BY <1>1, <1>2, <1>3, PollsOnGivesUp, GivesUpKeeps, LateStandsStill DEF ConfigOk
<1>4. CASE Opens(h, "readback", ConfigGet) /\ UNCHANGED change
  <2>1. /\ step'[h] = "readback" /\ reply'[h] = reply[h] /\ call'[h].answer = None
        /\ call'[h].request = ConfigGet
    BY <1>1, <1>4 DEF Opens, Asks, ConfigTypes, Tables
  <2>2. ConfigStage(h)' /\ ConfigCall(h)'
    BY <1>2, <1>4, <2>1 DEF ConfigStage, ConfigCall
  <2>3. ConfigOnce(h)' /\ ConfigLate(h)'
    BY <1>1, <1>2, <1>4, <2>1 DEF ConfigOk, ConfigOnce, ConfigLate
  <2>4. ConfigHeld(h)'
    BY <1>1, <1>2, <1>4, <2>1 DEF ConfigOk, ConfigHeld, Landed
  <2>5. ConfigOk(h)'
    BY <2>2, <2>3, <2>4 DEF ConfigOk
  <2> QED
    BY <1>1, <1>2, <1>4, <2>5, ConfigOwn DEF ConfigTypes
<1> QED
  BY <1>3, <1>4 DEF Polls

LEMMA ReadsBackKeeps ==
  ASSUME ConfigInv, NEW h \in ConfigRequests, ReadsBack(h)
  PROVE  ConfigInv'
<1>1. OwnStep(h) /\ ConfigOk(h) /\ ConfigTypes /\ h \in Handlers
  BY ConfigGoesOnAlone, OperatorRoutesAssumption DEF ConfigInv, ConfigTypes, ConfigGoesOn
<1>2. step[h] = "readback" /\ UNCHANGED <<config, author>> /\ reply[h] = "pending"
  BY <1>1 DEF ReadsBack, ConfigOk, ConfigStage
<1>3. PICK o \in Outcomes(h) :
       /\ late' = LeftBehind(h, o)
       /\ \/ o.error # None /\ PollsOn(h)
          \/ /\ o.error = None /\ DefaultsApplied(change[h].want, o.value.config)
             /\ Finishes(h, "200")
             /\ change' = Told(h, o.value)
          \/ /\ o.error = None /\ ~DefaultsApplied(change[h].want, o.value.config)
             /\ Finishes(h, "502")
             /\ UNCHANGED change
  BY DEF ReadsBack
<1>4. late' = late
  BY <1>1, <1>2, <1>3, ConfigGetLeavesNothing DEF ConfigOk, ConfigCall
<1>5. CASE PollsOn(h)
  BY <1>1, <1>2, <1>4, <1>5, PollsOnGivesUp, GivesUpKeeps, LateStandsStill DEF ConfigOk
<1>6. CASE /\ o.error = None /\ DefaultsApplied(change[h].want, o.value.config)
           /\ Finishes(h, "200") /\ change' = Told(h, o.value)
  BY <1>1, <1>2, <1>4, <1>6, TellsKeeps
<1>7. CASE Finishes(h, "502") /\ UNCHANGED change
  <2>1. GivesUp(h)
    BY <1>1, <1>7 DEF Finishes, Replies, ConfigTypes, Tables, GivesUp
  <2> QED
    BY <1>1, <1>2, <1>4, <1>7, <2>1, GivesUpKeeps, SameChangeStutters, LateStandsStill DEF ConfigOk
<1> QED
  BY <1>3, <1>5, <1>6, <1>7


(* The gateway merges a patch: what was wanted is in, in h's name.             *)
LEMMA MergesLands ==
  ASSUME ConfigTypes, NEW h \in ConfigRequests, Merges(h, change[h].want), change[h].applied = 0
  PROVE  /\ config' \in Configs /\ author' \in Authors /\ change' \in [ConfigRequests -> Changes]
         /\ \A g \in ConfigRequests \ {h} : change'[g] = change[g]
         /\ \A d \in Defaults : (config'[d] = config[d] /\ author'[d] = author[d]) \/ author'[d] = h
         /\ change'[h] = [change[h] EXCEPT !.applied = 1]
         /\ change'[h].want = change[h].want /\ change'[h].applied = 1
         /\ change'[h].told = change[h].told /\ change'[h].authors = change[h].authors
         /\ Landed(h, config, author)'
<1>1. /\ change \in [ConfigRequests -> Changes] /\ change[h] \in Changes
      /\ change[h].want \in [Defaults -> Values \cup {None}]
      /\ config \in [Fields -> Values] /\ author \in [Fields -> ConfigRequests \cup {None}]
  BY DEF ConfigTypes, Changes, Configs, Authors
<1> DEFINE mine == [change[h] EXCEPT !.applied = 1]
<1>2. change' = [change EXCEPT ![h] = mine]
  BY <1>1 DEF Merges
<1>3. mine \in Changes
  BY <1>1 DEF Changes
<1>4. /\ mine.want = change[h].want /\ mine.applied = 1
      /\ mine.told = change[h].told /\ mine.authors = change[h].authors
  BY <1>1 DEF Changes
<1>5. change'[h] = mine /\ change' \in [ConfigRequests -> Changes]
      /\ \A g \in ConfigRequests \ {h} : change'[g] = change[g]
  BY <1>1, <1>2, <1>3
<1>6. config' \in Configs
  BY <1>1 DEF Merges, Merged, Configs
<1>7. author' \in Authors
  BY <1>1 DEF Merges, Authors
<1>8. \A d \in Defaults : (config'[d] = config[d] /\ author'[d] = author[d]) \/ author'[d] = h
  BY DEF Merges, Merged, Fields
<1>9. \A d \in Defaults : change[h].want[d] = None \/ config'[d] = change[h].want[d]
  BY DEF Merges, Merged, Fields
<1>10. Landed(h, config, author)'
  BY <1>4, <1>5, <1>9 DEF Landed
<1> QED
  BY <1>4, <1>5, <1>6, <1>7, <1>8, <1>10

LEMMA ConfigServesKeeps ==
  ASSUME ConfigInv, NEW h \in ConfigRequests, ConfigServes(h)
  PROVE  ConfigInv'
<1>1. Service(h) /\ ConfigOk(h) /\ ConfigTypes /\ h \in Handlers
  BY ConfigServesOne, OperatorRoutesAssumption DEF ConfigInv, ConfigTypes
<1>2. /\ call[h].request # None /\ call[h].answer = None /\ step' = step /\ reply' = reply
      /\ late' \subseteq late
  BY <1>1 DEF ConfigServes, Servable, Service
<1>3. step[h] \in {"get", "patch", "report", "readback"} /\ reply[h] = "pending"
  BY <1>1, <1>2 DEF ConfigOk, ConfigStage, ConfigCall, NoCall
<1>4. ASSUME UNCHANGED <<config, author, change>>, ConfigCall(h)'
      PROVE  ConfigInv'
  <2>1. ConfigStage(h)' /\ ConfigLate(h)'
    BY <1>1, <1>2, <1>4 DEF ConfigOk, ConfigStage, ConfigLate
  <2>2. ConfigOnce(h)'
    BY <1>1, <1>2, <1>4 DEF ConfigOk, ConfigOnce
  <2>3. ConfigHeld(h)'
    BY <1>1, <1>2, <1>4 DEF ConfigOk, ConfigHeld, Landed
  <2>4. ConfigOk(h)'
    BY <1>4, <2>1, <2>2, <2>3 DEF ConfigOk
  <2> QED
    BY <1>1, <1>4, <2>4, ConfigOwn DEF ConfigTypes
<1>5. CASE /\ call[h].request.method = "config.get"
           /\ call' = Served(h, Ok([config |-> config, author |-> author]))
           /\ UNCHANGED <<up, link, late, operatorVars>>
  <2>1. step[h] # "patch" /\ UNCHANGED <<config, author, change>>
    BY <1>1, <1>5 DEF ConfigOk, ConfigCall, operatorVars
  <2>2. /\ call'[h].request = call[h].request
        /\ call'[h].answer = Ok([config |-> config, author |-> author])
    BY <1>1, <1>5 DEF Served, ConfigTypes, Tables
  <2>3. step[h] = "report" => Landed(h, config, author)
    BY <1>1 DEF ConfigOk, ConfigOnce, ConfigHeld, Landed, Unasked
  <2>4. step'[h] \in {"get", "report", "readback"} /\ call'[h].request = ConfigGet
    BY <1>1, <1>2, <1>3, <2>1, <2>2 DEF ConfigOk, ConfigCall
  <2>5. step'[h] = "report" => Landed(h, config, author)'
    BY <1>2, <2>1, <2>3 DEF Landed
  <2>6. config \in Configs /\ author \in Authors
    BY <1>1 DEF ConfigTypes
  <2>7. \E c \in Configs, a \in Authors :
          /\ call'[h].answer = Ok([config |-> c, author |-> a])
          /\ step'[h] = "report" => Landed(h, c, a)'
    BY <1>2, <2>1, <2>2, <2>3, <2>6 DEF Landed
  <2>8. ConfigCall(h)'
    BY <2>4, <2>7 DEF ConfigCall
  <2> QED
    BY <1>4, <2>1, <2>8
<1>6. ASSUME call[h].request.method = "config.patch"
      PROVE  /\ step[h] = "patch" /\ change[h].applied = 0
             /\ call[h].request.want = change[h].want
  <2>1. call[h].request # ConfigGet
    BY <1>6 DEF ConfigGet
  <2>2. step[h] = "patch"
    BY <1>1, <1>3, <2>1 DEF ConfigOk, ConfigCall
  <2> QED
    BY <1>1, <1>2, <2>2 DEF ConfigOk, ConfigCall, ConfigOnce
<1>7. CASE /\ call[h].request.method = "config.patch"
           /\ call' = Served(h, Failed("base hash"))
           /\ UNCHANGED <<up, link, late, operatorVars>>
  <2>1. UNCHANGED <<config, author, change>>
    BY <1>7 DEF operatorVars
  <2>2. call'[h].request = call[h].request /\ call'[h].answer = Failed("base hash")
    <3> DEFINE v == Failed("base hash")
    <3>1. call' = [call EXCEPT ![h].answer = v] /\ DOMAIN call = Handlers
      BY <1>1, <1>7 DEF Served, ConfigTypes, Tables
    <3> HIDE DEF v
    <3>2. call'[h].request = call[h].request /\ call'[h].answer = v
      BY <1>1, <3>1
    <3> QED
      BY <3>2 DEF v
  <2>3. ConfigCall(h)'
    BY <1>2, <1>6, <1>7, <2>1, <2>2 DEF ConfigCall
  <2> QED
    BY <1>4, <2>1, <2>3
<1>8. CASE /\ call[h].request.method = "config.patch"
           /\ call' = Served(h, Ok(None))
           /\ Merges(h, call[h].request.want)
  <2>1. /\ config' \in Configs /\ author' \in Authors /\ change' \in [ConfigRequests -> Changes]
        /\ \A g \in ConfigRequests \ {h} : change'[g] = change[g]
        /\ \A d \in Defaults : (config'[d] = config[d] /\ author'[d] = author[d]) \/ author'[d] = h
        /\ change'[h].want = change[h].want /\ change'[h].applied = 1
        /\ Landed(h, config, author)'
    BY <1>1, <1>6, <1>8, MergesLands
  <2>2. call'[h].request = call[h].request /\ call'[h].answer = Ok(None)
    BY <1>1, <1>8 DEF Served, ConfigTypes, Tables
  <2>3. ConfigStage(h)' /\ ConfigCall(h)'
    BY <1>2, <1>3, <1>6, <1>8, <2>1, <2>2 DEF ConfigStage, ConfigCall
  <2>4. ConfigOnce(h)'
    BY <1>2, <1>6, <1>8, <2>1, <2>2, GatewayCallsAssumption DEF ConfigOnce, Ok
  <2>5. ConfigLate(h)'
    BY <1>1, <1>2, <1>6, <1>8 DEF ConfigOk, ConfigLate
  <2>6. ConfigHeld(h)'
    BY <1>2, <1>3, <2>1 DEF ConfigHeld
  <2>7. ConfigOk(h)'
    BY <2>3, <2>4, <2>5, <2>6 DEF ConfigOk
  <2> QED
    BY <1>1, <2>1, <2>7, ConfigOwn
<1> QED
  BY <1>5, <1>7, <1>8 DEF ConfigServes

LEMMA ConfigServedLateKeeps ==
  ASSUME ConfigInv, NEW l \in late, l.by \in ConfigRequests, ConfigServedLate(l)
  PROVE  ConfigInv'
<1> DEFINE h == l.by
<1>1. ConfigOk(h) /\ ConfigTypes /\ h \in Handlers
  BY OperatorRoutesAssumption DEF ConfigInv
<1>2. /\ Tables' /\ UNCHANGED <<call, step, reply>> /\ late' \subseteq late /\ Service(h)
  BY <1>1, LateAnswersNobody DEF ConfigTypes, Service, Untouched
<1>3. /\ step[h] \in {"poll", "readback", "done"} /\ change[h].applied = 0
      /\ l.request.want = change[h].want
      /\ \A m \in late : m.by = h => m = l
  BY <1>1 DEF ConfigOk, ConfigLate
<1>4. CASE UNCHANGED operatorVars
  <2>1. UNCHANGED <<config, author, change>>
    BY <1>4 DEF operatorVars
  <2>2. ASSUME NEW g \in ConfigRequests PROVE ConfigOk(g)'
    BY <1>2, <2>1, ConfigKept DEF ConfigInv
  <2> QED
    BY <1>1, <1>2, <2>1, <2>2 DEF ConfigInv, ConfigTypes
<1>5. CASE Merges(h, l.request.want) /\ (late' = late \ {l} \/ late' = {})
  <2>1. /\ config' \in Configs /\ author' \in Authors /\ change' \in [ConfigRequests -> Changes]
        /\ \A g \in ConfigRequests \ {h} : change'[g] = change[g]
        /\ \A d \in Defaults : (config'[d] = config[d] /\ author'[d] = author[d]) \/ author'[d] = h
        /\ change'[h].want = change[h].want /\ change'[h].applied = 1
        /\ change'[h].told = change[h].told /\ change'[h].authors = change[h].authors
        /\ Landed(h, config, author)'
    BY <1>1, <1>3, <1>5, MergesLands
  <2>2. \A m \in late' : m.by # h
    BY <1>3, <1>5
  <2>3. ConfigStage(h)' /\ ConfigLate(h)'
    BY <1>1, <1>2, <1>3, <2>2 DEF ConfigOk, ConfigStage, ConfigLate
  <2>4. ConfigOnce(h)'
    BY <1>2, <1>3, <2>1 DEF ConfigOnce
  <2>5. ConfigCall(h)'
    BY <1>1, <1>2, <1>3 DEF ConfigOk, ConfigCall
  <2>6. \A c, a : Landed(h, c, a) => Landed(h, c, a)'
    BY <2>1 DEF Landed
  <2>7. ConfigHeld(h)'
    BY <1>1, <1>2, <1>3, <2>1, <2>6 DEF ConfigOk, ConfigHeld
  <2>8. ConfigOk(h)'
    BY <2>3, <2>4, <2>5, <2>7 DEF ConfigOk
  <2> QED
    BY <1>1, <1>2, <2>1, <2>8, ConfigOwn
<1> QED
  BY <1>4, <1>5 DEF ConfigServedLate, Restarting

LEMMA ConfigArrivesKeeps ==
  ASSUME ConfigInv, NEW h \in ConfigRequests, ConfigArrives(h)
  PROVE  ConfigInv'
<1>1. /\ h \in Handlers /\ UNCHANGED <<link, call, late, config, author>>
      /\ ConfigOk(h) /\ ConfigTypes
  BY OperatorRoutesAssumption DEF ConfigArrives, ConfigInv
<1>2. /\ Tables' /\ Untouched(Handlers \ {h})
      /\ reply[h] = "none" /\ reply'[h] = "pending" /\ step'[h] = "connect"
  BY <1>1, ArrivesAlone DEF ConfigArrives, ConfigTypes
<1>3. PICK want \in [Defaults -> Values \cup {None}] : change' = [change EXCEPT ![h].want = want]
  BY DEF ConfigArrives
<1>4. step[h] = "new" /\ change[h] = NoChange /\ call[h] = NoCall /\ \A l \in late : l.by # h
  BY <1>1, <1>2 DEF ConfigOk, ConfigStage, ConfigCall, ConfigLate
<1>5. change \in [ConfigRequests -> Changes] /\ change[h] \in Changes
  BY <1>1 DEF ConfigTypes
<1> DEFINE mine == [change[h] EXCEPT !.want = want]
<1>6. mine \in Changes /\ mine.applied = 0
  <2>1. mine \in Changes /\ mine.applied = change[h].applied
    BY <1>5 DEF Changes
  <2>2. change[h].applied = 0
    BY <1>4 DEF NoChange
  <2> QED
    BY <2>1, <2>2
<1>7. /\ change' \in [ConfigRequests -> Changes] /\ change'[h].applied = 0
      /\ \A g \in ConfigRequests \ {h} : change'[g] = change[g]
  BY <1>3, <1>5, <1>6
<1>8. OwnStep(h)
  BY <1>1, <1>2 DEF OwnStep, LateOnlyBy, LinksLast
<1>9. ConfigStage(h)' /\ ConfigCall(h)'
  BY <1>1, <1>2, <1>4 DEF ConfigStage, ConfigCall
<1>10. ConfigOnce(h)' /\ ConfigLate(h)' /\ ConfigHeld(h)'
  BY <1>1, <1>2, <1>4, <1>7 DEF ConfigOnce, ConfigLate, ConfigHeld
<1>11. ConfigOk(h)'
  BY <1>9, <1>10 DEF ConfigOk
<1> QED
  BY <1>1, <1>7, <1>8, <1>11, ConfigOwn DEF ConfigTypes

(* The steps of the other routes, and of everybody else.                      *)
LEMMA ConfigElsewhereSteps ==
  ASSUME ConfigInv,
         \/ \E h \in FileRequests : FileArrives(h) \/ FileGoesOn(h) \/ FileServes(h)
         \/ /\ UNCHANGED operatorVars
            /\ \E h \in ChatHandlers :
                 \/ \E m, i : ChatArrives(h, m, i)
                 \/ ChatGoesOn(h) \/ ChatServes(h) \/ HistoryServed(h)
         \/ \E l \in late : \/ l.by \in FileRequests /\ FileServedLate(l)
                            \/ l.by \in ChatHandlers /\ ChatServedLate(l) /\ UNCHANGED operatorVars
         \/ OthersSave \/ OthersConfigure
         \/ /\ UNCHANGED operatorVars
            /\ \/ Rolls \/ ComesBack
               \/ \E m \in Messages : Deletes(m)
               \/ \E l \in Handlers : LinkLost(l)
  PROVE  ConfigInv'
<1>0. /\ FileRequests \subseteq Handlers /\ ConfigRequests \subseteq Handlers /\ ChatHandlers \subseteq Handlers
      /\ FileRequests \cap ConfigRequests = {} /\ ConfigRequests \cap ChatHandlers = {}
      /\ Tables /\ config \in Configs /\ author \in Authors
  BY BridgeServerAssumption DEF ConfigInv, ConfigTypes
<1>1. ASSUME NEW h \in Handlers \ ConfigRequests, OwnStep(h) \/ Service(h),
             UNCHANGED <<config, author, change>>
      PROVE  ConfigInv'
  BY <1>0, <1>1, ConfigElsewhere DEF OwnStep, Service, Untouched, LateOnlyBy
<1>2. ASSUME NEW h \in FileRequests, FileArrives(h) \/ FileGoesOn(h) \/ FileServes(h)
      PROVE  ConfigInv'
  <2>1. UNCHANGED <<config, author, change>>
    BY <1>2 DEF FileArrives, FileGoesOn, FileConnects, FileRead, FileWrite, FileConfirm,
      FileServes, Written, operatorVars
  <2>2. OwnStep(h) \/ Service(h)
    BY <1>0, <1>2, FileGoesOnAlone, FileServesOne, ArrivesAlone
      DEF FileArrives, OwnStep, LateOnlyBy, LinksLast
  <2> QED
    BY <1>0, <1>1, <2>1, <2>2
<1>3. ASSUME UNCHANGED operatorVars, NEW h \in ChatHandlers,
             \/ \E m, i : ChatArrives(h, m, i)
             \/ ChatGoesOn(h) \/ ChatServes(h) \/ HistoryServed(h)
      PROVE  ConfigInv'
  <2>1. OwnStep(h) \/ Service(h)
    BY <1>0, <1>3, ChatGoesOnAlone, ChatServesOne, ArrivesAlone
      DEF ChatArrives, OwnStep, LateOnlyBy, LinksLast
  <2> QED
    BY <1>0, <1>1, <1>3, <2>1 DEF operatorVars
<1>4. ASSUME NEW l \in late,
             \/ l.by \in FileRequests /\ FileServedLate(l)
             \/ l.by \in ChatHandlers /\ ChatServedLate(l) /\ UNCHANGED operatorVars
      PROVE  ConfigInv'
  <2>1. UNCHANGED <<config, author, change>>
    BY <1>4 DEF FileServedLate, Written, operatorVars
  <2> QED
    BY <1>0, <1>4, <2>1, LateAnswersNobody, ConfigElsewhere DEF Untouched
<1>5. CASE OthersSave
  BY <1>0, <1>5, ConfigElsewhere DEF OthersSave, callVars, Tables, Untouched
<1>6. CASE OthersConfigure
  <2>1. UNCHANGED callVars /\ change' = change
    BY <1>6 DEF OthersConfigure
  <2>2. PICK f \in Fields, v \in Values :
          /\ config' = [config EXCEPT ![f] = v]
          /\ author' = [author EXCEPT ![f] = None]
    BY <1>6 DEF OthersConfigure
  <2>3. config' \in Configs /\ author' \in Authors
    BY <1>0, <2>2 DEF Configs, Authors
  <2>4. \A d \in Defaults : (config'[d] = config[d] /\ author'[d] = author[d]) \/ author'[d] = None
    BY <1>0, <2>2 DEF Configs, Authors, Fields
  <2> QED
    BY <1>0, <2>1, <2>3, <2>4, ConfigElsewhere DEF callVars, Tables, Untouched
<1>7. CASE /\ UNCHANGED operatorVars
           /\ \/ Rolls \/ ComesBack
              \/ \E m \in Messages : Deletes(m)
              \/ \E l \in Handlers : LinkLost(l)
  <2>1. UNCHANGED <<call, late, step, reply, config, author, change>> /\ Tables'
    BY <1>0, <1>7 DEF operatorVars, callVars, Rolls, ComesBack, Deletes, LinkLost, Tables
  <2> QED
    BY <1>0, <2>1, ConfigElsewhere DEF Untouched
<1> QED
  BY <1>2, <1>3, <1>4, <1>5, <1>6, <1>7

LEMMA ConfigStutters == ConfigInv /\ UNCHANGED vars => ConfigInv'
BY ConfigElsewhere DEF ConfigInv, ConfigTypes, vars, callVars, operatorVars, Tables, Untouched

LEMMA ConfigNext == ConfigInv /\ [Next]_vars => ConfigInv'
<1> SUFFICES ASSUME ConfigInv, Next PROVE ConfigInv'
  BY ConfigStutters
<1>1. CASE OperatorArrives /\ UNCHANGED chatVars
  BY <1>1, ConfigArrivesKeeps, ConfigElsewhereSteps DEF OperatorArrives
<1>2. CASE ChatArrivals /\ UNCHANGED operatorVars
  BY <1>2, ConfigElsewhereSteps
    DEF ChatArrivals, SendArrives, PatchArrives, OtherArrives, ChatHandlers
<1>3. ASSUME NEW h \in Handlers, GoesOn(h)
      PROVE  ConfigInv'
  BY <1>3, ConfigConnectsKeeps, ConfigGotKeeps, ConfigPatchedKeeps, ConfigReportedKeeps, PollsKeeps,
    ReadsBackKeeps, ConfigElsewhereSteps DEF GoesOn, ConfigGoesOn
<1>4. ASSUME NEW h \in Handlers, Serves(h)
      PROVE  ConfigInv'
  BY <1>4, ConfigServesKeeps, ConfigElsewhereSteps DEF Serves
<1>5. CASE ServedLate
  BY <1>5, ConfigServedLateKeeps, ConfigElsewhereSteps DEF ServedLate
<1>6. CASE (OthersSave \/ OthersConfigure) /\ UNCHANGED chatVars
  BY <1>6, ConfigElsewhereSteps
<1>7. CASE (Rolls \/ \E m \in Messages : Deletes(m)) /\ UNCHANGED operatorVars
  BY <1>7, ConfigElsewhereSteps
<1>8. CASE (ComesBack \/ \E l \in Handlers : LinkLost(l)) /\ UNCHANGED <<operatorVars, chatVars>>
  BY <1>8, ConfigElsewhereSteps
<1> QED
  BY <1>1, <1>2, <1>3, <1>4, <1>5, <1>6, <1>7, <1>8 DEF Next

(* The invariant of /config-defaults, for any requests, values and number of   *)
(* read-backs: a patch is out once and was refused before it is sent again,    *)
(* one given up has not been applied, and what was applied stands until        *)
(* another sets it.                                                           *)
THEOREM ConfigInvariant == Spec => []ConfigInv
BY ConfigInit, ConfigNext, PTL DEF Spec

(* A set is applied once at most, and its 200 reports what it asked for, or    *)
(* says that it was applied and overwritten by another.                       *)
THEOREM DefaultsSaved == Spec => []DefaultsSavedOnce
<1>1. ASSUME ConfigInv PROVE DefaultsSavedOnce
  <2> SUFFICES ASSUME NEW h \in ConfigRequests
               PROVE  /\ change[h].applied <= 1
                      /\ reply[h] = "200" => \A d \in Defaults :
                           \/ change[h].want[d] \in {None, change[h].told[d]}
                           \/ change[h].applied = 1 /\ change[h].authors[d] # h
    BY DEF DefaultsSavedOnce
  <2>1. ConfigOk(h)
    BY <1>1 DEF ConfigInv
  <2>2. change[h].applied <= 1
    BY <2>1 DEF ConfigOk, ConfigOnce
  <2>3. ASSUME reply[h] = "200", NEW d \in Defaults
        PROVE  \/ change[h].want[d] \in {None, change[h].told[d]}
               \/ change[h].applied = 1 /\ change[h].authors[d] # h
    <3>1. CASE DefaultsApplied(change[h].want, change[h].told)
      BY <3>1 DEF DefaultsApplied
    <3>2. CASE change[h].want = Unasked
      BY <3>2 DEF Unasked
    <3>3. CASE Landed(h, change[h].told, change[h].authors) /\ change[h].applied = 1
      BY <3>3 DEF Landed
    <3> QED
      BY <2>1, <2>3, <3>1, <3>2, <3>3 DEF ConfigOk, ConfigHeld
  <2> QED
    BY <2>2, <2>3
<1> QED
  BY <1>1, ConfigInvariant, PTL
=============================================================================
