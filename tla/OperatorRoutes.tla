---------------------------- MODULE OperatorRoutes ----------------------------
(***************************************************************************)
(* POST /agent-files and POST /config-defaults: the operations of conf.ts,    *)
(* each on a short-lived operator connection (withOperatorConnection), and    *)
(* the read-back that confirms a defaults change when the gateway restarts    *)
(* under it (confirmDefaultsAfterRestart).  The workspace file and the        *)
(* configuration have other editors, whom the gateway serves too.             *)
(***************************************************************************)
EXTENDS GatewayCalls

CONSTANTS
  FileRequests,    \* the requests to /agent-files, all for one file
  ConfigRequests,  \* the requests to /config-defaults
  Values,          \* the values of a default; `off` among them
  off,             \* fastModeDefault: false
  MaxPolls,        \* 8: the attempts of the read-back
  MaxVersion       \* bound: the versions of the file

ASSUME OperatorRoutesAssumption ==
  /\ FileRequests \cup ConfigRequests \subseteq Handlers
  /\ off \in Values /\ None \notin Values
  /\ MaxPolls \in Nat /\ MaxVersion \in Nat \ {0}

VARIABLES
  file,      \* the version of the file (its updatedAtMs); 0 when it is missing
  config,    \* agents.defaults, and the rest of the configuration
  author,    \* who set each field (no state of the code)
  edit,      \* the locals of each file operation, and the version it wrote
  change     \* the locals of each defaults operation, and how often it was applied

operatorVars == <<file, config, author, edit, change>>

Defaults == {"thinking", "fast"}
Fields == Defaults \cup {"rest"}

Edits == [op : {"list", "get", "set"}, base : Nat \cup {None},
          before : Nat \cup {None}, wrote : Nat \cup {None}, after : Nat \cup {None}]

Changes == [want : [Defaults -> Values \cup {None}], retried : BOOLEAN, polls : Nat,
            applied : Nat, told : [Fields -> Values] \cup {None},
            authors : [Fields -> ConfigRequests \cup {None}]]

OperatorTypeOK ==
  /\ file \in 0 .. MaxVersion
  /\ config \in [Fields -> Values]
  /\ author \in [Fields -> ConfigRequests \cup {None}]
  /\ edit \in [FileRequests -> Edits]
  /\ change \in [ConfigRequests -> Changes]
  /\ \A h \in FileRequests \cup ConfigRequests :
       reply[h] # "pending" => link[h] \in {"none", "closed"}
  /\ \A h \in FileRequests :
       step[h] \in {"new", "connect", "read", "write", "confirm", "done"}
  /\ \A h \in ConfigRequests :
       step[h] \in {"new", "connect", "get", "patch", "report", "poll", "readback", "done"}

Unasked == [d \in Defaults |-> None]

NoEdit == [op |-> "get", base |-> None, before |-> None, wrote |-> None, after |-> None]

NoChange == [want |-> Unasked, retried |-> FALSE, polls |-> 0, applied |-> 0, told |-> None,
             authors |-> [f \in Fields |-> None]]

OperatorInit ==
  /\ file \in {0, 1}
  /\ config = [f \in Fields |-> off]
  /\ author = [f \in Fields |-> None]
  /\ edit = [h \in FileRequests |-> NoEdit]
  /\ change = [h \in ConfigRequests |-> NoChange]

-----------------------------------------------------------------------------
(* withOperatorConnection *)

(* Mutant: no `finally`. *)
FinishesOpen(h, status) == Replies(h, status) /\ UNCHANGED link

(* The operation of h is over: its connection is closed, whatever came of it. *)
Finishes(h, status) ==
  /\ Replies(h, status)
  /\ link' = [link EXCEPT ![h] = "closed"]

Continues(h) == UNCHANGED link

AsksNext(h, s, r) == Asks(h, s, h, r) /\ Continues(h)

(* connect ends well: the first request of the operation goes out.            *)
Opens(h, s, r) ==
  /\ Asks(h, s, h, r)
  /\ link' = [link EXCEPT ![h] = "open"]

-----------------------------------------------------------------------------
(* performAgentFilesOp *)

FileGet == [method |-> "agents.files.get"]
FileSet == [method |-> "agents.files.set"]

(* The stamps the editor was given: by a list, a get, or the answer to a save. *)
Stamps ==
  {edit[g].before : g \in {g \in FileRequests : reply[g] = "200" /\ edit[g].op # "set"}} \cup
  {edit[g].after : g \in {g \in FileRequests : reply[g] = "200" /\ edit[g].op = "set"}}

(* A missing file has no stamp, so its first save pins nothing.               *)
FileArrives(h) ==
  /\ Arrives(h, "connect")
  /\ \E op \in {"list", "get", "set"}, base \in (Stamps \ {0}) \cup {None} :
       /\ op # "set" => base = None
       /\ edit' = [edit EXCEPT ![h].op = op, ![h].base = base]
  /\ UNCHANGED <<up, link, call, late, file, config, author, change>>

FileConnects(h) ==
  /\ step[h] = "connect"
  /\ \E o \in ConnectOutcomes :
       IF o.error = None THEN Opens(h, "read", FileGet) ELSE Finishes(h, "502")
  /\ UNCHANGED <<up, late, operatorVars>>

(* Mutant: a save does not look at the stamp it reads. *)
NeverMoved(h, version) == FALSE

(* The pinned stamp is not the live one.                                      *)
Moved(h, version) ==
  edit[h].base # None /\ edit[h].base # (IF version = 0 THEN None ELSE version)

(* The first read: the whole of a list or a get, the compare of a set.        *)
FileRead(h) ==
  /\ step[h] = "read"
  /\ \E o \in Outcomes(h) :
       /\ late' = LeftBehind(h, o)
       /\ \/ o.error # None /\ Finishes(h, "502") /\ UNCHANGED edit
          \/ /\ o.error = None
             /\ edit' = [edit EXCEPT ![h].before = o.value]
             /\ \/ edit[h].op # "set" /\ Finishes(h, "200")
                \/ edit[h].op = "set" /\ Moved(h, o.value) /\ Finishes(h, "409")
                \/ edit[h].op = "set" /\ ~Moved(h, o.value) /\ AsksNext(h, "write", FileSet)
  /\ UNCHANGED <<up, file, config, author, change>>

FileWrite(h) ==
  /\ step[h] = "write"
  /\ \E o \in Outcomes(h) :
       /\ late' = LeftBehind(h, o)
       /\ IF o.error = None THEN AsksNext(h, "confirm", FileGet) ELSE Finishes(h, "502")
  /\ UNCHANGED <<up, operatorVars>>

(* The meta of a save is what the file is after it.                           *)
FileConfirm(h) ==
  /\ step[h] = "confirm"
  /\ \E o \in Outcomes(h) :
       /\ late' = LeftBehind(h, o)
       /\ \/ o.error # None /\ Finishes(h, "502") /\ UNCHANGED edit
          \/ /\ o.error = None /\ Finishes(h, "200")
             /\ edit' = [edit EXCEPT ![h].after = o.value]
  /\ UNCHANGED <<up, file, config, author, change>>

(* The gateway writes the file for h.                                         *)
Written(h) ==
  /\ file < MaxVersion
  /\ file' = file + 1
  /\ edit' = [edit EXCEPT ![h].wrote = file + 1]
  /\ UNCHANGED <<config, author, change>>

FileServes(h) ==
  /\ Servable(h)
  /\ \/ /\ call[h].request = FileGet
        /\ call' = Served(h, Ok(file))
        /\ UNCHANGED operatorVars
     \/ /\ call[h].request = FileSet
        /\ call' = Served(h, Ok(None))
        /\ Written(h)
  /\ UNCHANGED <<up, link, late, step, reply>>

FileServedLate(l) ==
  /\ up
  /\ late' = late \ {l}
  /\ Written(l.by)
  /\ UNCHANGED <<up, link, call, step, reply>>

(* Somebody else saves the file: an agent, a terminal, another client.        *)
OthersSave ==
  /\ file < MaxVersion
  /\ file' = file + 1
  /\ UNCHANGED <<callVars, config, author, edit, change>>

-----------------------------------------------------------------------------
(* performConfigDefaultsOp *)

ConfigGet == [method |-> "config.get"]

(* The hash of a configuration stands for the configuration; a gateway that    *)
(* gives none is sent none.                                                   *)
ConfigPatch(want, baseHash) ==
  [method |-> "config.patch", want |-> want, baseHash |-> baseHash]

IsSet(h) == change[h].want # Unasked

(* A get asks for no change, a set for one at least.                          *)
ConfigArrives(h) ==
  /\ Arrives(h, "connect")
  /\ \E want \in [Defaults -> Values \cup {None}] : change' = [change EXCEPT ![h].want = want]
  /\ UNCHANGED <<up, link, call, late, file, config, author, edit>>

(* The route's catch: a set that lost its connection is confirmed.            *)
Fails(h, error) ==
  \/ /\ error = "GATEWAY_DISCONNECTED" /\ IsSet(h)
     /\ call' = [call EXCEPT ![h] = NoCall]
     /\ step' = [step EXCEPT ![h] = "poll"]
     /\ link' = [link EXCEPT ![h] = "closed"]
     /\ change' = [change EXCEPT ![h].polls = 0]
     /\ UNCHANGED reply
  \/ /\ ~(error = "GATEWAY_DISCONNECTED" /\ IsSet(h))
     /\ Finishes(h, "502")
     /\ UNCHANGED change

ConfigConnects(h) ==
  /\ step[h] = "connect"
  /\ \E o \in ConnectOutcomes :
       \/ o.error # None /\ Fails(h, o.error)
       \/ /\ o.error = None /\ UNCHANGED change
          /\ Opens(h, IF IsSet(h) THEN "get" ELSE "report", ConfigGet)
  /\ UNCHANGED <<up, late, file, config, author, edit>>

ConfigGot(h) ==
  /\ step[h] = "get"
  /\ \E o \in Outcomes(h) :
       /\ late' = LeftBehind(h, o)
       /\ \/ o.error # None /\ Fails(h, o.error)
          \/ /\ o.error = None /\ UNCHANGED change
             /\ \E baseHash \in {o.value.config, None} :
                  AsksNext(h, "patch", ConfigPatch(change[h].want, baseHash))
  /\ UNCHANGED <<up, file, config, author, edit>>

(* One retry, on a fresh hash, of a patch refused for its base hash.          *)
Retries(h, error) == error = "base hash" /\ ~change[h].retried

ConfigPatched(h) ==
  /\ step[h] = "patch"
  /\ \E o \in Outcomes(h) :
       /\ late' = LeftBehind(h, o)
       /\ \/ o.error = None /\ AsksNext(h, "report", ConfigGet) /\ UNCHANGED change
          \/ /\ o.error # None /\ Retries(h, o.error)
             /\ AsksNext(h, "get", ConfigGet)
             /\ change' = [change EXCEPT ![h].retried = TRUE]
          \/ o.error # None /\ ~Retries(h, o.error) /\ Fails(h, o.error)
  /\ UNCHANGED <<up, file, config, author, edit>>

Told(h, v) == [change EXCEPT ![h].told = v.config, ![h].authors = v.author]

(* Get and set alike end on a fresh read.                                     *)
ConfigReported(h) ==
  /\ step[h] = "report"
  /\ \E o \in Outcomes(h) :
       /\ late' = LeftBehind(h, o)
       /\ \/ o.error # None /\ Fails(h, o.error)
          \/ o.error = None /\ Finishes(h, "200") /\ change' = Told(h, o.value)
  /\ UNCHANGED <<up, file, config, author, edit>>

-----------------------------------------------------------------------------
(* confirmDefaultsAfterRestart *)

(* Mutant: a false is taken for a field nobody asked for. *)
AppliedIfTruthy(want, defaults) ==
  \A d \in Defaults : want[d] \notin {None, off} => defaults[d] = want[d]

DefaultsApplied(want, defaults) ==
  \A d \in Defaults : want[d] # None => defaults[d] = want[d]

(* Mutant: the attempts are not counted. *)
PollsForever(h) ==
  /\ call' = [call EXCEPT ![h] = NoCall]
  /\ step' = [step EXCEPT ![h] = "poll"]
  /\ link' = [link EXCEPT ![h] = "closed"]
  /\ UNCHANGED <<reply, change>>

(* The attempt failed: the next one, or the failure that was to be confirmed. *)
PollsOn(h) ==
  \/ /\ change[h].polls + 1 < MaxPolls
     /\ change' = [change EXCEPT ![h].polls = @ + 1]
     /\ call' = [call EXCEPT ![h] = NoCall]
     /\ step' = [step EXCEPT ![h] = "poll"]
     /\ link' = [link EXCEPT ![h] = "closed"]
     /\ UNCHANGED reply
  \/ change[h].polls + 1 >= MaxPolls /\ Finishes(h, "502") /\ UNCHANGED change

(* Two seconds later: connect.                                                *)
Polls(h) ==
  /\ step[h] = "poll"
  /\ \E o \in ConnectOutcomes :
       \/ o.error # None /\ PollsOn(h)
       \/ o.error = None /\ Opens(h, "readback", ConfigGet) /\ UNCHANGED change
  /\ UNCHANGED <<up, late, file, config, author, edit>>

(* The first read that succeeds decides.                                      *)
ReadsBack(h) ==
  /\ step[h] = "readback"
  /\ \E o \in Outcomes(h) :
       /\ late' = LeftBehind(h, o)
       /\ \/ o.error # None /\ PollsOn(h)
          \/ /\ o.error = None /\ DefaultsApplied(change[h].want, o.value.config)
             /\ Finishes(h, "200")
             /\ change' = Told(h, o.value)
          \/ /\ o.error = None /\ ~DefaultsApplied(change[h].want, o.value.config)
             /\ Finishes(h, "502")
             /\ UNCHANGED change
  /\ UNCHANGED <<up, file, config, author, edit>>

-----------------------------------------------------------------------------
(* The gateway: config.patch *)

Merged(want) ==
  [f \in Fields |-> IF f \in Defaults /\ want[f] # None THEN want[f] ELSE config[f]]

Merges(h, want) ==
  /\ config' = Merged(want)
  /\ author' = [f \in Fields |-> IF f \in Defaults /\ want[f] # None THEN h ELSE author[f]]
  /\ change' = [change EXCEPT ![h].applied = @ + 1]
  /\ UNCHANGED <<file, edit>>

(* A patch of another hash is refused, one without a hash perhaps; one that    *)
(* changes something may restart the gateway, before its answer goes out.     *)
ConfigServes(h) ==
  /\ Servable(h)
  /\ LET r == call[h].request IN
     \/ /\ r.method = "config.get"
        /\ call' = Served(h, Ok([config |-> config, author |-> author]))
        /\ UNCHANGED <<up, link, late, operatorVars>>
     \/ /\ r.method = "config.patch" /\ r.baseHash # config
        /\ call' = Served(h, Failed("base hash"))
        /\ UNCHANGED <<up, link, late, operatorVars>>
     \/ /\ r.method = "config.patch" /\ r.baseHash \in {config, None}
        /\ call' = Served(h, Ok(None))
        /\ Merges(h, r.want)
        /\ \/ UNCHANGED <<up, link, late>>
           \/ Merged(r.want) # config /\ Restarting
  /\ UNCHANGED <<step, reply>>

ConfigServedLate(l) ==
  /\ up
  /\ LET want == l.request.want IN
     \/ /\ l.request.baseHash # config
        /\ late' = late \ {l}
        /\ UNCHANGED <<up, link, operatorVars>>
     \/ /\ l.request.baseHash \in {config, None}
        /\ Merges(l.by, want)
        /\ \/ late' = late \ {l} /\ UNCHANGED <<up, link>>
           \/ Merged(want) # config /\ Restarting
  /\ UNCHANGED <<call, step, reply>>

(* Somebody else changes a field of the configuration.                        *)
OthersConfigure ==
  /\ \E f \in Fields, v \in Values :
       /\ v # config[f]
       /\ config' = [config EXCEPT ![f] = v]
       /\ author' = [author EXCEPT ![f] = None]
  /\ UNCHANGED <<callVars, file, edit, change>>

-----------------------------------------------------------------------------
FileGoesOn(h) == FileConnects(h) \/ FileRead(h) \/ FileWrite(h) \/ FileConfirm(h)

ConfigGoesOn(h) ==
  ConfigConnects(h) \/ ConfigGot(h) \/ ConfigPatched(h) \/ ConfigReported(h)
  \/ Polls(h) \/ ReadsBack(h)

OperatorArrives ==
  \/ \E h \in FileRequests : FileArrives(h)
  \/ \E h \in ConfigRequests : ConfigArrives(h)

-----------------------------------------------------------------------------
(* Properties *)

(* /agent-files pins a save to the stamp its author was given.  So a pinned   *)
(* save overwrites a version that a get or a list has shown or named, or that  *)
(* was saved, but for two windows: a version made between the save's own read  *)
(* and its write, and one made between an earlier save and the re-read whose   *)
(* stamp was given for it.                                                    *)
NoUnseenOverwrite ==
  \A h \in FileRequests :
    edit[h].wrote # None /\ edit[h].base # None =>
      LET lost == edit[h].wrote - 1
      IN \/ lost > edit[h].before
         \/ \E g \in FileRequests :
              \/ edit[g].op # "set" /\ reply[g] = "200" /\ edit[g].before = lost
              \/ edit[g].wrote = lost
              \/ reply[g] = "200" /\ edit[g].after = lost

(* /config-defaults, through base-hash retries, timeouts, lost answers and     *)
(* restarts: a set is applied once at most, and one answered 200 reports the   *)
(* values it asked for, or was applied and has been overwritten by another.    *)
DefaultsSavedOnce ==
  \A h \in ConfigRequests :
    /\ change[h].applied <= 1
    /\ reply[h] = "200" => \A d \in Defaults :
         \/ change[h].want[d] \in {None, change[h].told[d]}
         \/ change[h].applied = 1 /\ change[h].authors[d] # h
=============================================================================
