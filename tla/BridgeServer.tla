----------------------------- MODULE BridgeServer -----------------------------
(***************************************************************************)
(* createBridgeServer (server.ts): the operator routes and the chat routes of *)
(* one process, over one gateway.  A defaults change that restarts the gateway *)
(* takes the connections of the chats with it.                                *)
(***************************************************************************)
EXTENDS OperatorRoutes, ChatRoutes

ASSUME BridgeServerAssumption ==
  /\ Handlers = FileRequests \cup ConfigRequests \cup ChatHandlers
  /\ FileRequests \cap ConfigRequests = {}
  /\ (FileRequests \cup ConfigRequests) \cap ChatHandlers = {}

vars == <<callVars, operatorVars, chatVars>>

TypeOK == CallsTypeOK /\ OperatorTypeOK /\ ChatTypeOK

Init == CallsInit /\ OperatorInit /\ ChatInit

GoesOn(h) ==
  \/ h \in FileRequests /\ FileGoesOn(h) /\ UNCHANGED chatVars
  \/ h \in ConfigRequests /\ ConfigGoesOn(h) /\ UNCHANGED chatVars
  \/ h \in ChatHandlers /\ ChatGoesOn(h) /\ UNCHANGED operatorVars

Serves(h) ==
  \/ h \in FileRequests /\ FileServes(h) /\ UNCHANGED chatVars
  \/ h \in ConfigRequests /\ ConfigServes(h) /\ UNCHANGED chatVars
  \/ h \in ChatHandlers /\ (ChatServes(h) \/ HistoryServed(h)) /\ UNCHANGED operatorVars

ServedLate ==
  \E l \in late :
    \/ l.by \in FileRequests /\ FileServedLate(l) /\ UNCHANGED chatVars
    \/ l.by \in ConfigRequests /\ ConfigServedLate(l) /\ UNCHANGED chatVars
    \/ l.by \in ChatHandlers /\ ChatServedLate(l) /\ UNCHANGED operatorVars

Next ==
  \/ OperatorArrives /\ UNCHANGED chatVars
  \/ ChatArrivals /\ UNCHANGED operatorVars
  \/ \E h \in Handlers : GoesOn(h) \/ Serves(h)
  \/ ServedLate
  \/ (OthersSave \/ OthersConfigure) /\ UNCHANGED chatVars
  \/ (Rolls \/ \E m \in Messages : Deletes(m)) /\ UNCHANGED operatorVars
  \/ (ComesBack \/ \E l \in Handlers : LinkLost(l)) /\ UNCHANGED <<operatorVars, chatVars>>

(* An await has a timer, or ends with its connection, and the event loop runs *)
(* on: some handler that can go on does.                                      *)
Fairness == WF_vars(\E h \in Handlers : GoesOn(h))

Spec == Init /\ [][Next]_vars /\ Fairness

-----------------------------------------------------------------------------
(* Properties *)

(* Every request is answered, whatever the gateway and Convex do: the retry of  *)
(* a patch, the read-backs after a restart and the requests of a send come to   *)
(* an end.                                                                    *)
EveryRequestAnswered == []<>(\A h \in Handlers : reply[h] # "pending")
=============================================================================
