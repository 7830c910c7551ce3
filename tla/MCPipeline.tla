----------------------------- MODULE MCPipeline -----------------------------
(* One behaviour explores one scenario: two turns that answer and report,     *)
(* two that hold an ack and recover their reply, two that stream while a      *)
(* write may be refused or its answer lost, two whose acks and frames need    *)
(* not name their run, or three quick ones of which the first holds an ack.   *)
(* Its steps are those of TurnPipeline, with fewer turns, frames and answers. *)
EXTENDS MCTurnPipeline

VARIABLE scenario

Scenario(turns, frames, outcomes, unnamed) ==
  [turns |-> turns, frames |-> frames, outcomes |-> outcomes, unnamed |-> unnamed]

Scenarios ==
  {Scenario(1 .. 2, [k \in Turns |-> TurnFrames(k)], {"answered"}, {}),
   Scenario(1 .. 2, [k \in Turns |-> RecoveryFrames(k)], {"answered"}, {}),
   Scenario(1 .. 2, [k \in Turns |-> FailingFrames(k)], Outcomes, {}),
   Scenario(1 .. 2, [k \in Turns |-> UnnamedFrames(k)], {"answered"}, {NoRun}),
   Scenario(1 .. 3, [k \in Turns |-> IF k = 1 THEN HoldingFrames(k) ELSE {}],
            {"answered"}, {})}

MCInit == Init /\ scenario \in Scenarios

MCNext ==
  /\ \/ \E k \in scenario.turns : Sends(k) \/ SendFails(k) \/ Started(k)
     \/ \E k \in scenario.turns : \E named \in {k} \cup scenario.unnamed : Begins(k, named)
     \/ \E k \in Turns, outcome \in scenario.outcomes : StartFails(k, outcome)
     \/ \E k \in Turns : \E f \in scenario.frames[k] : Feeds(k, f) \/ FeedsInactive(k, f)
     \/ Ticks
     \/ Closes
     \/ \E outcome \in scenario.outcomes : LoopWritten(outcome)
     \/ \E t \in Tasks \ {Loop}, outcome \in scenario.outcomes : TaskWritten(t, outcome)
     \/ \E k \in Turns : \E said \in {<<>>, Recovered(k)} : Recovers(k, said)
     \/ Elapses
  /\ UNCHANGED scenario

MCSpec == MCInit /\ [][MCNext]_<<vars, scenario>>
=============================================================================
