------------------------------- MODULE MCTurn -------------------------------
(* One behaviour explores one of the three alphabets of MCTurnLoop: its       *)
(* steps are those of TurnLoop, with fewer frames and acks.                  *)
EXTENDS MCTurnLoop

VARIABLE scenario

Scenarios ==
  {[frames |-> ReplyFrames, acks |-> {own}],
   [frames |-> ToolFrames, acks |-> {own}],
   [frames |-> RunFrames, acks |-> MCRunIds \cup {NoRun}]}

AllFrames == UNION {s.frames : s \in Scenarios}

MCInit == Init /\ scenario \in Scenarios

MCNext ==
  /\ \/ \E a \in scenario.acks : StartTurn(a)
     \/ \E f \in scenario.frames : Receive(f)
     \/ Timeout
     \/ Close
     \/ \E asker \in fetching, said \in Recovered : RecoveryAnswer(asker, said)
     \/ \E ok \in BOOLEAN : RecoveryWritten(ok)
     \/ Elapses
  /\ UNCHANGED scenario

MCSpec == MCInit /\ [][MCNext]_<<vars, scenario>>
=============================================================================
