------------------------------ MODULE MCDelta ------------------------------
(* Two messages of two sessions on one chain: a longer stream and a short one. *)
EXTENDS DeltaWriter

CONSTANTS m1, m2

MCMaxItems == [m \in Messages |-> IF m = m1 THEN 4 ELSE 2]
=============================================================================
