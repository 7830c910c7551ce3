------------------------------ MODULE DeltaLog ------------------------------
(***************************************************************************)
(* What ConvexWriter promises the callers of one message                   *)
(* (convex-writer.ts, "so ordering is preserved relative to the rest of    *)
(* the stream"): the message shows what it was given, in that order and    *)
(* without gaps, except that a call may fail, and that text whose answer   *)
(* was lost shows again.  Text is never dropped.                           *)
(***************************************************************************)
EXTENDS Naturals, Sequences

CONSTANTS
  Messages,    \* the assistant messages
  Item,        \* what a message can be given
  IsText(_)    \* whether an item is a text delta

VARIABLES
  pending,     \* per message, what it was given and does not show yet
  shown        \* per message, what Convex has applied

vars == <<pending, shown>>

Init ==
  /\ pending = [m \in Messages |-> <<>>]
  /\ shown = [m \in Messages |-> <<>>]

Give(m, item) ==
  /\ pending' = [pending EXCEPT ![m] = Append(@, item)]
  /\ UNCHANGED shown

(* The next n items show.                                                    *)
Show(m, n) ==
  /\ shown' = [shown EXCEPT ![m] = @ \o SubSeq(pending[m], 1, n)]
  /\ pending' = [pending EXCEPT ![m] = SubSeq(@, n + 1, Len(@))]

(* What is left when the call given last fails, if there is one. *)
WithoutCall(items) ==
  IF items # <<>> /\ ~IsText(items[Len(items)])
    THEN SubSeq(items, 1, Len(items) - 1) ELSE items

Fail(m) ==
  /\ pending' = [pending EXCEPT ![m] = WithoutCall(@)]
  /\ UNCHANGED shown

(* The next n items, all text, show and stay pending: they will show again.  *)
(* A call given after them may fail with their answer.                       *)
Repeat(m, n) ==
  /\ \A i \in 1 .. n : IsText(pending[m][i])
  /\ shown' = [shown EXCEPT ![m] = @ \o SubSeq(pending[m], 1, n)]
  /\ \/ UNCHANGED pending
     \/ pending' = [pending EXCEPT ![m] = WithoutCall(@)]

Next ==
  \E m \in Messages :
    \/ \E item \in Item : Give(m, item)
    \/ \E n \in 1 .. Len(pending[m]) : Show(m, n) \/ Repeat(m, n)
    \/ Fail(m)

Spec == Init /\ [][Next]_vars
=============================================================================
