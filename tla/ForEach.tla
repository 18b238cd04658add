------------------------------- MODULE ForEach -------------------------------
(* What a parallel loop promises its caller: f is called once on each item,  *)
(* in any order, and the loop returns when all the calls have returned.      *)
EXTENDS Naturals

CONSTANT Items

VARIABLES
  calls,    \* calls[i]: how often f has been called on item i
  returned  \* whether the loop has returned

vars == <<calls, returned>>

Init ==
  /\ calls = [i \in Items |-> 0]
  /\ returned = FALSE

Call(i) ==
  /\ ~returned
  /\ calls[i] = 0
  /\ calls' = [calls EXCEPT ![i] = 1]
  /\ UNCHANGED returned

Return ==
  /\ ~returned
  /\ \A i \in Items : calls[i] = 1
  /\ returned' = TRUE
  /\ UNCHANGED calls

Next == Return \/ \E i \in Items : Call(i)

Spec == Init /\ [][Next]_vars

=============================================================================
