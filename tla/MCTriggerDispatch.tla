------------------------- MODULE MCTriggerDispatch -------------------------
(* Small instances of TriggerDispatch for TLC. *)
EXTENDS TriggerDispatch, TLC

Tight == [day |-> 1, month |-> 2]
Wide  == [day |-> 2, month |-> 3]

BothCaps == {Tight, Wide}

DispatchSymmetry == Permutations(Requests) \cup Permutations(Jobs)
=============================================================================
