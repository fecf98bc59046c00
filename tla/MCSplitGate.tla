---------------------------- MODULE MCSplitGate ----------------------------
(* A small instance of SplitGate for TLC: a large task and its sub-task.      *)
EXTENDS SplitGate, TLC

CONSTANTS a1, a2, parent, child

TwoAgents == {a1, a2}
TwoIds    == {parent, child}
Family    == parent :> NoParent @@ child :> parent
SmallIds  == {child}

Symmetric == Permutations(TwoAgents)

=============================================================================
