---------------------------- MODULE MCTaskStore ----------------------------
(* Small instances of TaskStore for TLC.                                      *)
EXTENDS TaskStore, TLC

CONSTANTS a1, a2, t1, t2

TwoAgents == {a1, a2}
TwoIds    == {t1, t2}

Symmetric == Permutations(TwoAgents) \cup Permutations(TwoIds)

=============================================================================
