--------------------------- MODULE MC_AutoSchedule ---------------------------
(* Instances of AutoSchedule for TLC.                                      *)
EXTENDS AutoSchedule, TLC

Perms == Permutations(Replicas) \cup Permutations(Tasks)

=============================================================================
