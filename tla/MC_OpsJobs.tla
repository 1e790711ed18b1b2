----------------------------- MODULE MC_OpsJobs -----------------------------
(* Instances of OpsJobs for TLC.                                           *)
EXTENDS OpsJobs, TLC

Perms == Permutations(Callers) \cup Permutations(Slots) \cup Permutations(Threads)

=============================================================================
