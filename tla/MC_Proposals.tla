---------------------------- MODULE MC_Proposals ----------------------------
(* Instances of Proposals for TLC.                                         *)
EXTENDS Proposals, TLC

Perms == Permutations(Ids) \cup Permutations(Users) \cup Permutations(Requests)

=============================================================================
