------------------------------ MODULE Listings ------------------------------
(* What the rules of several modules are made of: a finite set listed in an  *)
(* order, which is a set of pairs, the earlier member first; and the sum of a *)
(* field over some bars of a series.                                         *)
EXTENDS Integers, FiniteSets

\* The members of S that R puts before s.
Earlier(S, R, s) == {u \in S : <<u, s>> \in R}

\* In the k-th place is the member that k - 1 others come before.
Listing(S, R) == [k \in 1..Cardinality(S) |-> CHOOSE s \in S : Cardinality(Earlier(S, R, s)) = k - 1]

SumOver(k, field, from, to) ==
    LET sum[j \in (from - 1)..to] == IF j < from THEN 0 ELSE sum[j-1] + k[j][field]
    IN  sum[to]
=============================================================================
