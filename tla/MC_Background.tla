--------------------------- MODULE MC_Background ----------------------------
(* What runs in the background: the scheduler of every API replica           *)
(* (EmbeddedScheduler) and the tables its jobs copy (MarketTables,            *)
(* Financials, Feed): four instances with no variable in common, checked in   *)
(* one run.                                                                   *)
EXTENDS EmbeddedScheduler, MarketTables, Financials, Feed, TLC

VARIABLE part   \* the instance this behaviour is about

Perms == Permutations(Replicas)

\* Author a makes two posts and is subscribed twice, author b one and once.
MCPosts == [up \in {"a", "b"} |-> IF up = "a" THEN 2 ELSE 1]

MCInit ==
    /\ part \in {"scheduler", "tables", "financials", "feed"}
    /\ Init /\ TablesInit /\ FinInit /\ FeedInit
    /\ part /= "tables" => table = "industry"

MCNext ==
    \/ part = "scheduler" /\ Next /\ UNCHANGED <<tableVars, finVars, feedVars, part>>
    \/ part = "tables" /\ TablesNext /\ UNCHANGED <<vars, finVars, feedVars, part>>
    \/ part = "financials" /\ FinNext /\ UNCHANGED <<vars, tableVars, feedVars, part>>
    \/ part = "feed" /\ FeedNext /\ UNCHANGED <<vars, tableVars, finVars, part>>

MCSpec == MCInit /\ [][MCNext]_<<vars, tableVars, finVars, feedVars, part>>

=============================================================================
