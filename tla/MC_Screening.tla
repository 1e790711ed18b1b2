---------------------------- MODULE MC_Screening ----------------------------
(* The automatic screening tasks (AutoSchedule) and the screens they run      *)
(* (ScreenRules): two instances with no variable in common, checked in one   *)
(* run.                                                                      *)
EXTENDS AutoSchedule, ScreenRules, TLC

VARIABLE part   \* the instance this behaviour is about

Perms == Permutations(Replicas) \cup Permutations(Tasks)

Shape(ch, boards, turn, amt, net, cap, earn, sector, marked) ==
    [change |-> ch, limit |-> boards, turnover |-> turn, ratio |-> boards, amount |-> amt, flow |-> net,
     mv |-> cap, pe |-> earn, industry |-> sector, st |-> marked, suspended |-> FALSE, oneWord |-> FALSE, seal |-> 700]

MCQuotes == {
    Shape(60, 0, 45, 4000, 100, 120, 14, "bank", FALSE),
    Shape(100, 1, 30, 60000, 2000, 120, 12, "bank", FALSE),
    Shape(100, 2, 30, 60000, 2000, 120, 8, "bank", FALSE),
    Shape(100, 1, 60, 9000, -900, 60, 9, "oil", TRUE),
    Shape(100, 0, 60, 12000, 0, 0, 0, "unknown", FALSE) }

MCInit ==
    /\ part \in {"tasks", "screens"}
    /\ Init /\ ScreenInit
    /\ part = "tasks" => market = [s \in Stocks |-> CHOOSE q \in MCQuotes : TRUE]

MCNext ==
    \/ part = "tasks" /\ Next /\ UNCHANGED <<screenVars, part>>
    \/ part = "screens" /\ ScreenNext /\ UNCHANGED <<vars, part>>

MCSpec == MCInit /\ [][MCNext]_<<vars, screenVars, part>>

=============================================================================
