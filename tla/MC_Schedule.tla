---------------------------- MODULE MC_Schedule -----------------------------
(* What must go on for ever: the scheduler of the API process                 *)
(* (EmbeddedScheduler), the bars its jobs fill (BarStore) and the quotes     *)
(* between the collector and the sockets (QuotePipeline): three instances    *)
(* with no variable in common, checked in one run.                           *)
EXTENDS EmbeddedScheduler, BarStore, QuotePipeline, TLC

CONSTANTS a, b, c

VARIABLE part   \* the instance this behaviour is about

MCStockOrder == <<a, b, c>>
MCListedOn == [s \in {a, b, c} |-> IF s = b THEN 3 ELSE 1]

MCInit == part \in {"scheduler", "bars", "quotes"} /\ Init /\ BarInit /\ QuoteInit

MCNext ==
    \/ part = "scheduler" /\ Next /\ UNCHANGED <<barVars, quoteVars, part>>
    \/ part = "bars" /\ BarNext /\ UNCHANGED <<vars, quoteVars, part>>
    \/ part = "quotes" /\ QuoteNext /\ UNCHANGED <<vars, barVars, part>>

MCFairness ==
    /\ \A r \in Replicas, j \in Jobs : WF_vars(part = "scheduler" /\ Step(r, j))
    /\ \A j \in Jobs : WF_vars(part = "scheduler" /\ LockExpires(j))
    /\ WF_barVars(part = "bars" /\ NextDay) /\ WF_barVars(part = "bars" /\ PublishBars)
    /\ WF_barVars(part = "bars" /\ SyncUniverse)
    /\ \A j \in ServedJobs : SF_barVars(part = "bars" /\ StartFill(j))
    /\ WF_barVars(part = "bars" /\ FillDaily)
    /\ WF_barVars(part = "bars" /\ FinishFill("d"))
    /\ WF_quoteVars(part = "quotes" /\ CollectorStep)
    /\ WF_quoteVars(part = "quotes" /\ HubStep)
    /\ WF_quoteVars(part = "quotes" /\ RedisReturns)

MCSpec == MCInit /\ [][MCNext]_<<vars, barVars, quoteVars, part>> /\ MCFairness

=============================================================================
