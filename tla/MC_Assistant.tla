---------------------------- MODULE MC_Assistant ----------------------------
(* What a user asks for and waits for: the proposals of the assistant         *)
(* (Proposals), the chat they are made in (Chat), the team analysis           *)
(* (TeamAnalysis), the backtests (Backtests), what is told of a job           *)
(* (JobAnswers) and the remote tools the assistant calls (ToolCalls): six     *)
(* instances with no variable in common, checked in one run.                  *)
EXTENDS Proposals, Chat, TeamAnalysis, Backtests, JobAnswers, ToolCalls, TLC

VARIABLE part   \* the instance this behaviour is about

\* Sixty bars are enough for windows of 5 and 20, not of 5 and 30; scores in tenths.
MCStocks == <<"bank", "mine">>
MCHeld == [s \in {"bank", "mine"} |-> IF s = "bank" THEN 60 ELSE 40]
MCGrid == [fast |-> {5}, slow |-> {5, 20, 30}]
MCScores == {-50, 120}

\* A screening is tried twice, a backtest once.
MCTries == <<2, 1>>

MCInit ==
    /\ part \in {"proposals", "chat", "team", "backtest", "answers", "tools"}
    /\ Init /\ ChatInit /\ TeamInit /\ BtInit /\ AnswersInit /\ ToolsInit

MCNext ==
    /\ UNCHANGED part
    /\ \/ part = "proposals" /\ Next /\ UNCHANGED <<chatVars, teamVars, btVars, answerVars, toolVars>>
       \/ part = "chat" /\ ChatNext /\ UNCHANGED <<vars, teamVars, btVars, answerVars, toolVars>>
       \/ part = "team" /\ TeamNext /\ UNCHANGED <<vars, chatVars, btVars, answerVars, toolVars>>
       \/ part = "backtest" /\ BtNext /\ UNCHANGED <<vars, chatVars, teamVars, answerVars, toolVars>>
       \/ part = "answers" /\ AnswersNext /\ UNCHANGED <<vars, chatVars, teamVars, btVars, toolVars>>
       \/ part = "tools" /\ ToolsNext /\ UNCHANGED <<vars, chatVars, teamVars, btVars, answerVars>>

MCFairness ==
    /\ \A q \in ChatRequests : WF_chatVars(part = "chat" /\ Serve(q))
    /\ \A x \in Analysts : WF_teamVars(part = "team" /\ AnalystStep(x))
    /\ WF_teamVars(part = "team" /\ GeneratorStep)
    /\ WF_btVars(part = "backtest" /\ BtStep)
    /\ WF_toolVars(part = "tools" /\ ToolStep)

MCSpec ==
    MCInit /\ [][MCNext]_<<vars, chatVars, teamVars, btVars, answerVars, toolVars, part>> /\ MCFairness

\* What a user waits for ends: a question to the assistant, a team's analysis, a
\* backtest whose worker may die, a call of a remote tool (run_turn_stream,
\* TeamOrchestrator.run, tasks_backtest.py, McpToolClient.call_tool).
WhatIsAskedEnds == EveryAskEnds /\ TeamEnds /\ AcceptedIsAnswered /\ EveryCallEnds

=============================================================================
