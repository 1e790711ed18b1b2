-------------------------- MODULE Assistant_proofs --------------------------
(* Theorems of what the assistant and the strategy pages start and are told *)
(* of: remote tools, the team of analysts, backtests and the answers about  *)
(* jobs.                                                                    *)
EXTENDS Chat, TeamAnalysis, Backtests, JobAnswers, ToolCalls, Counting, SequenceTheorems

-----------------------------------------------------------------------------
(* ToolCalls: a remote tool is run no more often and no later than its      *)
(* caller is told, for any number of threads, attempts and calls. At every  *)
(* place of the coroutine the runs are counted by the attempts behind it.   *)

Kinds == {"tool", "offer", "probe"}
ToldOfCalls == {"", "result", "error", "tools", "no tools", "connected", "unreachable", "not configured"}

ToolTypes ==
    /\ calls \in [Callers -> [pc : {"idle", "queued", "loop", "ready", "result", "done"}, kind : Kinds, told : ToldOfCalls, made : Nat]]
    /\ remote \in [Callers -> [pc : {"none", "try", "ran", "returned", "raised"}, tries : Nat]]
    /\ toolRuns \in [Callers -> Nat] /\ netCuts \in [Callers -> Nat]

\* A coroutine is there while its thread waits for the result, and not otherwise.
OnlyAwaited(c) == remote[c].pc /= "none" => CallAt(c, "result")

\* Before the coroutine, nothing; behind an attempt, at most a run and, unless
\* the call ends, an error of the network.
RunsCounted(c) ==
    /\ calls[c].pc \in {"queued", "loop", "ready"} => toolRuns[c] = 0 /\ netCuts[c] = 0
    /\ remote[c].pc = "try" => toolRuns[c] <= remote[c].tries /\ remote[c].tries = netCuts[c] /\ remote[c].tries < CallTries
    /\ remote[c].pc = "ran" =>
         toolRuns[c] \in 1..(remote[c].tries + 1) /\ remote[c].tries = netCuts[c] /\ remote[c].tries < CallTries
    /\ remote[c].pc = "returned" => toolRuns[c] > 0
    /\ toolRuns[c] <= 1 + netCuts[c] /\ toolRuns[c] <= CallTries

\* A result is told of a tool that was run, and told at the end only.
ResultWasRun(c) == calls[c].told = "result" => CallAt(c, "done") /\ toolRuns[c] > 0

ToolInv == ToolTypes /\ \A c \in Callers : OnlyAwaited(c) /\ RunsCounted(c) /\ ResultWasRun(c)

-----------------------------------------------------------------------------
LEMMA ToldTypes ==
    ASSUME NEW kind \in Kinds, NEW end \in {"returned", "raised", "refused"}
    PROVE  /\ ToldOf(kind, end) \in ToldOfCalls
           /\ ToldOf(kind, end) = "result" => end = "returned"
<1>1. CASE kind = "tool"
  BY <1>1 DEF ToldOfCalls, ToldOf, ToolAnswer
<1>2. CASE kind = "offer"
  BY <1>2 DEF ToldOfCalls, ToldOf, OfferAnswer
<1>3. CASE kind = "probe"
  BY <1>3 DEF ToldOfCalls, ToldOf, ProbeAnswer
<1> QED BY <1>1, <1>2, <1>3 DEF Kinds

LEMMA ToolsStart == ToolsInit => ToolInv
<1> SUFFICES ASSUME ToolsInit PROVE ToolInv
  OBVIOUS
<1>1. ToolTypes
  BY DEF ToolsInit, ToolTypes, Kinds, ToldOfCalls
<1>2. ASSUME NEW c \in Callers PROVE OnlyAwaited(c) /\ RunsCounted(c) /\ ResultWasRun(c)
  <2>1. /\ calls[c].pc = "idle" /\ calls[c].told = "" /\ remote[c].pc = "none"
        /\ toolRuns[c] = 0 /\ netCuts[c] = 0
    BY DEF ToolsInit
  <2>2. OnlyAwaited(c) /\ ResultWasRun(c)
    BY <2>1 DEF OnlyAwaited, ResultWasRun
  <2>3. toolRuns[c] <= 1 + netCuts[c] /\ toolRuns[c] <= CallTries
    <3>1. 0 <= 1 + 0 /\ 0 <= CallTries
      BY ToolAssumption
    <3> QED BY ONLY <2>1, <3>1, Zenon
  <2>4. RunsCounted(c)
    BY ONLY <2>1, <2>3, Zenon DEF RunsCounted
  <2> QED BY <2>2, <2>4
<1> QED BY <1>1, <1>2 DEF ToolInv

\* A step of one caller leaves the others as they are.
LEMMA OthersKeep ==
    ASSUME ToolInv, ToolTypes', NEW c \in Callers,
           \A d \in Callers \ {c} : /\ calls'[d] = calls[d] /\ remote'[d] = remote[d]
                                    /\ toolRuns'[d] = toolRuns[d] /\ netCuts'[d] = netCuts[d],
           OnlyAwaited(c)', RunsCounted(c)', ResultWasRun(c)'
    PROVE  ToolInv'
<1> SUFFICES ASSUME NEW d \in Callers \ {c} PROVE (OnlyAwaited(d) /\ RunsCounted(d) /\ ResultWasRun(d))'
  BY DEF ToolInv
<1>1. OnlyAwaited(d) /\ RunsCounted(d) /\ ResultWasRun(d)
  BY DEF ToolInv
<1>2. calls'[d] = calls[d] /\ remote'[d] = remote[d] /\ toolRuns'[d] = toolRuns[d] /\ netCuts'[d] = netCuts[d]
  OBVIOUS
<1> QED BY <1>1, <1>2 DEF OnlyAwaited, RunsCounted, ResultWasRun, CallAt

\* What a state of the threads looks like at one caller.
LEMMA AtCaller ==
    ASSUME ToolInv, NEW c \in Callers
    PROVE  /\ calls[c] \in [pc : {"idle", "queued", "loop", "ready", "result", "done"}, kind : Kinds, told : ToldOfCalls, made : Nat]
           /\ remote[c] \in [pc : {"none", "try", "ran", "returned", "raised"}, tries : Nat]
           /\ toolRuns[c] \in Nat /\ netCuts[c] \in Nat
           /\ OnlyAwaited(c) /\ RunsCounted(c) /\ ResultWasRun(c)
BY DEF ToolInv, ToolTypes

\* The thread goes on to another place before its coroutine exists.
LEMMA WaitStep == ASSUME ToolInv, NEW c \in Callers, TakeLock(c) \/ EnsureLoop(c) PROVE ToolInv'
<1>1. PICK pc \in {"loop", "ready"} : calls' = [calls EXCEPT ![c].pc = pc]
  BY DEF TakeLock, EnsureLoop, To
<1>2. calls[c].pc \in {"queued", "loop"} /\ UNCHANGED <<remote, toolRuns, netCuts>>
  BY DEF TakeLock, EnsureLoop, CallAt
<1>3. calls'[c].pc = pc /\ calls'[c].told = calls[c].told /\ \A d \in Callers \ {c} : calls'[d] = calls[d]
  BY <1>1, AtCaller DEF ToolInv, ToolTypes
<1>4. ToolTypes'
  BY <1>1, <1>2 DEF ToolInv, ToolTypes
<1>5. OnlyAwaited(c)' /\ RunsCounted(c)' /\ ResultWasRun(c)'
  BY <1>1, <1>2, <1>3, AtCaller DEF OnlyAwaited, RunsCounted, ResultWasRun, CallAt
<1> QED BY <1>2, <1>3, <1>4, <1>5, OthersKeep

LEMMA AskStep == ASSUME ToolInv, NEW c \in Callers, AskRemote(c) PROVE ToolInv'
<1>1. PICK kind \in Kinds, pc \in {"queued", "done"} :
        calls' = [calls EXCEPT ![c] = [pc |-> pc, kind |-> kind, made |-> calls[c].made + 1,
                                       told |-> IF pc = "done" THEN ToldOf(kind, "refused") ELSE ""]]
  BY DEF AskRemote, Kinds
<1>2. /\ calls[c].pc \in {"idle", "done"} /\ remote' = remote
      /\ toolRuns' = [toolRuns EXCEPT ![c] = 0] /\ netCuts' = [netCuts EXCEPT ![c] = 0]
  BY DEF AskRemote
<1> DEFINE told == IF pc = "done" THEN ToldOf(kind, "refused") ELSE ""
<1>3. told \in ToldOfCalls /\ told /= "result"
  BY ToldTypes DEF ToldOfCalls
<1>4. /\ calls'[c] = [pc |-> pc, kind |-> kind, made |-> calls[c].made + 1, told |-> told]
      /\ calls[c].made \in Nat
      /\ \A d \in Callers \ {c} : calls'[d] = calls[d]
  BY <1>1, AtCaller DEF ToolInv, ToolTypes
<1> HIDE DEF told
<1>5. ToolTypes'
  <2>1. calls'[c] \in [pc : {"idle", "queued", "loop", "ready", "result", "done"}, kind : Kinds, told : ToldOfCalls, made : Nat]
    BY <1>3, <1>4
  <2>2. calls' = [calls EXCEPT ![c] = calls'[c]]
    BY <1>1, <1>4 DEF told, ToolInv, ToolTypes
  <2> QED BY <1>2, <2>1, <2>2 DEF ToolInv, ToolTypes
<1>6. toolRuns'[c] = 0 /\ netCuts'[c] = 0 /\ \A d \in Callers \ {c} : toolRuns'[d] = toolRuns[d] /\ netCuts'[d] = netCuts[d]
  BY <1>2 DEF ToolInv, ToolTypes
<1>7. remote[c].pc = "none"
  BY <1>2, AtCaller DEF OnlyAwaited, CallAt
<1>8. OnlyAwaited(c)' /\ RunsCounted(c)' /\ ResultWasRun(c)'
  BY <1>2, <1>3, <1>4, <1>6, <1>7, ToolAssumption DEF OnlyAwaited, RunsCounted, ResultWasRun, CallAt
<1> QED BY <1>2, <1>4, <1>5, <1>6, <1>8, OthersKeep

LEMMA SubmitStep == ASSUME ToolInv, NEW c \in Callers, Submit(c) PROVE ToolInv'
<1>1. /\ calls[c].pc = "ready" /\ calls' = [calls EXCEPT ![c].pc = "result"]
      /\ remote' = [remote EXCEPT ![c] = [pc |-> "try", tries |-> 0]] /\ UNCHANGED <<toolRuns, netCuts>>
  BY DEF Submit, CallAt, To
<1>2. /\ calls'[c].pc = "result" /\ calls'[c].told = calls[c].told /\ remote'[c] = [pc |-> "try", tries |-> 0]
      /\ \A d \in Callers \ {c} : calls'[d] = calls[d] /\ remote'[d] = remote[d]
  BY <1>1, AtCaller DEF ToolInv, ToolTypes
<1>3. ToolTypes'
  BY <1>1 DEF ToolInv, ToolTypes
<1>4. OnlyAwaited(c)' /\ RunsCounted(c)' /\ ResultWasRun(c)'
  BY <1>1, <1>2, AtCaller, ToolAssumption DEF OnlyAwaited, RunsCounted, ResultWasRun, CallAt
<1> QED BY <1>1, <1>2, <1>3, <1>4, OthersKeep

\* The thread has its answer: of a loop that is late, or of its coroutine.
LEMMA AnswerStep == ASSUME ToolInv, NEW c \in Callers, LoopIsLate(c) \/ TakeResult(c) PROVE ToolInv'
<1>1. PICK end \in {"returned", "raised"} :
        /\ calls' = [calls EXCEPT ![c].pc = "done", ![c].told = ToldOf(calls[c].kind, end)]
        /\ end = "returned" => remote[c].pc = "returned"
        /\ remote[c].pc /= "none" => remote' = [remote EXCEPT ![c].pc = "none"]
        /\ remote[c].pc = "none" => remote' = remote
  <2>1. CASE LoopIsLate(c)
    BY <2>1, AtCaller DEF LoopIsLate, Tell, CallAt, OnlyAwaited
  <2>2. CASE TakeResult(c)
    BY <2>2 DEF TakeResult, Tell
  <2> QED BY <2>1, <2>2
<1>2. UNCHANGED <<toolRuns, netCuts>>
  BY DEF LoopIsLate, TakeResult
<1>3. ToldOf(calls[c].kind, end) \in ToldOfCalls /\ (ToldOf(calls[c].kind, end) = "result" => end = "returned")
  BY AtCaller, ToldTypes
<1>4. /\ calls'[c].pc = "done" /\ calls'[c].told = ToldOf(calls[c].kind, end)
      /\ \A d \in Callers \ {c} : calls'[d] = calls[d]
  BY <1>1, AtCaller DEF ToolInv, ToolTypes
<1>5. remote'[c].pc = "none" /\ \A d \in Callers \ {c} : remote'[d] = remote[d]
  BY <1>1, AtCaller DEF ToolInv, ToolTypes
<1>6. ToolTypes'
  <2>1. calls' \in [Callers -> [pc : {"idle", "queued", "loop", "ready", "result", "done"}, kind : Kinds, told : ToldOfCalls, made : Nat]]
    <3>1. calls[c] \in [pc : {"idle", "queued", "loop", "ready", "result", "done"}, kind : Kinds, told : ToldOfCalls, made : Nat]
      BY AtCaller
    <3>2. [calls[c] EXCEPT !.pc = "done", !.told = ToldOf(calls[c].kind, end)]
            \in [pc : {"idle", "queued", "loop", "ready", "result", "done"}, kind : Kinds, told : ToldOfCalls, made : Nat]
      BY <1>3, <3>1
    <3>3. calls' = [calls EXCEPT ![c] = [calls[c] EXCEPT !.pc = "done", !.told = ToldOf(calls[c].kind, end)]]
      BY <1>1, <3>1
    <3> QED BY <3>2, <3>3 DEF ToolInv, ToolTypes
  <2>2. remote' \in [Callers -> [pc : {"none", "try", "ran", "returned", "raised"}, tries : Nat]]
    <3>1. CASE remote[c].pc = "none"
      BY <1>1, <3>1 DEF ToolInv, ToolTypes
    <3>2. CASE remote[c].pc /= "none"
      BY <1>1, <3>2, AtCaller DEF ToolInv, ToolTypes
    <3> QED BY <3>1, <3>2
  <2> QED BY <1>2, <2>1, <2>2 DEF ToolInv, ToolTypes
<1>7. OnlyAwaited(c)' /\ RunsCounted(c)' /\ ResultWasRun(c)'
  BY <1>1, <1>2, <1>3, <1>4, <1>5, AtCaller DEF OnlyAwaited, RunsCounted, ResultWasRun, CallAt
<1> QED BY <1>2, <1>4, <1>5, <1>6, <1>7, OthersKeep

LEMMA ServerStep == ASSUME ToolInv, NEW c \in Callers, ServerRuns(c) \/ ResultArrives(c) PROVE ToolInv'
<1>1. UNCHANGED <<calls, netCuts>>
  BY DEF ServerRuns, ResultArrives
<1>2. CASE ServerRuns(c)
  <2>1. remote[c].pc = "try" /\ toolRuns' = [toolRuns EXCEPT ![c] = toolRuns[c] + 1] /\ remote' = [remote EXCEPT ![c].pc = "ran"]
    BY <1>2 DEF ServerRuns
  <2>2. /\ toolRuns'[c] = toolRuns[c] + 1 /\ remote'[c].pc = "ran" /\ remote'[c].tries = remote[c].tries
        /\ \A d \in Callers \ {c} : toolRuns'[d] = toolRuns[d] /\ remote'[d] = remote[d]
    BY <2>1, AtCaller DEF ToolInv, ToolTypes
  <2>3. ToolTypes'
    BY <1>1, <2>1 DEF ToolInv, ToolTypes
  <2>4. OnlyAwaited(c)' /\ RunsCounted(c)' /\ ResultWasRun(c)'
    BY <1>1, <2>1, <2>2, AtCaller, ToolAssumption DEF OnlyAwaited, RunsCounted, ResultWasRun, CallAt
  <2> QED BY <1>1, <2>2, <2>3, <2>4, OthersKeep
<1>3. CASE ResultArrives(c)
  <2>1. remote[c].pc = "ran" /\ toolRuns' = toolRuns /\ remote' = [remote EXCEPT ![c].pc = "returned"]
    BY <1>3 DEF ResultArrives
  <2>2. remote'[c].pc = "returned" /\ \A d \in Callers \ {c} : remote'[d] = remote[d]
    BY <2>1, AtCaller DEF ToolInv, ToolTypes
  <2>3. ToolTypes'
    BY <1>1, <2>1 DEF ToolInv, ToolTypes
  <2>4. OnlyAwaited(c)' /\ RunsCounted(c)' /\ ResultWasRun(c)'
    BY <1>1, <2>1, <2>2, AtCaller DEF OnlyAwaited, RunsCounted, ResultWasRun, CallAt
  <2> QED BY <1>1, <2>1, <2>2, <2>3, <2>4, OthersKeep
<1> QED BY <1>2, <1>3

LEMMA FailStep == ASSUME ToolInv, NEW c \in Callers, NEW network \in BOOLEAN, AttemptFails(c, network) PROVE ToolInv'
<1> DEFINE tries == remote[c].tries + 1
           pc == IF TriesAgain(network, tries) THEN "try" ELSE "raised"
           cuts == IF network THEN netCuts[c] + 1 ELSE netCuts[c]
<1>1. /\ remote[c].pc \in {"try", "ran"} /\ UNCHANGED <<calls, toolRuns>>
      /\ netCuts' = [netCuts EXCEPT ![c] = cuts]
      /\ remote' = [remote EXCEPT ![c] = [pc |-> pc, tries |-> tries]]
  BY DEF AttemptFails
<1>2. tries \in Nat /\ cuts \in Nat /\ cuts >= netCuts[c] /\ (network => cuts = netCuts[c] + 1)
  BY AtCaller
<1>3. pc \in {"try", "raised"} /\ (pc = "try" => network /\ tries < CallTries)
  BY DEF TriesAgain
<1> HIDE DEF pc, cuts
<1>4. /\ remote'[c] = [pc |-> pc, tries |-> tries] /\ netCuts'[c] = cuts
      /\ \A d \in Callers \ {c} : remote'[d] = remote[d] /\ netCuts'[d] = netCuts[d]
  BY <1>1 DEF ToolInv, ToolTypes
<1>5. ToolTypes'
  BY <1>1, <1>2, <1>3 DEF ToolInv, ToolTypes
<1>6. OnlyAwaited(c)' /\ RunsCounted(c)' /\ ResultWasRun(c)'
  BY <1>1, <1>2, <1>3, <1>4, AtCaller, ToolAssumption DEF OnlyAwaited, RunsCounted, ResultWasRun, CallAt
<1> QED BY <1>1, <1>4, <1>5, <1>6, OthersKeep

LEMMA ToolsKeep == ToolInv /\ [ToolsNext]_toolVars => ToolInv'
<1> SUFFICES ASSUME ToolInv, [ToolsNext]_toolVars PROVE ToolInv'
  OBVIOUS
<1>1. CASE LoopStarts \/ UNCHANGED toolVars
  BY <1>1 DEF LoopStarts, toolVars, ToolInv, ToolTypes, OnlyAwaited, RunsCounted, ResultWasRun, CallAt
<1>2. ASSUME NEW c \in Callers, CallerStep(c) \/ RemoteStep(c) PROVE ToolInv'
  BY <1>2, WaitStep, SubmitStep, AnswerStep, ServerStep, FailStep DEF CallerStep, RemoteStep
<1>3. ASSUME NEW c \in Callers, AskRemote(c) PROVE ToolInv'
  BY <1>3, AskStep
<1> QED BY <1>1, <1>2, <1>3 DEF ToolsNext, ToolStep

\* Only the server's run counts a run, and it is one somebody waits for.
LEMMA RunsAreAwaited ==
    ASSUME ToolInv, [ToolsNext]_toolVars, NEW c \in Callers, calls[c].pc = "done"
    PROVE  toolRuns'[c] <= toolRuns[c]
<1>1. toolRuns[c] \in Nat /\ remote[c].pc = "none"
  BY AtCaller DEF OnlyAwaited, CallAt
<1>2. CASE UNCHANGED toolRuns
  BY <1>1, <1>2
<1>3. ASSUME NEW d \in Callers, ServerRuns(d) PROVE toolRuns'[c] <= toolRuns[c]
  BY <1>1, <1>3 DEF ServerRuns, ToolInv, ToolTypes
<1>4. ASSUME NEW d \in Callers, AskRemote(d) PROVE toolRuns'[c] <= toolRuns[c]
  <2>1. toolRuns' = [toolRuns EXCEPT ![d] = 0]
    BY <1>4 DEF AskRemote
  <2>2. toolRuns'[c] = toolRuns[c] \/ toolRuns'[c] = 0
    BY <2>1 DEF ToolInv, ToolTypes
  <2> QED BY <1>1, <2>2
<1> QED BY <1>2, <1>3, <1>4 DEF ToolsNext, ToolStep, toolVars, LoopStarts, CallerStep, RemoteStep, TakeLock, EnsureLoop, Submit,
          LoopIsLate, TakeResult, ResultArrives, AttemptFails

-----------------------------------------------------------------------------
\* However many threads call and attempts fail, a tool is run again only for an
\* error of the network, at most CallTries times, never behind the answer its
\* caller has, and a result is told only of a tool that was run
\* (call_allowed_tool, _run_async, _with_retry).
THEOREM ToolRunsAreTold == ToolsSpec => RunsAreTold
<1>1. ToolsInit => ToolInv
  BY ToolsStart
<1>2. ToolInv /\ [ToolsNext]_toolVars => ToolInv'
  BY ToolsKeep
<1>3. ToolInv => RunAgainForTheNetwork
  BY DEF ToolInv, RunsCounted, RunAgainForTheNetwork
<1>4. ToolInv /\ [ToolsNext]_toolVars =>
        \A c \in Callers : /\ calls[c].pc = "done" => toolRuns'[c] <= toolRuns[c]
                           /\ calls'[c].told = "result" => toolRuns'[c] > 0
  <2> SUFFICES ASSUME ToolInv, [ToolsNext]_toolVars, NEW c \in Callers
               PROVE  /\ calls[c].pc = "done" => toolRuns'[c] <= toolRuns[c]
                      /\ calls'[c].told = "result" => toolRuns'[c] > 0
    OBVIOUS
  <2>1. ToolInv'
    BY ToolsKeep
  <2> QED BY <2>1, RunsAreAwaited DEF ToolInv, ResultWasRun
<1>5. ToolsSpec => NothingRunsBehind
  BY <1>1, <1>2, <1>4, PTL DEF ToolsSpec, NothingRunsBehind
<1>6. ToolsSpec => []RunAgainForTheNetwork
  BY <1>1, <1>2, <1>3, PTL DEF ToolsSpec
<1> QED BY <1>5, <1>6, PTL DEF RunsAreTold

-----------------------------------------------------------------------------
(* TeamAnalysis: the report is made of the texts that were shown as         *)
(* finished. A "done" in the queue has the text of a thread that is over    *)
(* (DoneIsFinal), and what the chief holds is what is shown of its report   *)
(* (ReportSoFar).                                                           *)

Text == [pieces : Nat, fallback : BOOLEAN]
TeamStages == {"idle", "analysts", "leaving", "chief", "report", "persist", "finalize"} \cup Over

TeamTypeOK ==
    /\ team \in [pc : TeamStages, mode : {"fast", "deep"}, linked : BOOLEAN]
    /\ workers \in [Analysts -> {"off", "streaming", "closing", "over"}]
    /\ texts \in [Analysts -> Text] /\ analystTexts \in [Analysts -> Text]
    /\ events \in Seq([agent : Analysts, kind : {"delta", "done"}, text : Text])
    /\ remaining \subseteq Analysts
    /\ shown \in [Agents -> Text \cup {NoText}] /\ chunks \in Text

\* A "done" in the queue, and one that was shown, have the text that their
\* analyst's thread, which is over, will not change any more.
DoneIsFinal ==
    /\ \A n \in 1..Len(events) :
           events[n].kind = "done" => /\ workers[events[n].agent] = "over"
                                      /\ events[n].text = texts[events[n].agent]
    /\ \A a \in Analysts \ remaining : workers[a] = "over" /\ shown[a] = texts[a]

\* The chief is given the texts of threads that are over.
ChiefHasTheTexts ==
    team.mode = "deep" /\ team.pc \in {"chief", "report", "persist", "finalize", "finished"}
        => \A a \in Analysts : a \notin remaining /\ analystTexts[a] = texts[a]

\* Before its report is shown nothing is kept; then it is what the chief holds.
ReportSoFar ==
    /\ team.pc \in {"idle", "analysts", "leaving", "chief"} =>
           shown["chief"] = NoText /\ saved = NoText /\ message = NoText /\ ~chunks.fallback
    /\ team.pc \in {"report", "persist", "finalize"} => shown["chief"] = chunks

\* No thread runs before the request has begun.
Unstarted ==
    team.pc = "idle" => events = <<>> /\ remaining = Analysts /\ \A a \in Analysts : workers[a] = "off"

TeamInv == TeamTypeOK /\ Unstarted /\ DoneIsFinal /\ ChiefHasTheTexts /\ ReportSoFar /\ OneReport

\* An event of the queue.
LEMMA EventTyped ==
    ASSUME TeamTypeOK, NEW n \in 1..Len(events)
    PROVE  events[n] \in [agent : Analysts, kind : {"delta", "done"}, text : Text]
<1>1. events \in Seq([agent : Analysts, kind : {"delta", "done"}, text : Text])
  BY DEF TeamTypeOK
<1>2. \A S : events \in Seq(S) => events[n] \in S
  OBVIOUS
<1> QED BY <1>1, <1>2

LEMMA TeamStarts == TeamInit => TeamInv
<1> SUFFICES ASSUME TeamInit PROVE TeamInv
  OBVIOUS
<1>1. Blank \in Text /\ ~Blank.fallback
  BY DEF Blank, Text
<1>2. TeamTypeOK
  BY <1>1 DEF TeamInit, TeamTypeOK, TeamStages
<1>3. Unstarted /\ DoneIsFinal /\ ChiefHasTheTexts
  BY DEF TeamInit, Unstarted, DoneIsFinal, ChiefHasTheTexts
<1>4. ReportSoFar /\ OneReport
  BY <1>1 DEF TeamInit, ReportSoFar, OneReport, Agents
<1> QED BY <1>2, <1>3, <1>4 DEF TeamInv

\* What an event of the queue leaves as it is.
LEMMA QueueGrows ==
    ASSUME TeamInv, NEW a \in Analysts, NEW kind \in {"delta", "done"}, NEW text \in Text, Put(a, kind, text)
    PROVE  /\ events' \in Seq([agent : Analysts, kind : {"delta", "done"}, text : Text])
           /\ \A n \in 1..Len(events') : \/ n \in 1..Len(events) /\ events'[n] = events[n]
                                         \/ events'[n] = [agent |-> a, kind |-> kind, text |-> text]
<1>1. events \in Seq([agent : Analysts, kind : {"delta", "done"}, text : Text])
  BY DEF TeamInv, TeamTypeOK
<1>2. [agent |-> a, kind |-> kind, text |-> text] \in [agent : Analysts, kind : {"delta", "done"}, text : Text]
  OBVIOUS
<1> QED BY <1>1, <1>2 DEF Put

\* A thread at work is none of those whose "done" is in the queue or was shown.
LEMMA AnalystKeeps == ASSUME TeamInv, NEW a \in Analysts, AnalystStep(a) PROVE TeamInv'
<1>0. TeamTypeOK /\ Unstarted /\ DoneIsFinal /\ ChiefHasTheTexts /\ ReportSoFar /\ OneReport
  BY DEF TeamInv
<1>1. /\ UNCHANGED <<team, remaining, shown, chunks, analystTexts, endVars>>
      /\ workers[a] \in {"streaming", "closing"}
  BY DEF AnalystStep, AnalystPiece, AnalystEnds, AnalystFails, AnalystDone
<1>2. /\ texts' \in [Analysts -> Text]
      /\ \A b \in Analysts : b # a => texts'[b] = texts[b]
      /\ workers[a] = "closing" => texts'[a] = texts[a]
  <2>1. CASE AnalystPiece(a)
    <3>1. texts' = [texts EXCEPT ![a] = [texts[a] EXCEPT !.pieces = texts[a].pieces + 1]] /\ workers[a] = "streaming"
      BY <2>1 DEF AnalystPiece
    <3>2. [texts[a] EXCEPT !.pieces = texts[a].pieces + 1] \in Text
      <4>1. texts[a] \in Text /\ texts[a].pieces \in Nat
        BY <1>0 DEF TeamTypeOK, Text
      <4>2. texts[a].pieces + 1 \in Nat
        BY ONLY <4>1
      <4> QED BY <4>1, <4>2 DEF Text
    <3> QED BY <1>0, <3>1, <3>2 DEF TeamTypeOK
  <2>2. CASE AnalystFails(a)
    <3>1. [pieces |-> 0, fallback |-> TRUE] \in Text
      BY DEF Text
    <3> QED BY <1>0, <2>2, <3>1 DEF TeamTypeOK, AnalystFails
  <2>3. CASE AnalystEnds(a) \/ AnalystDone(a)
    BY <1>0, <2>3 DEF TeamTypeOK, AnalystEnds, AnalystDone
  <2> QED BY <2>1, <2>2, <2>3 DEF AnalystStep
<1>3. /\ workers' \in [Analysts -> {"off", "streaming", "closing", "over"}]
      /\ \A b \in Analysts : b # a => workers'[b] = workers[b]
  BY <1>0 DEF TeamTypeOK, AnalystStep, AnalystPiece, AnalystEnds, AnalystFails, AnalystDone
<1>4. /\ events' \in Seq([agent : Analysts, kind : {"delta", "done"}, text : Text])
      /\ \A n \in 1..Len(events') : \/ n \in 1..Len(events) /\ events'[n] = events[n]
                                    \/ events'[n].kind # "done"
                                    \/ events'[n] = [agent |-> a, kind |-> "done", text |-> texts'[a]] /\ workers'[a] = "over"
  <2>1. CASE AnalystPiece(a) \/ AnalystFails(a)
    <3>1. Put(a, "delta", texts'[a]) /\ texts'[a] \in Text
      BY <1>2, <2>1 DEF AnalystPiece, AnalystFails
    <3>2. /\ events' \in Seq([agent : Analysts, kind : {"delta", "done"}, text : Text])
          /\ \A n \in 1..Len(events') : \/ n \in 1..Len(events) /\ events'[n] = events[n]
                                        \/ events'[n] = [agent |-> a, kind |-> "delta", text |-> texts'[a]]
      BY <3>1, QueueGrows
    <3> QED BY <3>2
  <2>2. CASE AnalystEnds(a)
    BY <1>0, <2>2 DEF AnalystEnds, TeamTypeOK
  <2>3. CASE AnalystDone(a)
    <3>1. Put(a, "done", texts[a]) /\ texts[a] \in Text /\ texts' = texts /\ workers'[a] = "over"
      BY <1>0, <2>3 DEF AnalystDone, TeamTypeOK
    <3> QED BY <3>1, QueueGrows
  <2> QED BY <2>1, <2>2, <2>3 DEF AnalystStep
<1>5. TeamTypeOK'
  BY <1>0, <1>1, <1>2, <1>3, <1>4 DEF TeamTypeOK
<1>6. a \in remaining
  BY <1>0, <1>1 DEF DoneIsFinal
<1>7. DoneIsFinal'
  <2>1. ASSUME NEW n \in 1..Len(events'), events'[n].kind = "done"
        PROVE  workers'[events'[n].agent] = "over" /\ events'[n].text = texts'[events'[n].agent]
    <3>1. CASE n \in 1..Len(events) /\ events'[n] = events[n]
      <4>1. events[n].agent \in Analysts /\ workers[events[n].agent] = "over" /\ events[n].text = texts[events[n].agent]
        <5>1. events[n] \in [agent : Analysts, kind : {"delta", "done"}, text : Text]
          BY <1>0, <3>1, EventTyped
        <5> QED BY <1>0, <2>1, <3>1, <5>1 DEF DoneIsFinal
      <4>2. events[n].agent # a
        BY <1>1, <4>1
      <4> QED BY <1>2, <1>3, <3>1, <4>1, <4>2
    <3>2. CASE events'[n] = [agent |-> a, kind |-> "done", text |-> texts'[a]] /\ workers'[a] = "over"
      BY <3>2
    <3> QED BY <1>4, <2>1, <3>1, <3>2
  <2>2. \A b \in Analysts \ remaining : workers'[b] = "over" /\ shown[b] = texts'[b]
    BY <1>0, <1>2, <1>3, <1>6 DEF DoneIsFinal
  <2> QED BY <1>1, <2>1, <2>2 DEF DoneIsFinal
<1>8. ChiefHasTheTexts'
  BY <1>0, <1>1, <1>2, <1>6 DEF ChiefHasTheTexts
<1>9. Unstarted' /\ ReportSoFar' /\ OneReport'
  BY <1>0, <1>1 DEF Unstarted, ReportSoFar, OneReport, endVars
<1> QED BY <1>5, <1>7, <1>8, <1>9 DEF TeamInv

\* The next event.
LEMMA ShowKeeps == ASSUME TeamInv, ShowEvent PROVE TeamInv'
<1>0. TeamTypeOK /\ Unstarted /\ DoneIsFinal /\ ChiefHasTheTexts /\ ReportSoFar /\ OneReport
  BY DEF TeamInv
<1>1. /\ team.pc = "analysts" /\ events # <<>> /\ events' = Tail(events)
      /\ UNCHANGED <<team, workers, texts, chunks, analystTexts, saved, message>>
  BY DEF ShowEvent, At, endVars
<1>2. PICK e \in [agent : Analysts, kind : {"delta", "done"}, text : Text] :
           /\ e = events[1]
           /\ IF e.kind = "done"
              THEN remaining' = remaining \ {e.agent} /\ shown' = [shown EXCEPT ![e.agent] = e.text]
              ELSE UNCHANGED <<remaining, shown>>
  <2>0. 1 \in 1..Len(events)
    BY <1>0, <1>1 DEF TeamTypeOK
  <2>1. events[1] \in [agent : Analysts, kind : {"delta", "done"}, text : Text] /\ Head(events) = events[1]
    BY <1>0, <2>0, EventTyped
  <2> QED BY <2>1 DEF ShowEvent
<1>3. /\ events' \in Seq([agent : Analysts, kind : {"delta", "done"}, text : Text])
      /\ \A n \in 1..Len(events') : n + 1 \in 1..Len(events) /\ events'[n] = events[n + 1]
  BY <1>0, <1>1 DEF TeamTypeOK
<1>4. e.kind = "done" => workers[e.agent] = "over" /\ e.text = texts[e.agent]
  BY <1>0, <1>1, <1>2 DEF DoneIsFinal, TeamTypeOK
<1>5. /\ shown' \in [Agents -> Text \cup {NoText}] /\ shown'["chief"] = shown["chief"] /\ remaining' \subseteq remaining
      /\ \A a \in Analysts : shown'[a] = IF e.kind = "done" /\ a = e.agent THEN e.text ELSE shown[a]
  BY <1>0, <1>2, TeamAssumption DEF TeamTypeOK, Agents
<1>6. TeamTypeOK'
  BY <1>0, <1>1, <1>3, <1>5 DEF TeamTypeOK
<1>7. DoneIsFinal'
  <2>1. \A n \in 1..Len(events') : events'[n].kind = "done" => /\ workers[events'[n].agent] = "over"
                                                               /\ events'[n].text = texts[events'[n].agent]
    BY <1>0, <1>3 DEF DoneIsFinal
  <2>2. \A a \in Analysts \ remaining' : workers[a] = "over" /\ shown'[a] = texts[a]
    BY <1>0, <1>2, <1>4, <1>5 DEF DoneIsFinal
  <2> QED BY <1>1, <2>1, <2>2 DEF DoneIsFinal
<1>8. Unstarted' /\ ChiefHasTheTexts' /\ ReportSoFar'
  BY <1>0, <1>1, <1>5 DEF Unstarted, ChiefHasTheTexts, ReportSoFar
<1>9. OneReport'
  BY <1>0, <1>1, <1>5 DEF OneReport
<1> QED BY <1>6, <1>7, <1>8, <1>9 DEF TeamInv

\* The generator goes on.
LEMMA GoOnMoves ==
    ASSUME TeamTypeOK, NEW p \in TeamStages, GoOn(p)
    PROVE  team' \in [pc : TeamStages, mode : {"fast", "deep"}, linked : BOOLEAN] /\ team'.pc = p /\ team'.mode = team.mode
BY DEF TeamTypeOK, GoOn

\* The request begins.
LEMMA TeamStartKeeps ==
    ASSUME TeamInv, NEW mode \in {"fast", "deep"}, NEW linked \in BOOLEAN, StartTeam(mode, linked)
    PROVE  TeamInv'
<1>0. TeamTypeOK /\ Unstarted /\ DoneIsFinal /\ ChiefHasTheTexts /\ ReportSoFar /\ OneReport
  BY DEF TeamInv
<1>1. PICK pc \in {"failed", IF mode = "deep" THEN "analysts" ELSE "chief"} :
           /\ team.pc = "idle" /\ team' = [pc |-> pc, mode |-> mode, linked |-> linked]
           /\ workers' = IF pc = "analysts" THEN [a \in Analysts |-> "streaming"] ELSE workers
  BY DEF StartTeam, At
<1>2. UNCHANGED <<texts, events, remaining, shown, chunks, analystTexts, saved, message>>
  BY DEF StartTeam, endVars
<1>3. TeamTypeOK'
  BY <1>0, <1>1, <1>2 DEF TeamTypeOK, TeamStages, Over
<1>4. team'.pc = pc /\ team'.mode = mode /\ (pc = "chief" => mode # "deep") /\ pc \in {"failed", "analysts", "chief"}
  BY <1>1
<1>5. Unstarted' /\ DoneIsFinal'
  BY <1>0, <1>1, <1>2, <1>4 DEF Unstarted, DoneIsFinal
<1>6. ChiefHasTheTexts' /\ ReportSoFar' /\ OneReport'
  BY <1>0, <1>1, <1>2, <1>4 DEF ChiefHasTheTexts, ReportSoFar, OneReport
<1> QED BY <1>3, <1>5, <1>6 DEF TeamInv

\* A stage that changes neither the threads nor the queue nor what is kept.
LEMMA StageKeeps ==
    ASSUME TeamInv, NEW p \in TeamStages, GoOn(p), team.pc \notin {"idle"} \cup Over, p # "idle",
           UNCHANGED <<workers, texts, events, remaining, saved, message>>,
           analystTexts' \in [Analysts -> Text], chunks' \in Text,
           shown' \in [Agents -> Text \cup {NoText}], \A a \in Analysts : shown'[a] = shown[a],
           ChiefHasTheTexts', ReportSoFar', OneReport'
    PROVE  TeamInv'
<1>0. TeamTypeOK /\ Unstarted /\ DoneIsFinal
  BY DEF TeamInv
<1>1. team' \in [pc : TeamStages, mode : {"fast", "deep"}, linked : BOOLEAN] /\ team'.pc = p
  BY <1>0, GoOnMoves
<1>2. TeamTypeOK'
  BY <1>0, <1>1 DEF TeamTypeOK
<1>3. Unstarted' /\ DoneIsFinal'
  BY <1>0, <1>1 DEF Unstarted, DoneIsFinal
<1> QED BY <1>2, <1>3 DEF TeamInv

LEMMA TeamCloseKeeps == ASSUME TeamInv, CloseAnalysts PROVE TeamInv'
<1>0. TeamTypeOK /\ DoneIsFinal /\ ChiefHasTheTexts /\ ReportSoFar /\ OneReport
  BY DEF TeamInv
<1>1. /\ GoOn("chief") /\ team.pc = "analysts" /\ remaining = {} /\ analystTexts' = texts
      /\ UNCHANGED <<workers, texts, events, remaining, shown, chunks, saved, message>>
  BY DEF CloseAnalysts, At, WaitsFor, analystVars, endVars
<1>2. "chief" \in TeamStages /\ team.pc \notin {"idle"} \cup Over
  BY <1>1 DEF TeamStages, Over
<1>3. team'.pc = "chief"
  BY <1>0, <1>1, <1>2, GoOnMoves
<1>4. ChiefHasTheTexts'
  BY <1>0, <1>1 DEF ChiefHasTheTexts, DoneIsFinal
<1>5. ReportSoFar' /\ OneReport'
  BY <1>0, <1>1, <1>3 DEF ReportSoFar, OneReport
<1>6. analystTexts' \in [Analysts -> Text] /\ chunks' \in Text /\ shown' \in [Agents -> Text \cup {NoText}]
  BY <1>0, <1>1 DEF TeamTypeOK
<1> QED BY <1>1, <1>2, <1>4, <1>5, <1>6, StageKeeps

LEMMA ChiefKeeps == ASSUME TeamInv, ChiefPiece PROVE TeamInv'
<1>0. TeamTypeOK /\ Unstarted /\ DoneIsFinal /\ ChiefHasTheTexts /\ ReportSoFar /\ OneReport
  BY DEF TeamInv
<1>1. /\ team.pc = "chief" /\ chunks' = [chunks EXCEPT !.pieces = chunks.pieces + 1]
      /\ UNCHANGED <<team, workers, texts, events, remaining, shown, analystTexts, saved, message>>
  BY DEF ChiefPiece, At, analystVars, endVars
<1>2. chunks' \in Text /\ chunks'.fallback = chunks.fallback
  <2>1. chunks \in Text /\ chunks.pieces \in Nat
    BY <1>0 DEF TeamTypeOK, Text
  <2>2. chunks.pieces + 1 \in Nat
    BY ONLY <2>1
  <2> QED BY <1>1, <2>1, <2>2 DEF Text
<1>3. TeamTypeOK'
  BY <1>0, <1>1, <1>2 DEF TeamTypeOK
<1>4. Unstarted' /\ DoneIsFinal' /\ ChiefHasTheTexts' /\ ReportSoFar' /\ OneReport'
  BY <1>0, <1>1, <1>2 DEF Unstarted, DoneIsFinal, ChiefHasTheTexts, ReportSoFar, OneReport
<1> QED BY <1>3, <1>4 DEF TeamInv

\* The report is what the chief streamed, without a fallback in it, or the
\* fallback without a piece.
LEMMA ReportKeeps == ASSUME TeamInv, ChiefEnds \/ ChiefFails PROVE TeamInv'
<1>0. TeamTypeOK /\ Unstarted /\ DoneIsFinal /\ ChiefHasTheTexts /\ ReportSoFar /\ OneReport
  BY DEF TeamInv
<1>1. PICK text \in Text : ShowReport(text) /\ (~text.fallback \/ text.pieces = 0)
  <2>1. CASE ChiefEnds
    <3>1. chunks \in Text /\ ~chunks.fallback /\ ShowReport(chunks)
      BY <1>0, <2>1 DEF TeamTypeOK, ReportSoFar, ChiefEnds, ShowReport, At
    <3> QED BY <3>1
  <2>2. CASE ChiefFails
    <3>1. FallbackReport \in Text /\ FallbackReport.pieces = 0 /\ ShowReport(FallbackReport)
      BY <2>2 DEF FallbackReport, Text, ChiefFails
    <3> QED BY <3>1
  <2> QED BY <2>1, <2>2
<1>2. /\ team.pc = "chief" /\ GoOn("report") /\ shown' = [shown EXCEPT !["chief"] = text] /\ chunks' = text
      /\ UNCHANGED <<workers, texts, events, remaining, analystTexts, saved, message>>
  BY <1>1 DEF ShowReport, At, analystVars, endVars
<1>3. "report" \in TeamStages /\ team.pc \notin {"idle"} \cup Over
  BY <1>2 DEF TeamStages, Over
<1>4. team'.pc = "report" /\ team'.mode = team.mode
  BY <1>0, <1>2, <1>3, GoOnMoves
<1>5. /\ shown' \in [Agents -> Text \cup {NoText}] /\ shown'["chief"] = text
      /\ \A a \in Analysts : shown'[a] = shown[a]
  BY <1>0, <1>2, TeamAssumption DEF TeamTypeOK, Agents
<1>6. ChiefHasTheTexts' /\ ReportSoFar'
  BY <1>0, <1>2, <1>4, <1>5 DEF ChiefHasTheTexts, ReportSoFar
<1>7. OneReport'
  BY <1>0, <1>1, <1>2, <1>5 DEF ReportSoFar, OneReport
<1>8. analystTexts' \in [Analysts -> Text] /\ chunks' \in Text
  BY <1>0, <1>2 DEF TeamTypeOK
<1> QED BY <1>2, <1>3, <1>5, <1>6, <1>7, <1>8, StageKeeps

\* What is kept is what is shown.
LEMMA PersistKeeps == ASSUME TeamInv, PersistReport \/ FinalizeTeam PROVE TeamInv'
<1>0. TeamTypeOK /\ Unstarted /\ DoneIsFinal /\ ChiefHasTheTexts /\ ReportSoFar /\ OneReport
  BY DEF TeamInv
<1>1. /\ team.pc \in {"persist", "finalize"} /\ saved' \in {saved, chunks} /\ message' \in {message, chunks}
      /\ UNCHANGED <<workers, texts, events, remaining, shown, chunks, analystTexts>>
  BY DEF PersistReport, FinalizeTeam, Kept, At, analystVars
<1>2. PICK p \in {"finalize", "finished", "failed"} : GoOn(p)
  BY DEF PersistReport, FinalizeTeam
<1>3. p \in TeamStages /\ p # "idle"
  BY DEF TeamStages, Over
<1>4. team' \in [pc : TeamStages, mode : {"fast", "deep"}, linked : BOOLEAN] /\ team'.pc = p /\ team'.mode = team.mode
  BY <1>0, <1>2, <1>3, GoOnMoves
<1>5. TeamTypeOK'
  BY <1>0, <1>1, <1>4 DEF TeamTypeOK
<1>6. shown["chief"] = chunks
  BY <1>0, <1>1 DEF ReportSoFar
<1>7. Unstarted' /\ DoneIsFinal' /\ ChiefHasTheTexts'
  BY <1>0, <1>1, <1>3, <1>4 DEF Unstarted, DoneIsFinal, ChiefHasTheTexts
<1>8. ReportSoFar' /\ OneReport'
  BY <1>0, <1>1, <1>3, <1>4, <1>6 DEF ReportSoFar, OneReport
<1> QED BY <1>5, <1>7, <1>8 DEF TeamInv

\* Steps of the generator, and of the reader who leaves, that keep everything
\* but the generator's place; the session is deleted.
LEMMA PlaceKeeps == ASSUME TeamInv, ReportShown \/ LeaveTeam \/ PoolClosed \/ DeleteChatSession PROVE TeamInv'
<1>0. TeamTypeOK /\ Unstarted /\ DoneIsFinal /\ ChiefHasTheTexts /\ ReportSoFar /\ OneReport
  BY DEF TeamInv
<1>1. UNCHANGED <<workers, texts, events, remaining, shown, chunks, analystTexts, saved, message>>
  BY DEF ReportShown, LeaveTeam, PoolClosed, DeleteChatSession, analystVars, endVars
<1>2. CASE DeleteChatSession
  BY <1>0, <1>1, <1>2 DEF DeleteChatSession, TeamInv, TeamTypeOK, Unstarted, DoneIsFinal, ChiefHasTheTexts, ReportSoFar, OneReport
<1>3. CASE ReportShown \/ LeaveTeam \/ PoolClosed
  <2>1. PICK p \in {"persist", "leaving", "left"} :
             /\ GoOn(p)
             /\ p = "persist" => team.pc = "report"
             /\ p = "leaving" => team.pc = "analysts"
             /\ team.pc \notin {"idle"} \cup Over
    BY <1>3 DEF ReportShown, LeaveTeam, PoolClosed, At, Over
  <2>2. p \in TeamStages /\ p # "idle"
    BY DEF TeamStages, Over
  <2>3. team' \in [pc : TeamStages, mode : {"fast", "deep"}, linked : BOOLEAN] /\ team'.pc = p /\ team'.mode = team.mode
    BY <1>0, <2>1, <2>2, GoOnMoves
  <2>4. TeamTypeOK'
    BY <1>0, <1>1, <2>3 DEF TeamTypeOK
  <2>5. Unstarted' /\ DoneIsFinal' /\ ChiefHasTheTexts'
    BY <1>0, <1>1, <2>1, <2>2, <2>3 DEF Unstarted, DoneIsFinal, ChiefHasTheTexts
  <2>6. ReportSoFar' /\ OneReport'
    BY <1>0, <1>1, <2>1, <2>2, <2>3 DEF ReportSoFar, OneReport
  <2> QED BY <2>4, <2>5, <2>6 DEF TeamInv
<1> QED BY <1>2, <1>3

LEMMA TeamInductive == TeamInv /\ [TeamNext]_teamVars => TeamInv'
<1> SUFFICES ASSUME TeamInv, [TeamNext]_teamVars PROVE TeamInv'
  OBVIOUS
<1>1. CASE UNCHANGED teamVars
  BY <1>1 DEF teamVars, TeamInv, TeamTypeOK, Unstarted, DoneIsFinal, ChiefHasTheTexts, ReportSoFar, OneReport
<1>2. CASE TeamNext
  BY <1>2, TeamStartKeeps, AnalystKeeps, ShowKeeps, TeamCloseKeeps, ChiefKeeps, ReportKeeps, PersistKeeps, PlaceKeeps
     DEF TeamNext, GeneratorStep
<1> QED BY <1>1, <1>2

\* For any number of analysts and of pieces: the chief reports on the texts that
\* were shown as finished, and what is stored of the report is what was shown
\* (team.py: iter_parallel_sub_agents, persist_team_report).
THEOREM TeamReports == TeamSpec => []ReportIsShown
<1>1. TeamInv => ReportIsShown
  BY DEF TeamInv, ReportIsShown, ChiefReadsWhatIsShown, ChiefHasTheTexts, DoneIsFinal
<1> QED BY TeamStarts, TeamInductive, <1>1, PTL DEF TeamSpec

-----------------------------------------------------------------------------
(* Backtests: a success that is answered is on record. The rows of the      *)
(* attempt at work are counted item by item (ThreadIsOnRecord), and what is *)
(* shown of a score is what the engine said of it.                          *)

\* The lists of items a job may be accepted with.
JobItems ==
    {<<>>} \cup {<<Item(BtStocks[1], s, v, 5, 20)>> : s \in {"double_ma", "medium_swing"}, v \in {"d", "1m"}}
           \cup {Batch(s, "d") : s \in {"double_ma", "medium_swing"}} \cup {Optimisation(s, "d") : s \in MaWindowStrategies}

RunRows == [item : Nat, ok : BOOLEAN, try : Nat, engine : Scores \cup {NoScore}, score : {Shown(v) : v \in Scores \cup {NoScore}} \cup {NoScore}]

BtTypes ==
    /\ request \in [kind : {"none", "single", "batch", "optimize"}, items : JobItems,
                    job : {"none", "queued", "running", "answered"}, attempts : 0..MaxAttempts]
    /\ thread \in [at : {"none", "load", "engine", "save", "save failed"}, item : Nat, failed : Nat, score : Scores \cup {NoScore}]
    /\ thread.item <= Len(request.items) /\ thread.failed <= thread.item
    /\ runs \in Seq(RunRows) /\ \A n \in 1..Len(runs) : runs[n].item \in 1..Len(request.items) /\ runs[n].try <= request.attempts
    /\ answer \in [success : BOOLEAN, failed : Nat, try : Nat]

RowsOf(try) == {n \in 1..Len(runs) : runs[n].try = try}
FailuresOf(try) == {n \in 1..Len(runs) : runs[n].try = try /\ ~runs[n].ok}

\* What the thread at work has on record: the items before its own, each of them;
\* of its own item a row at most of a success whose saving raised.
ThreadIsOnRecord ==
    thread.at # "none" =>
        /\ request.job \in {"running", "answered"} /\ ~answer.success
        /\ thread.item = 0 => thread.at = "load" /\ Len(request.items) = 0
        /\ thread.item > 0 => thread.failed < thread.item
        /\ \A i \in 1..(thread.item - 1) : \E n \in RowsOf(request.attempts) : runs[n].item = i
        /\ \A n \in RowsOf(request.attempts) :
               /\ runs[n].item <= thread.item
               /\ runs[n].item = thread.item => thread.at = "save failed" /\ runs[n].ok
        /\ IsFiniteSet(FailuresOf(request.attempts)) /\ thread.failed = Cardinality(FailuresOf(request.attempts))

JobWaits ==
    /\ request.job = "none" => runs = <<>> /\ request.items = <<>>
    /\ request.job = "queued" => thread.at = "none" /\ request.attempts < MaxAttempts
    /\ request.job \in {"none", "queued"} => thread.at = "none" /\ ~answer.success

OkOnce ==
    \A n, m \in 1..Len(runs) :
        runs[n].ok /\ runs[m].ok /\ runs[n].item = runs[m].item /\ runs[n].try = runs[m].try => n = m

SuccessIsCounted ==
    answer.success =>
        /\ thread.at = "none" /\ request.job = "answered"
        /\ {runs[n].item : n \in RowsOf(answer.try)} = 1..Len(request.items)
        /\ answer.failed = Cardinality(FailuresOf(answer.try))

BtInv == BtTypes /\ ThreadIsOnRecord /\ JobWaits /\ OkOnce /\ SuccessIsCounted

-----------------------------------------------------------------------------
LEMMA BtConstants == MaxAttempts \in Nat /\ MaxAttempts > 0 /\ NoScore \in Scores \cup {NoScore}
BY BacktestAssumption

\* Every list of items is one: its domain is from 1 to its length.
LEMMA OrdersAreLists == ASSUME NEW q \in JobItems PROVE Len(q) \in Nat /\ DOMAIN q = 1..Len(q) /\ (Len(q) = 0 => q = <<>>)
<1>1. ASSUME NEW n \in Nat, DOMAIN q = 1..n, q = [i \in 1..n |-> q[i]]
      PROVE  Len(q) \in Nat /\ DOMAIN q = 1..Len(q) /\ (Len(q) = 0 => q = <<>>)
  <2> DEFINE S == {q[i] : i \in 1..n}
  <2>1. q \in [1..n -> S]
    BY <1>1
  <2>2. q \in Seq(S)
    BY <2>1, SeqDef
  <2> QED BY ONLY <2>2, LenProperties, EmptySeq
<1>2. CASE q = <<>>
  BY <1>2
<1>3. CASE q \in {<<Item(BtStocks[1], s, v, 5, 20)>> : s \in {"double_ma", "medium_swing"}, v \in {"d", "1m"}}
  BY <1>3
<1>4. CASE q \in {Batch(s, "d") : s \in {"double_ma", "medium_swing"}}
  <2>1. Len(BtStocks) \in Nat /\ DOMAIN BtStocks = 1..Len(BtStocks)
    BY BacktestAssumption, LenProperties
  <2> QED BY <1>1, <1>4, <2>1 DEF Batch
<1>5. CASE q \in {Optimisation(s, "d") : s \in MaWindowStrategies}
  <2>1. \E n \in Nat : DOMAIN Combos = 1..n
    <3> DEFINE pairs == {c \in Grid.fast \X Grid.slow : c[1] < c[2]}
    <3>1. IsFiniteSet(pairs)
      <4>1. IsFiniteSet(Grid.fast \X Grid.slow)
        BY BacktestAssumption, FS_Product
      <4> QED BY <4>1, FS_Subset
    <3>2. Cardinality(pairs) \in Nat
      BY <3>1, FS_CardinalityType
    <3>3. DOMAIN Combos = 1..Cardinality(pairs)
      BY DEF Combos
    <3> QED BY <3>2, <3>3
  <2> QED BY <1>1, <1>5, <2>1 DEF Optimisation
<1> QED BY <1>2, <1>3, <1>4, <1>5 DEF JobItems

LEMMA BtStarts == BtInit => BtInv
<1> SUFFICES ASSUME BtInit PROVE BtInv
  OBVIOUS
<1>1. /\ request = [kind |-> "none", items |-> <<>>, job |-> "none", attempts |-> 0]
      /\ thread = [at |-> "none", item |-> 0, failed |-> 0, score |-> NoScore]
      /\ runs = <<>> /\ answer = [success |-> FALSE, failed |-> 0, try |-> 0]
  BY DEF BtInit, NoRequest, Idle, NoAnswer
<1>2. BtTypes
  <2>1. <<>> \in JobItems
    BY DEF JobItems
  <2>2. request \in [kind : {"none", "single", "batch", "optimize"}, items : JobItems,
                     job : {"none", "queued", "running", "answered"}, attempts : 0..MaxAttempts]
    BY <1>1, <2>1, BtConstants
  <2>3. thread.item <= Len(request.items) /\ thread.failed <= thread.item /\ runs \in Seq(RunRows) /\ Len(runs) = 0
    BY <1>1
  <2> QED BY <1>1, <2>2, <2>3, BtConstants DEF BtTypes
<1>3. ThreadIsOnRecord /\ JobWaits /\ OkOnce /\ SuccessIsCounted
  BY <1>1 DEF ThreadIsOnRecord, JobWaits, OkOnce, SuccessIsCounted
<1> QED BY <1>2, <1>3 DEF BtInv

LEMMA BtFacts ==
    ASSUME BtInv
    PROVE  /\ request.items \in JobItems /\ request.job \in {"none", "queued", "running", "answered"}
           /\ request.attempts \in Nat /\ request.attempts <= MaxAttempts
           /\ Len(request.items) \in Nat /\ Len(runs) \in Nat
           /\ thread.item \in Nat /\ thread.item <= Len(request.items) /\ thread.failed \in Nat /\ thread.failed <= thread.item
           /\ thread.score \in Scores \cup {NoScore}
           /\ \A n \in 1..Len(runs) : /\ runs[n] \in RunRows /\ runs[n].item \in 1..Len(request.items)
                                      /\ runs[n].try \in Nat /\ runs[n].try <= request.attempts
<1>1. request.items \in JobItems /\ request.job \in {"none", "queued", "running", "answered"} /\ request.attempts \in 0..MaxAttempts
  BY DEF BtInv, BtTypes
<1>2. thread.item \in Nat /\ thread.failed \in Nat /\ thread.item <= Len(request.items) /\ thread.failed <= thread.item
      /\ thread.score \in Scores \cup {NoScore}
  BY DEF BtInv, BtTypes
<1>3. runs \in Seq(RunRows)
  BY DEF BtInv, BtTypes
<1>4. Len(runs) \in Nat /\ \A n \in 1..Len(runs) : runs[n] \in RunRows
  BY <1>3, LenProperties, ElementOfSeq
<1>5. \A n \in 1..Len(runs) : runs[n].try \in Nat
  BY <1>4 DEF RunRows
<1>6. \A n \in 1..Len(runs) : runs[n].item \in 1..Len(request.items) /\ runs[n].try <= request.attempts
  BY DEF BtInv, BtTypes
<1>7. Len(request.items) \in Nat
  BY <1>1, OrdersAreLists
<1>8. request.attempts \in Nat /\ request.attempts <= MaxAttempts
  BY <1>1, BtConstants
<1> QED BY <1>1, <1>2, <1>4, <1>5, <1>6, <1>7, <1>8

\* A job is accepted.
LEMMA EnqueueKeeps == ASSUME BtInv, EnqueueSingle \/ EnqueueBatch \/ EnqueueOptimize PROVE BtInv'
<1>0. BtTypes /\ JobWaits /\ OkOnce /\ SuccessIsCounted
  BY DEF BtInv
<1>1. PICK kind \in {"single", "batch", "optimize"}, items \in JobItems : Accept(kind, items)
  BY DEF EnqueueSingle, EnqueueBatch, EnqueueOptimize, JobItems
<1>2. /\ request.job = "none" /\ request' = [kind |-> kind, items |-> items, job |-> "queued", attempts |-> 0]
      /\ UNCHANGED <<thread, runs, answer>>
  BY <1>1 DEF Accept
<1>3. runs = <<>> /\ request.items = <<>> /\ thread.at = "none" /\ ~answer.success /\ Len(request.items) = 0 /\ Len(runs) = 0
  BY <1>0, <1>2 DEF JobWaits
<1>4. Len(items) \in Nat /\ thread.item = 0
  BY <1>3, BtFacts, OrdersAreLists
<1>5. BtTypes'
  <2>1. request' \in [kind : {"none", "single", "batch", "optimize"}, items : JobItems,
                      job : {"none", "queued", "running", "answered"}, attempts : 0..MaxAttempts]
    BY <1>2, BtConstants
  <2>2. request'.items = items /\ thread.item <= Len(items)
    BY <1>2, <1>4
  <2>3. /\ thread \in [at : {"none", "load", "engine", "save", "save failed"}, item : Nat, failed : Nat, score : Scores \cup {NoScore}]
        /\ answer \in [success : BOOLEAN, failed : Nat, try : Nat] /\ thread.failed <= thread.item
    BY <1>0 DEF BtTypes
  <2>4. runs \in Seq(RunRows)
    BY <1>0 DEF BtTypes
  <2>5. thread' = thread /\ answer' = answer /\ runs' = runs
    BY <1>2
  <2>6. thread'.item <= Len(request'.items)
    BY <2>2, <2>5
  <2>7. \A n \in 1..Len(runs) : FALSE
    BY <1>3
  <2> QED BY ONLY <2>1, <2>3, <2>4, <2>5, <2>6, <2>7 DEF BtTypes
<1>6. ThreadIsOnRecord' /\ JobWaits' /\ OkOnce' /\ SuccessIsCounted'
  BY <1>2, <1>3, BtConstants DEF ThreadIsOnRecord, JobWaits, OkOnce, SuccessIsCounted
<1> QED BY <1>5, <1>6 DEF BtInv

\* The worker takes the job up: no row is of the new attempt yet.
LEMMA RunStartKeeps == ASSUME BtInv, StartJob PROVE BtInv'
<1>0. BtTypes /\ JobWaits /\ OkOnce /\ SuccessIsCounted
  BY DEF BtInv
<1>1. /\ request.job = "queued" /\ thread.at = "none"
      /\ request' = [[request EXCEPT !.job = "running"] EXCEPT !.attempts = request.attempts + 1]
      /\ thread' = [at |-> "load", item |-> IF request.items = <<>> THEN 0 ELSE 1, failed |-> 0, score |-> NoScore]
      /\ UNCHANGED <<runs, answer>>
  BY DEF StartJob, Idle
<1>2. request.attempts < MaxAttempts /\ ~answer.success
  BY <1>0, <1>1 DEF JobWaits
<1>3. PICK t \in Nat : t = request.attempts + 1 /\ t <= MaxAttempts
  BY <1>2, BtFacts, BtConstants
<1>4. /\ request' \in [kind : {"none", "single", "batch", "optimize"}, items : JobItems,
                       job : {"none", "queued", "running", "answered"}, attempts : 0..MaxAttempts]
      /\ request'.job = "running" /\ request'.attempts = t /\ request'.items = request.items
  <2>1. t \in 0..MaxAttempts
    BY <1>3, BtConstants
  <2> QED BY <1>0, <1>1, <1>3, <2>1 DEF BtTypes
<1>5. \A n \in 1..Len(runs) : runs[n].try # t /\ runs[n].try <= t
  BY <1>3, BtFacts
<1>6. request.items # <<>> => Len(request.items) > 0
  <2>1. Len(request.items) \in Nat /\ (Len(request.items) = 0 => request.items = <<>>)
    BY BtFacts, OrdersAreLists
  <2> QED BY <2>1
<1>7. thread' \in [at : {"none", "load", "engine", "save", "save failed"}, item : Nat, failed : Nat, score : Scores \cup {NoScore}]
      /\ thread'.item <= Len(request.items) /\ thread'.failed <= thread'.item /\ thread'.at = "load" /\ thread'.failed = 0
      /\ thread'.item \in {0, 1} /\ (thread'.item = 0 => Len(request.items) = 0)
  BY <1>1, <1>6, BtFacts, BtConstants
<1>8. BtTypes'
  BY <1>0, <1>1, <1>4, <1>5, <1>7 DEF BtTypes
<1>9. FailuresOf(t) = {} /\ RowsOf(t) = {}
  BY <1>5 DEF FailuresOf, RowsOf
<1>10. ThreadIsOnRecord'
  <2>1. FailuresOf(request.attempts)' = {} /\ RowsOf(request.attempts)' = {}
    BY <1>1, <1>4, <1>5 DEF FailuresOf, RowsOf
  <2>2. IsFiniteSet({}) /\ Cardinality({}) = 0
    BY FS_EmptySet
  <2>3. ~answer'.success
    BY <1>1, <1>2
  <2>4. 1..(thread'.item - 1) = {}
    <3>1. thread'.item = 0 \/ thread'.item = 1
      BY <1>7
    <3> QED BY ONLY <3>1
  <2> QED BY <1>1, <1>4, <1>7, <2>1, <2>2, <2>3, <2>4 DEF ThreadIsOnRecord
<1>11. JobWaits' /\ OkOnce' /\ SuccessIsCounted'
  BY <1>0, <1>1, <1>2, <1>4 DEF JobWaits, OkOnce, SuccessIsCounted
<1> QED BY <1>8, <1>10, <1>11 DEF BtInv

-----------------------------------------------------------------------------
(* The thread's work.                                                      *)

\* What a step of the thread that leaves the job as it is must show.
LEMMA ThreadGoesOn ==
    ASSUME BtInv, thread.at # "none", UNCHANGED <<request, answer>>,
           thread' \in [at : {"load", "engine", "save", "save failed"}, item : Nat, failed : Nat, score : Scores \cup {NoScore}],
           thread'.item <= Len(request.items), thread'.failed <= thread'.item,
           runs' \in Seq(RunRows), \A n \in 1..Len(runs') : runs'[n].item \in 1..Len(request.items) /\ runs'[n].try <= request.attempts,
           OkOnce',
           thread'.item = 0 => thread'.at = "load" /\ Len(request.items) = 0,
           thread'.item > 0 => thread'.failed < thread'.item,
           \A i \in 1..(thread'.item - 1) : \E n \in RowsOf(request.attempts)' : runs'[n].item = i,
           \A n \in RowsOf(request.attempts)' : /\ runs'[n].item <= thread'.item
                                                /\ runs'[n].item = thread'.item => thread'.at = "save failed" /\ runs'[n].ok,
           IsFiniteSet(FailuresOf(request.attempts)'), thread'.failed = Cardinality(FailuresOf(request.attempts)')
    PROVE  BtInv'
<1>0. BtTypes /\ JobWaits /\ ThreadIsOnRecord
  BY DEF BtInv
<1>1. request.job \in {"running", "answered"} /\ ~answer.success
  BY <1>0 DEF ThreadIsOnRecord
<1>2. BtTypes'
  <2>1. thread' \in [at : {"none", "load", "engine", "save", "save failed"}, item : Nat, failed : Nat, score : Scores \cup {NoScore}]
    OBVIOUS
  <2> QED BY <1>0, <2>1 DEF BtTypes
<1>3. ThreadIsOnRecord'
  BY <1>1 DEF ThreadIsOnRecord
<1>4. JobWaits' /\ SuccessIsCounted'
  BY <1>1 DEF JobWaits, SuccessIsCounted
<1> QED BY <1>2, <1>3, <1>4 DEF BtInv

\* The thread ends, with the rows it has left.
LEMMA EndKeeps ==
    ASSUME BtInv, thread.at # "none", NEW success \in BOOLEAN, NEW failed \in Nat, Ends(success, failed),
           runs' \in Seq(RunRows), \A n \in 1..Len(runs') : runs'[n].item \in 1..Len(request.items) /\ runs'[n].try <= request.attempts,
           OkOnce',
           success => /\ {runs'[n].item : n \in RowsOf(request.attempts)'} = 1..Len(request.items)
                      /\ failed = Cardinality(FailuresOf(request.attempts)')
    PROVE  BtInv'
<1>0. BtTypes /\ JobWaits /\ ThreadIsOnRecord
  BY DEF BtInv
<1>1. request.job \in {"running", "answered"} /\ ~answer.success
  BY <1>0 DEF ThreadIsOnRecord
<1>2. PICK t \in Nat : t = request.attempts
  BY BtFacts
<1>3. /\ thread' = [at |-> "none", item |-> 0, failed |-> 0, score |-> NoScore]
      /\ request' = [request EXCEPT !.job = "answered"]
      /\ answer' = answer \/ answer' = [success |-> success, failed |-> failed, try |-> t]
  BY <1>2 DEF Ends, Idle
<1>4. /\ request' \in [kind : {"none", "single", "batch", "optimize"}, items : JobItems,
                       job : {"none", "queued", "running", "answered"}, attempts : 0..MaxAttempts]
      /\ request'.job = "answered" /\ request'.attempts = request.attempts /\ request'.items = request.items
  BY <1>0, <1>3 DEF BtTypes
<1>5. answer' \in [success : BOOLEAN, failed : Nat, try : Nat]
  <2>1. answer \in [success : BOOLEAN, failed : Nat, try : Nat]
    BY <1>0 DEF BtTypes
  <2>2. answer' = answer \/ answer' = [success |-> success, failed |-> failed, try |-> t]
    BY <1>3
  <2> QED BY <2>1, <2>2
<1>6. thread' \in [at : {"none", "load", "engine", "save", "save failed"}, item : Nat, failed : Nat, score : Scores \cup {NoScore}]
      /\ thread'.item = 0 /\ thread'.failed = 0 /\ thread'.at = "none"
  BY <1>3, BtConstants
<1>7. thread'.item <= Len(request.items) /\ thread'.failed <= thread'.item
  <2>1. thread'.item = 0 /\ thread'.failed = 0 /\ Len(request.items) \in Nat
    BY <1>6, BtFacts
  <2> QED BY ONLY <2>1
<1>8. BtTypes'
  BY <1>4, <1>5, <1>6, <1>7 DEF BtTypes
<1>9. ThreadIsOnRecord' /\ JobWaits'
  BY <1>4, <1>6 DEF ThreadIsOnRecord, JobWaits
<1>10. SuccessIsCounted'
  <2>1. CASE answer' = answer
    BY <1>1, <2>1 DEF SuccessIsCounted
  <2>2. CASE answer' = [success |-> success, failed |-> failed, try |-> t]
    <3>1. answer'.success = success /\ answer'.failed = failed /\ answer'.try = t
      BY <2>2
    <3>2. /\ RowsOf(answer.try)' = RowsOf(request.attempts)'
          /\ FailuresOf(answer.try)' = FailuresOf(request.attempts)'
      BY <1>2, <1>4, <3>1 DEF RowsOf, FailuresOf
    <3> QED BY <1>4, <1>6, <3>1, <3>2 DEF SuccessIsCounted
  <2> QED BY <1>3, <2>1, <2>2
<1> QED BY <1>8, <1>9, <1>10 DEF BtInv

\* The steps that leave no row: the first of a list, the bars, the engine.
LEMMA WorkKeeps == ASSUME BtInv, NothingToRun \/ LoadBars \/ RunEngine PROVE BtInv'
<1>0. BtTypes /\ ThreadIsOnRecord /\ JobWaits /\ OkOnce
  BY DEF BtInv
<1>1. runs' = runs /\ thread.at \in {"load", "engine"}
  BY DEF NothingToRun, LoadBars, RunEngine
<1>2. runs' \in Seq(RunRows) /\ (\A n \in 1..Len(runs') : runs'[n].item \in 1..Len(request.items) /\ runs'[n].try <= request.attempts) /\ OkOnce'
  BY <1>0, <1>1 DEF BtTypes, OkOnce
<1>3. RowsOf(request.attempts)' = {n \in 1..Len(runs) : runs[n].try = request'.attempts}
  BY <1>1 DEF RowsOf
<1>4. CASE NothingToRun
  <2>1. thread.at = "load" /\ thread.item = 0 /\ Ends(TRUE, 0)
    BY <1>4 DEF NothingToRun
  <2>2. request'.attempts = request.attempts
    BY <1>0, <2>1 DEF Ends, BtTypes
  <2>3. /\ Len(request.items) = 0 /\ (\A n \in RowsOf(request.attempts) : runs[n].item <= thread.item)
        /\ Cardinality(FailuresOf(request.attempts)) = 0
    BY <1>0, <2>1, BtFacts DEF ThreadIsOnRecord
  <2>4. RowsOf(request.attempts) = {}
    <3>1. \A n \in RowsOf(request.attempts) : runs[n].item \in Nat /\ runs[n].item >= 1 /\ runs[n].item <= 0
      BY <2>1, <2>3, BtFacts DEF RowsOf
    <3> QED BY <3>1
  <2>5. RowsOf(request.attempts)' = RowsOf(request.attempts) /\ FailuresOf(request.attempts)' = FailuresOf(request.attempts)
    BY <1>1, <2>2 DEF RowsOf, FailuresOf
  <2>6. {runs'[n].item : n \in RowsOf(request.attempts)'} = 1..Len(request.items)
    BY <2>3, <2>4, <2>5
  <2>7. 0 = Cardinality(FailuresOf(request.attempts)')
    BY <2>3, <2>5
  <2> QED BY <1>1, <1>2, <2>1, <2>6, <2>7, EndKeeps
<1>5. CASE LoadBars \/ RunEngine
  <2>0. thread.at # "none" /\ thread.item # 0
    <3>1. \/ thread.at = "load" /\ thread.item > 0
          \/ thread.at = "engine"
      BY <1>5 DEF LoadBars, RunEngine
    <3>2. thread.at = "engine" => thread.item # 0
      BY <1>0 DEF ThreadIsOnRecord
    <3>3. thread.item > 0 => thread.item # 0
      <4>1. thread.item \in Nat
        BY BtFacts
      <4> QED BY ONLY <4>1
    <3> QED BY <3>1, <3>2, <3>3
  <2>1. \/ Ends(FALSE, 0)
        \/ /\ UNCHANGED <<request, answer>>
           /\ \E at \in {"engine", "save", "save failed"}, score \in Scores \cup {NoScore} :
                  thread' = [[thread EXCEPT !.at = at] EXCEPT !.score = score]
    <3>1. thread.score \in Scores \cup {NoScore} /\ \A at : [thread EXCEPT !.at = at] = [[thread EXCEPT !.at = at] EXCEPT !.score = thread.score]
      BY <1>0 DEF BtTypes
    <3>2. CASE LoadBars
      <4>1. Ends(FALSE, 0) \/ (UNCHANGED <<request, answer>> /\ \E at \in {"engine", "save failed"} : thread' = [thread EXCEPT !.at = at])
        BY <3>2 DEF LoadBars
      <4> QED BY <3>1, <4>1
    <3>3. CASE RunEngine
      <4>1. /\ UNCHANGED <<request, answer>>
            /\ \/ \E score \in Scores \cup {NoScore} : thread' = [[thread EXCEPT !.at = "save"] EXCEPT !.score = score]
               \/ thread' = [thread EXCEPT !.at = "save failed"]
        BY <3>3 DEF RunEngine
      <4> QED BY <3>1, <4>1
    <3> QED BY <1>5, <3>2, <3>3
  <2>2. CASE Ends(FALSE, 0)
    BY <1>2, <2>0, <2>2, EndKeeps
  <2>3. CASE /\ UNCHANGED <<request, answer>>
             /\ \E at \in {"engine", "save", "save failed"}, score \in Scores \cup {NoScore} :
                    thread' = [[thread EXCEPT !.at = at] EXCEPT !.score = score]
    <3>1. UNCHANGED <<request, answer>>
      BY <2>3
    <3>2. /\ thread' \in [at : {"load", "engine", "save", "save failed"}, item : Nat, failed : Nat, score : Scores \cup {NoScore}]
          /\ thread'.item = thread.item /\ thread'.failed = thread.failed
      BY <1>0, <2>3 DEF BtTypes
    <3>3. RowsOf(request.attempts)' = RowsOf(request.attempts) /\ FailuresOf(request.attempts)' = FailuresOf(request.attempts)
      BY <1>1, <3>1 DEF RowsOf, FailuresOf
    <3>4. /\ \A i \in 1..(thread.item - 1) : \E n \in RowsOf(request.attempts) : runs[n].item = i
          /\ \A n \in RowsOf(request.attempts) : runs[n].item <= thread.item /\ runs[n].item # thread.item
          /\ IsFiniteSet(FailuresOf(request.attempts)) /\ thread.failed = Cardinality(FailuresOf(request.attempts))
      BY <1>0, <1>1, <2>0 DEF ThreadIsOnRecord
    <3>5. thread.item > 0 => thread.failed < thread.item
      BY <1>0, <2>0 DEF ThreadIsOnRecord
    <3>6. thread'.item # 0 /\ thread'.item <= Len(request.items) /\ thread'.failed <= thread'.item /\ thread'.failed < thread'.item
      <4>1. thread.item \in Nat /\ thread.failed \in Nat /\ Len(request.items) \in Nat /\ thread.item <= Len(request.items)
        BY BtFacts
      <4>2. thread'.item = thread.item /\ thread'.failed = thread.failed /\ thread.item # 0
        BY <2>0, <3>2
      <4> QED BY ONLY <3>5, <4>1, <4>2
    <3>7. /\ \A i \in 1..(thread'.item - 1) : \E n \in RowsOf(request.attempts)' : runs'[n].item = i
          /\ \A n \in RowsOf(request.attempts)' : runs'[n].item <= thread'.item /\ runs'[n].item # thread'.item
          /\ IsFiniteSet(FailuresOf(request.attempts)') /\ thread'.failed = Cardinality(FailuresOf(request.attempts)')
      BY <1>1, <3>2, <3>3, <3>4
    <3> QED BY <1>2, <2>0, <3>1, <3>2, <3>6, <3>7, ThreadGoesOn
  <2> QED BY <2>1, <2>2, <2>3
<1> QED BY <1>4, <1>5

\* A row of the thread's item is added.
LEMMA RowTyped ==
    ASSUME BtInv, NEW ok \in BOOLEAN
    PROVE  Row(ok) \in RunRows /\ Row(ok).item = thread.item /\ Row(ok).try = request.attempts /\ Row(ok).ok = ok
<1>1. /\ thread.score \in Scores \cup {NoScore} /\ NoScore \in Scores \cup {NoScore}
      /\ thread.item \in Nat /\ request.attempts \in Nat
  BY BtFacts, BtConstants
<1>2. CASE ok
  BY <1>1, <1>2 DEF Row, RunRows
<1>3. CASE ~ok
  BY <1>1, <1>3 DEF Row, RunRows
<1> QED BY <1>2, <1>3

LEMMA RowAppended ==
    ASSUME NEW q \in Seq(RunRows), NEW row \in RunRows, NEW len \in Nat, len = Len(q)
    PROVE  /\ Append(q, row) \in Seq(RunRows) /\ Len(Append(q, row)) = len + 1 /\ Append(q, row)[len + 1] = row
           /\ \A n \in 1..len : Append(q, row)[n] = q[n]
           /\ 1..(len + 1) = 1..len \cup {len + 1} /\ len + 1 \notin 1..len
<1>1. \A n \in 1..(len + 1) : n \in 1..len \/ n = len + 1
  OBVIOUS
<1>2. 1..len \subseteq 1..(len + 1) /\ len + 1 \in 1..(len + 1) /\ len + 1 \notin 1..len
  OBVIOUS
<1> QED BY <1>1, <1>2, AppendProperties

LEMMA RowAdded ==
    ASSUME BtInv, NEW row \in RunRows, thread.at \in {"save", "save failed"}, row.ok => thread.at = "save",
           row.item = thread.item, row.try = request.attempts,
           runs' = Append(runs, row), request'.attempts = request.attempts
    PROVE  /\ runs' \in Seq(RunRows)
           /\ \A n \in 1..Len(runs') : runs'[n].item \in 1..Len(request.items) /\ runs'[n].try <= request.attempts
           /\ OkOnce'
           /\ \A i \in 1..thread.item : \E n \in RowsOf(request.attempts)' : runs'[n].item = i
           /\ \A n \in RowsOf(request.attempts)' : /\ runs'[n].item <= thread.item
                                                   /\ row.ok /\ runs'[n].item = thread.item => runs'[n].ok
           /\ IsFiniteSet(FailuresOf(request.attempts)')
           /\ Cardinality(FailuresOf(request.attempts)') = IF row.ok THEN thread.failed ELSE thread.failed + 1
<1>0. BtTypes /\ ThreadIsOnRecord /\ OkOnce
  BY DEF BtInv
<1>1. PICK t \in Nat : t = request.attempts
  BY BtFacts
<1>2. PICK len \in Nat : len = Len(runs)
  BY BtFacts
<1>3. PICK i \in Nat : i = thread.item
  BY BtFacts
<1>4. row.item = i /\ row.try = t
  BY <1>1, <1>3
<1>5. runs \in Seq(RunRows)
  BY <1>0 DEF BtTypes
<1>6. /\ runs' \in Seq(RunRows) /\ Len(runs') = len + 1 /\ runs'[len + 1] = row
      /\ \A n \in 1..len : runs'[n] = runs[n]
  <2>1. /\ Append(runs, row) \in Seq(RunRows) /\ Len(Append(runs, row)) = len + 1 /\ Append(runs, row)[len + 1] = row
        /\ \A n \in 1..len : Append(runs, row)[n] = runs[n]
    BY ONLY len \in Nat, <1>2, <1>5, row \in RunRows, RowAppended
  <2> QED BY ONLY <2>1, runs' = Append(runs, row)
<1>7. /\ i \in 1..Len(request.items) /\ i > 0
      /\ \A j \in 1..(i - 1) : \E n \in RowsOf(t) : runs[n].item = j
      /\ \A n \in RowsOf(t) : runs[n].item <= i /\ (runs[n].item = i => thread.at = "save failed" /\ runs[n].ok)
      /\ IsFiniteSet(FailuresOf(t)) /\ thread.failed = Cardinality(FailuresOf(t))
  <2>1. thread.item # 0
    BY <1>0 DEF ThreadIsOnRecord
  <2>2. i \in 1..Len(request.items) /\ i > 0
    <3>1. thread.item \in Nat /\ thread.item <= Len(request.items) /\ Len(request.items) \in Nat
      BY BtFacts
    <3> QED BY ONLY <1>3, <2>1, <3>1
  <2> QED BY <1>0, <1>1, <1>3, <2>2 DEF ThreadIsOnRecord
<1>8. 1..(len + 1) = 1..len \cup {len + 1} /\ len + 1 \notin 1..len
  BY <1>2, <1>5, RowAppended
<1>9. \A n \in 1..Len(runs') : runs'[n].item \in 1..Len(request.items) /\ runs'[n].try <= request.attempts
  <2>1. \A n \in 1..len : runs[n].item \in 1..Len(request.items) /\ runs[n].try <= request.attempts
    BY <1>2, BtFacts
  <2>2. row.item \in 1..Len(request.items) /\ row.try <= request.attempts
    <3>1. i \in 1..Len(request.items)
      BY <1>7
    <3>2. request.attempts <= request.attempts
      <4>1. request.attempts \in Nat
        BY BtFacts
      <4> QED BY ONLY <4>1
    <3> QED BY <1>1, <1>4, <3>1, <3>2
  <2>3. \A n \in 1..Len(runs') : (n \in 1..len /\ runs'[n] = runs[n]) \/ runs'[n] = row
    BY <1>6, <1>8
  <2> QED BY <2>1, <2>2, <2>3
<1>10. OkOnce'
  <2> SUFFICES ASSUME NEW n \in 1..Len(runs'), NEW m \in 1..Len(runs'), runs'[n].ok, runs'[m].ok,
                      runs'[n].item = runs'[m].item, runs'[n].try = runs'[m].try
               PROVE  n = m
    BY DEF OkOnce
  <2>1. \A k \in 1..len : row.ok /\ runs[k].ok => runs[k].item # i \/ runs[k].try # t
    BY <1>2, <1>7 DEF RowsOf
  <2>2. (n \in 1..len \/ n = len + 1) /\ (m \in 1..len \/ m = len + 1)
    BY <1>6, <1>8
  <2>3. CASE n \in 1..len /\ m \in 1..len
    BY <1>0, <1>2, <1>6, <2>3 DEF OkOnce
  <2>4. CASE n = len + 1 /\ m = len + 1
    BY <2>4
  <2>5. CASE n \in 1..len /\ m = len + 1
    BY <1>4, <1>6, <2>1, <2>5
  <2>6. CASE n = len + 1 /\ m \in 1..len
    BY <1>4, <1>6, <2>1, <2>6
  <2> QED BY <2>2, <2>3, <2>4, <2>5, <2>6
<1>11. /\ RowsOf(request.attempts)' = RowsOf(t) \cup {len + 1}
       /\ FailuresOf(request.attempts)' = IF row.ok THEN FailuresOf(t) ELSE FailuresOf(t) \cup {len + 1}
       /\ len + 1 \notin FailuresOf(t)
  <2>1. RowsOf(request.attempts)' = {n \in 1..(len + 1) : runs'[n].try = t}
    BY <1>1, <1>6 DEF RowsOf
  <2>2. FailuresOf(request.attempts)' = {n \in 1..(len + 1) : runs'[n].try = t /\ ~runs'[n].ok}
    BY <1>1, <1>6 DEF FailuresOf
  <2>3. RowsOf(t) = {n \in 1..len : runs[n].try = t} /\ FailuresOf(t) = {n \in 1..len : runs[n].try = t /\ ~runs[n].ok}
    BY <1>2 DEF RowsOf, FailuresOf
  <2>4. \A n \in 1..len : n # len + 1 /\ runs'[n] = runs[n]
    BY <1>6, <1>8
  <2>5. RowsOf(request.attempts)' = RowsOf(t) \cup {len + 1}
    BY <1>4, <1>6, <1>8, <2>1, <2>3, <2>4
  <2>6. FailuresOf(request.attempts)' = IF row.ok THEN FailuresOf(t) ELSE FailuresOf(t) \cup {len + 1}
    <3>1. \A n : n \in 1..(len + 1) <=> n \in 1..len \/ n = len + 1
      BY <1>8
    <3>2. row.try = t /\ runs'[len + 1] = row
      BY <1>4, <1>6
    <3>3. CASE row.ok
      BY ONLY <2>2, <2>3, <2>4, <3>1, <3>2, <3>3
    <3>4. CASE ~row.ok
      BY ONLY <2>2, <2>3, <2>4, <3>1, <3>2, <3>4
    <3> QED BY <3>3, <3>4
  <2> QED BY <1>8, <2>3, <2>5, <2>6
<1>12. IsFiniteSet(FailuresOf(request.attempts)') /\ Cardinality(FailuresOf(request.attempts)') = IF row.ok THEN thread.failed ELSE thread.failed + 1
  <2>1. IsFiniteSet(FailuresOf(t)) /\ Cardinality(FailuresOf(t)) = thread.failed /\ len + 1 \notin FailuresOf(t)
    BY <1>7, <1>11
  <2>2. IsFiniteSet(FailuresOf(t) \cup {len + 1}) /\ Cardinality(FailuresOf(t) \cup {len + 1}) = thread.failed + 1
    BY <2>1, FS_AddElement
  <2> QED BY <1>11, <2>1, <2>2
<1>13. \A j \in 1..i : \E n \in RowsOf(t) \cup {len + 1} : runs'[n].item = j
  <2> SUFFICES ASSUME NEW j \in 1..i PROVE \E n \in RowsOf(t) \cup {len + 1} : runs'[n].item = j
    OBVIOUS
  <2>1. CASE j = i
    BY <1>4, <1>6, <2>1
  <2>2. CASE j # i
    <3>1. j \in 1..(i - 1)
      <4>1. i \in Nat /\ j \in 1..i /\ j # i
        BY <2>2
      <4> QED BY ONLY <4>1
    <3>2. PICK n \in RowsOf(t) : runs[n].item = j
      BY <1>7, <3>1
    <3> QED BY <1>2, <1>6, <3>2 DEF RowsOf
  <2> QED BY <2>1, <2>2
<1>14. \A n \in RowsOf(t) \cup {len + 1} : runs'[n].item <= i /\ (row.ok /\ runs'[n].item = i => runs'[n].ok)
  <2>1. ASSUME NEW n \in RowsOf(t) PROVE runs'[n].item <= i /\ (row.ok /\ runs'[n].item = i => runs'[n].ok)
    <3>1. n \in 1..len
      BY <1>2 DEF RowsOf
    <3> QED BY <1>6, <1>7, <3>1
  <2>2. runs'[len + 1].item <= i /\ (row.ok => runs'[len + 1].ok)
    <3>1. i <= i
      BY ONLY i \in Nat
    <3> QED BY <1>4, <1>6, <3>1
  <2> QED BY <2>1, <2>2
<1> QED BY <1>3, <1>6, <1>9, <1>10, <1>11, <1>12, <1>13, <1>14

\* The thread goes on to its next item, or answers after the last.
LEMMA ProceedKeeps ==
    ASSUME BtInv, thread.at # "none", thread.item # 0, NEW failed \in Nat, Proceed(failed), failed <= thread.item,
           runs' \in Seq(RunRows), \A n \in 1..Len(runs') : runs'[n].item \in 1..Len(request.items) /\ runs'[n].try <= request.attempts,
           OkOnce',
           \A i \in 1..thread.item : \E n \in RowsOf(request.attempts)' : runs'[n].item = i,
           \A n \in RowsOf(request.attempts)' : runs'[n].item <= thread.item,
           IsFiniteSet(FailuresOf(request.attempts)'), failed = Cardinality(FailuresOf(request.attempts)')
    PROVE  BtInv'
<1>1. PICK i \in Nat : i = thread.item
  BY BtFacts
<1>2. i # 0 /\ Len(request.items) \in Nat /\ i <= Len(request.items)
  BY <1>1, BtFacts
<1>3. CASE i = Len(request.items)
  <2>1. Ends(TRUE, failed)
    BY <1>1, <1>3 DEF Proceed
  <2>2. \A n \in RowsOf(request.attempts)' : n \in 1..Len(runs')
    BY DEF RowsOf
  <2>3. \A n \in RowsOf(request.attempts)' : runs'[n].item \in 1..Len(request.items)
    BY <2>2
  <2>4. \A j \in 1..Len(request.items) : \E n \in RowsOf(request.attempts)' : runs'[n].item = j
    BY <1>1, <1>3
  <2>5. {runs'[n].item : n \in RowsOf(request.attempts)'} = 1..Len(request.items)
    BY ONLY <2>3, <2>4
  <2> QED BY <2>1, <2>5, EndKeeps
<1>4. CASE i # Len(request.items)
  <2>1. /\ thread' = [at |-> "load", item |-> i + 1, failed |-> failed, score |-> NoScore]
        /\ UNCHANGED <<request, answer>>
    BY <1>1, <1>4 DEF Proceed, Idle
  <2>2. thread'.at = "load" /\ thread'.item = i + 1 /\ thread'.failed = failed
    BY <2>1
  <2>3. /\ i + 1 \in Nat /\ i + 1 # 0 /\ i + 1 <= Len(request.items) /\ (i + 1) - 1 = i
        /\ failed <= i + 1 /\ failed < i + 1
    <3>1. failed \in Nat /\ failed <= i
      BY <1>1
    <3> QED BY ONLY <1>2, <1>4, <3>1, i \in Nat
  <2>4. thread' \in [at : {"load", "engine", "save", "save failed"}, item : Nat, failed : Nat, score : Scores \cup {NoScore}]
    BY <2>1, <2>3, BtConstants
  <2>5. \A n \in RowsOf(request.attempts)' : runs'[n].item <= i + 1 /\ runs'[n].item # i + 1
    <3> SUFFICES ASSUME NEW n \in RowsOf(request.attempts)' PROVE runs'[n].item <= i + 1 /\ runs'[n].item # i + 1
      OBVIOUS
    <3>1. n \in 1..Len(runs')
      BY DEF RowsOf
    <3>2. runs'[n].item \in Nat /\ runs'[n].item <= i
      BY <1>1, <3>1
    <3> QED BY ONLY <3>2, i \in Nat
  <2>6. \A j \in 1..(thread'.item - 1) : \E n \in RowsOf(request.attempts)' : runs'[n].item = j
    <3>1. thread'.item - 1 = thread.item
      BY ONLY <1>1, <2>2, i \in Nat
    <3> QED BY <3>1
  <2>7. thread'.item # 0 /\ thread'.item <= Len(request.items) /\ thread'.failed <= thread'.item /\ thread'.failed < thread'.item
    BY <2>2, <2>3
  <2>8. \A n \in RowsOf(request.attempts)' : runs'[n].item <= thread'.item /\ runs'[n].item # thread'.item
    BY <2>2, <2>5
  <2> QED BY <2>1, <2>2, <2>4, <2>6, <2>7, <2>8, ThreadGoesOn
<1> QED BY <1>3, <1>4

LEMMA RowSaveKeeps == ASSUME BtInv, SaveRun PROVE BtInv'
<1>0. BtTypes /\ ThreadIsOnRecord /\ OkOnce
  BY DEF BtInv
<1>1. thread.at = "save" /\ thread.item # 0
  BY <1>0 DEF SaveRun, ThreadIsOnRecord
<1>2. PICK row \in RunRows : row = Row(TRUE)
  BY RowTyped
<1>3. row.item = thread.item /\ row.try = request.attempts /\ row.ok = TRUE
  BY <1>2, RowTyped
<1>4. thread.failed \in Nat /\ thread.failed <= thread.item /\ thread.failed < thread.item
  <2>1. thread.item > 0 => thread.failed < thread.item
    BY <1>0, <1>1 DEF ThreadIsOnRecord
  <2>2. thread.item \in Nat /\ thread.failed \in Nat /\ thread.failed <= thread.item
    BY BtFacts
  <2> QED BY ONLY <1>1, <2>1, <2>2
<1>5. CASE runs' = Append(runs, Row(TRUE)) /\ Proceed(thread.failed)
  <2>1. request'.attempts = request.attempts
    BY <1>0, <1>5 DEF Proceed, Ends, BtTypes
  <2>2. /\ runs' \in Seq(RunRows)
        /\ \A n \in 1..Len(runs') : runs'[n].item \in 1..Len(request.items) /\ runs'[n].try <= request.attempts
        /\ OkOnce'
        /\ \A i \in 1..thread.item : \E n \in RowsOf(request.attempts)' : runs'[n].item = i
        /\ \A n \in RowsOf(request.attempts)' : runs'[n].item <= thread.item
        /\ IsFiniteSet(FailuresOf(request.attempts)')
        /\ Cardinality(FailuresOf(request.attempts)') = thread.failed
    BY <1>1, <1>2, <1>3, <1>5, <2>1, RowAdded
  <2> QED BY <1>1, <1>4, <1>5, <2>2, ProceedKeeps
<1>6. CASE /\ runs' \in {runs, Append(runs, Row(TRUE))}
           /\ thread' = [thread EXCEPT !.at = "save failed"] /\ UNCHANGED <<request, answer>>
  <2>1. /\ thread' \in [at : {"load", "engine", "save", "save failed"}, item : Nat, failed : Nat, score : Scores \cup {NoScore}]
        /\ thread'.item = thread.item /\ thread'.failed = thread.failed /\ thread'.at = "save failed"
    BY <1>0, <1>6 DEF BtTypes
  <2>2. /\ runs' \in Seq(RunRows)
        /\ \A n \in 1..Len(runs') : runs'[n].item \in 1..Len(request.items) /\ runs'[n].try <= request.attempts
        /\ OkOnce'
        /\ \A i \in 1..(thread.item - 1) : \E n \in RowsOf(request.attempts)' : runs'[n].item = i
        /\ \A n \in RowsOf(request.attempts)' : runs'[n].item <= thread.item /\ (runs'[n].item = thread.item => runs'[n].ok)
        /\ IsFiniteSet(FailuresOf(request.attempts)')
        /\ Cardinality(FailuresOf(request.attempts)') = thread.failed
    <3>1. CASE runs' = runs
      <4>1. RowsOf(request.attempts)' = RowsOf(request.attempts) /\ FailuresOf(request.attempts)' = FailuresOf(request.attempts)
        BY <1>6, <3>1 DEF RowsOf, FailuresOf
      <4>2. runs' \in Seq(RunRows) /\ (\A n \in 1..Len(runs') : runs'[n].item \in 1..Len(request.items) /\ runs'[n].try <= request.attempts)
        BY <1>0, <3>1 DEF BtTypes
      <4>3. OkOnce'
        BY <1>0, <3>1 DEF OkOnce
      <4>4. /\ \A i \in 1..(thread.item - 1) : \E n \in RowsOf(request.attempts) : runs[n].item = i
            /\ \A n \in RowsOf(request.attempts) : runs[n].item <= thread.item /\ (runs[n].item = thread.item => runs[n].ok)
            /\ IsFiniteSet(FailuresOf(request.attempts)) /\ Cardinality(FailuresOf(request.attempts)) = thread.failed
        BY <1>0, <1>1 DEF ThreadIsOnRecord
      <4> QED BY <3>1, <4>1, <4>2, <4>3, <4>4
    <3>2. CASE runs' = Append(runs, Row(TRUE))
      <4>1. request'.attempts = request.attempts
        BY <1>6
      <4>2. /\ runs' \in Seq(RunRows)
            /\ \A n \in 1..Len(runs') : runs'[n].item \in 1..Len(request.items) /\ runs'[n].try <= request.attempts
            /\ OkOnce'
            /\ \A i \in 1..thread.item : \E n \in RowsOf(request.attempts)' : runs'[n].item = i
            /\ \A n \in RowsOf(request.attempts)' : runs'[n].item <= thread.item /\ (runs'[n].item = thread.item => runs'[n].ok)
            /\ IsFiniteSet(FailuresOf(request.attempts)')
            /\ Cardinality(FailuresOf(request.attempts)') = thread.failed
        BY <1>1, <1>2, <1>3, <3>2, <4>1, RowAdded
      <4>3. 1..(thread.item - 1) \subseteq 1..thread.item
        <5>1. thread.item \in Nat
          BY BtFacts
        <5> QED BY ONLY <5>1
      <4> QED BY <4>2, <4>3
    <3> QED BY <1>6, <3>1, <3>2
  <2>3. thread.item <= Len(request.items)
    BY BtFacts
  <2>4. UNCHANGED <<request, answer>> /\ thread.at # "none"
    BY <1>1, <1>6
  <2>5. /\ thread'.item # 0 /\ thread'.item <= Len(request.items) /\ thread'.failed <= thread'.item /\ thread'.failed < thread'.item
        /\ thread'.failed = Cardinality(FailuresOf(request.attempts)')
        /\ \A i \in 1..(thread'.item - 1) : \E n \in RowsOf(request.attempts)' : runs'[n].item = i
        /\ \A n \in RowsOf(request.attempts)' : runs'[n].item <= thread'.item /\ (runs'[n].item = thread'.item => runs'[n].ok)
    BY <1>1, <1>4, <2>1, <2>2, <2>3
  <2> QED BY <2>1, <2>2, <2>4, <2>5, ThreadGoesOn
<1> QED BY <1>5, <1>6 DEF SaveRun

LEMMA SaveFailedKeeps == ASSUME BtInv, SaveFailedRun PROVE BtInv'
<1>0. BtTypes /\ ThreadIsOnRecord /\ OkOnce
  BY DEF BtInv
<1>1. thread.at = "save failed" /\ thread.item # 0
  BY <1>0 DEF SaveFailedRun, ThreadIsOnRecord
<1>2. PICK row \in RunRows : row = Row(FALSE)
  BY RowTyped
<1>3. row.item = thread.item /\ row.try = request.attempts /\ ~row.ok
  BY <1>2, RowTyped
<1>4. thread.failed + 1 \in Nat /\ thread.failed + 1 <= thread.item
  <2>1. (thread.item > 0 => thread.failed < thread.item) /\ thread.item # 0
    BY <1>0, <1>1 DEF ThreadIsOnRecord
  <2>2. thread.item \in Nat /\ thread.failed \in Nat /\ thread.failed <= thread.item
    BY BtFacts
  <2> QED BY ONLY <2>1, <2>2
<1>5. CASE runs' = Append(runs, Row(FALSE)) /\ (Ends(FALSE, 0) \/ Proceed(thread.failed + 1))
  <2>1. request'.attempts = request.attempts
    BY <1>0, <1>5 DEF Proceed, Ends, BtTypes
  <2>2. /\ runs' \in Seq(RunRows)
        /\ \A n \in 1..Len(runs') : runs'[n].item \in 1..Len(request.items) /\ runs'[n].try <= request.attempts
        /\ OkOnce'
        /\ \A i \in 1..thread.item : \E n \in RowsOf(request.attempts)' : runs'[n].item = i
        /\ \A n \in RowsOf(request.attempts)' : runs'[n].item <= thread.item
        /\ IsFiniteSet(FailuresOf(request.attempts)')
        /\ Cardinality(FailuresOf(request.attempts)') = thread.failed + 1
    BY <1>1, <1>2, <1>3, <1>5, <2>1, RowAdded
  <2>3. CASE Ends(FALSE, 0)
    BY <1>1, <2>2, <2>3, EndKeeps
  <2>4. CASE Proceed(thread.failed + 1)
    BY <1>1, <1>4, <2>2, <2>4, ProceedKeeps
  <2> QED BY <1>5, <2>3, <2>4
<1>6. CASE UNCHANGED runs /\ Ends(FALSE, 0)
  <2>1. /\ runs' \in Seq(RunRows) /\ OkOnce'
        /\ \A n \in 1..Len(runs') : runs'[n].item \in 1..Len(request.items) /\ runs'[n].try <= request.attempts
    BY <1>0, <1>6 DEF BtTypes, OkOnce
  <2> QED BY <1>1, <1>6, <2>1, EndKeeps
<1> QED BY <1>5, <1>6 DEF SaveFailedRun

\* The worker dies, or ARQ gives the job up: the rows stay.
LEMMA GivenUpKeeps == ASSUME BtInv, WorkerDies \/ JobTimesOut PROVE BtInv'
<1>0. BtTypes /\ ThreadIsOnRecord /\ JobWaits /\ OkOnce /\ SuccessIsCounted
  BY DEF BtInv
<1>1. PICK job \in {"queued", "answered"} :
          /\ request' = [request EXCEPT !.job = job] /\ UNCHANGED <<runs, answer>>
          /\ job = "queued" => request.attempts < MaxAttempts
          /\ \/ thread' = [at |-> "none", item |-> 0, failed |-> 0, score |-> NoScore]
             \/ job = "answered" /\ UNCHANGED thread /\ thread.at # "none"
  BY DEF WorkerDies, JobTimesOut, Idle
<1>2. ~answer.success
  BY <1>0 DEF WorkerDies, JobTimesOut, SuccessIsCounted, ThreadIsOnRecord
<1>3. /\ request' \in [kind : {"none", "single", "batch", "optimize"}, items : JobItems,
                       job : {"none", "queued", "running", "answered"}, attempts : 0..MaxAttempts]
      /\ request'.job = job /\ request'.attempts = request.attempts /\ request'.items = request.items
  BY <1>0, <1>1 DEF BtTypes
<1>4. /\ thread' \in [at : {"none", "load", "engine", "save", "save failed"}, item : Nat, failed : Nat, score : Scores \cup {NoScore}]
      /\ thread'.item <= Len(request.items) /\ thread'.failed <= thread'.item
  <2>1. CASE thread' = thread
    BY <1>0, <2>1 DEF BtTypes
  <2>2. CASE thread' = [at |-> "none", item |-> 0, failed |-> 0, score |-> NoScore]
    BY <2>2, BtConstants, BtFacts
  <2> QED BY <1>1, <2>1, <2>2
<1>5. BtTypes'
  BY <1>0, <1>1, <1>3, <1>4 DEF BtTypes
<1>6. ThreadIsOnRecord'
  <2>1. CASE thread' = thread /\ job = "answered" /\ thread.at # "none"
    <3>1. RowsOf(request.attempts)' = RowsOf(request.attempts) /\ FailuresOf(request.attempts)' = FailuresOf(request.attempts)
      BY <1>1, <1>3 DEF RowsOf, FailuresOf
    <3>2. /\ (thread.item = 0 => thread.at = "load" /\ Len(request.items) = 0)
          /\ (thread.item > 0 => thread.failed < thread.item)
          /\ \A i \in 1..(thread.item - 1) : \E n \in RowsOf(request.attempts) : runs[n].item = i
          /\ \A n \in RowsOf(request.attempts) :
                 /\ runs[n].item <= thread.item
                 /\ runs[n].item = thread.item => thread.at = "save failed" /\ runs[n].ok
          /\ IsFiniteSet(FailuresOf(request.attempts)) /\ thread.failed = Cardinality(FailuresOf(request.attempts))
      BY ONLY <1>0, <2>1 DEF ThreadIsOnRecord
    <3>3. thread' = thread /\ runs' = runs /\ request'.items = request.items /\ request'.job = "answered" /\ ~answer'.success
      BY <1>1, <1>2, <1>3, <2>1
    <3>4. /\ (thread'.item = 0 => thread'.at = "load" /\ Len(request'.items) = 0)
          /\ (thread'.item > 0 => thread'.failed < thread'.item)
          /\ \A i \in 1..(thread'.item - 1) : \E n \in RowsOf(request.attempts)' : runs'[n].item = i
          /\ \A n \in RowsOf(request.attempts)' :
                 /\ runs'[n].item <= thread'.item
                 /\ runs'[n].item = thread'.item => thread'.at = "save failed" /\ runs'[n].ok
          /\ IsFiniteSet(FailuresOf(request.attempts)') /\ thread'.failed = Cardinality(FailuresOf(request.attempts)')
      BY ONLY <3>1, <3>2, <3>3
    <3> QED BY ONLY <3>3, <3>4 DEF ThreadIsOnRecord
  <2>2. CASE thread'.at = "none"
    BY <2>2 DEF ThreadIsOnRecord
  <2> QED BY <1>1, <2>1, <2>2
<1>7. JobWaits' /\ OkOnce' /\ SuccessIsCounted'
  <2>1. JobWaits'
    BY <1>1, <1>2, <1>3 DEF JobWaits
  <2>2. OkOnce' /\ SuccessIsCounted'
    BY <1>0, <1>1, <1>2 DEF OkOnce, SuccessIsCounted
  <2> QED BY <2>1, <2>2
<1> QED BY <1>5, <1>6, <1>7 DEF BtInv

LEMMA BtInductive == BtInv /\ [BtNext]_btVars => BtInv'
<1> SUFFICES ASSUME BtInv, [BtNext]_btVars PROVE BtInv'
  OBVIOUS
<1>1. CASE EnqueueSingle \/ EnqueueBatch \/ EnqueueOptimize
  BY <1>1, EnqueueKeeps
<1>2. CASE BtStep
  BY <1>2, RunStartKeeps, WorkKeeps, RowSaveKeeps, SaveFailedKeeps DEF BtStep
<1>3. CASE WorkerDies \/ JobTimesOut
  BY <1>3, GivenUpKeeps
<1>4. CASE UNCHANGED btVars
  <2>1. UNCHANGED <<request, thread, runs, answer>>
    BY <1>4 DEF btVars
  <2>2. BtTypes' = BtTypes
    BY <2>1 DEF BtTypes
  <2>3. ThreadIsOnRecord' = ThreadIsOnRecord /\ SuccessIsCounted' = SuccessIsCounted
    BY <2>1 DEF ThreadIsOnRecord, SuccessIsCounted, RowsOf, FailuresOf
  <2>4. JobWaits' = JobWaits /\ OkOnce' = OkOnce
    BY <2>1 DEF JobWaits, OkOnce
  <2> QED BY <2>2, <2>3, <2>4 DEF BtInv
<1> QED BY <1>1, <1>2, <1>3, <1>4 DEF BtNext

LEMMA RecordImplied == BtInv => SuccessIsOnRecord
<1> SUFFICES ASSUME BtInv PROVE SuccessIsOnRecord
  OBVIOUS
<1>0. BtTypes /\ OkOnce /\ SuccessIsCounted
  BY DEF BtInv
<1>1. DOMAIN runs = 1..Len(runs) /\ DOMAIN request.items = 1..Len(request.items)
  BY <1>0, BtFacts, LenProperties, OrdersAreLists DEF BtTypes
<1>2. BtTypeOK
  <2>1. thread.item \in 0..Len(request.items) /\ thread.failed \in 0..Len(request.items)
    <3>1. /\ thread.item \in Nat /\ thread.failed \in Nat /\ Len(request.items) \in Nat
          /\ thread.item <= Len(request.items) /\ thread.failed <= thread.item
      BY BtFacts
    <3> QED BY ONLY <3>1
  <2>2. \A r \in Range(runs) : r.item \in DOMAIN request.items /\ r.ok \in BOOLEAN
    <3>1. \A n \in 1..Len(runs) : runs[n].item \in 1..Len(request.items)
      BY BtFacts
    <3>2. \A n \in 1..Len(runs) : runs[n].ok \in BOOLEAN
      BY BtFacts DEF RunRows
    <3> QED BY <1>1, <3>1, <3>2 DEF Range
  <2>3. /\ request.kind \in {"none", "single", "batch", "optimize"} /\ request.job \in {"none", "queued", "running", "answered"}
        /\ request.attempts \in 0..MaxAttempts
        /\ thread.at \in {"none", "load", "engine", "save", "save failed"} /\ answer.success \in BOOLEAN
    BY <1>0 DEF BtTypes
  <2> QED BY <2>1, <2>2, <2>3 DEF BtTypeOK
<1>3. SuccessIsComplete
  BY <1>0, <1>1 DEF SuccessIsComplete, SuccessIsCounted, RowsOf, FailuresOf
<1>4. SuccessSavedOnce
  <2> SUFFICES ASSUME NEW i \in DOMAIN request.items, NEW try \in 1..MaxAttempts
               PROVE  Cardinality({n \in DOMAIN runs : runs[n].item = i /\ runs[n].try = try /\ runs[n].ok}) <= 1
    BY DEF SuccessSavedOnce
  <2> DEFINE S == {n \in DOMAIN runs : runs[n].item = i /\ runs[n].try = try /\ runs[n].ok}
  <2>1. \A n, m \in S : n = m
    BY <1>0, <1>1 DEF OkOnce
  <2>2. CASE S = {}
    <3>1. Cardinality(S) = 0
      BY <2>2, FS_EmptySet
    <3> QED BY <3>1
  <2>3. CASE S # {}
    <3>1. PICK n : S = {n}
      BY <2>1, <2>3
    <3>2. Cardinality(S) = 1
      BY <3>1, FS_Singleton
    <3> QED BY <3>2
  <2> QED BY <2>2, <2>3
<1> QED BY <1>2, <1>3, <1>4 DEF SuccessIsOnRecord

\* A job answered with success is on record: the attempt that answered left a
\* row of every item and counted its failed ones, and no item of an attempt
\* has succeeded twice, whatever worker died and whatever save raised.
THEOREM BacktestsOnRecord == BtSpec => []SuccessIsOnRecord
<1>1. BtInit => BtInv
  BY BtStarts
<1>2. BtInv /\ [BtNext]_btVars => BtInv'
  BY BtInductive
<1>3. BtInv => SuccessIsOnRecord
  BY RecordImplied
<1> QED BY <1>1, <1>2, <1>3, PTL DEF BtSpec

-----------------------------------------------------------------------------
(* Backtests: the best is the best. What is stored of a success is what is  *)
(* shown of the engine's value (ScoresAreShown), and on one scale showing   *)
(* keeps the order.                                                         *)

\* What is stored of a success is what is shown of the engine's value.
ScoresAreShown == \A n \in 1..Len(runs) : runs[n].ok => runs[n].score = Shown(runs[n].engine)

\* Values on one scale, fractions or percents, and none as bad as a missing one.
OneScale ==
    /\ \/ \A v \in Scores : v <= Fraction /\ -v <= Fraction
       \/ \A v \in Scores : ~(v <= Fraction /\ -v <= Fraction)
    /\ \A v \in Scores : v > -1000

\* On one scale the values shown are in the order of the engine's.
LEMMA ShownKeepsOrder ==
    ASSUME OneScale, NEW v \in Scores, NEW w \in Scores
    PROVE  /\ Shown(v) \in Int /\ Shown(v) > -100000
           /\ Shown(v) <= Shown(w) => v <= w
<1>1. v \in Int /\ w \in Int /\ v # NoScore /\ w # NoScore /\ Fraction \in Nat
  BY BacktestAssumption
<1>2. Shown(v) = IF v <= Fraction /\ -v <= Fraction THEN v * 100 ELSE v
  BY <1>1 DEF Shown
<1>3. Shown(w) = IF w <= Fraction /\ -w <= Fraction THEN w * 100 ELSE w
  BY <1>1 DEF Shown
<1>4. v > -1000 /\ ((v <= Fraction /\ -v <= Fraction) <=> (w <= Fraction /\ -w <= Fraction))
  BY DEF OneScale
<1> QED BY ONLY <1>1, <1>2, <1>3, <1>4

LEMMA RowKeepsScores ==
    ASSUME BtInv, ScoresAreShown, NEW ok \in BOOLEAN, runs' \in {runs, Append(runs, Row(ok))}
    PROVE  ScoresAreShown'
<1>1. CASE UNCHANGED runs
  BY <1>1 DEF ScoresAreShown
<1>2. CASE runs' = Append(runs, Row(ok))
  <2>1. PICK row \in RunRows : row = Row(ok)
    BY RowTyped
  <2>2. row.ok => row.score = Shown(row.engine)
    <3>1. row.ok = ok
      BY <2>1, RowTyped
    <3> QED BY <2>1, <3>1 DEF Row
  <2>3. PICK len \in Nat : len = Len(runs)
    BY BtFacts
  <2>4. runs \in Seq(RunRows)
    BY DEF BtInv, BtTypes
  <2>5. /\ Len(runs') = len + 1 /\ runs'[len + 1] = row
        /\ \A n \in 1..len : runs'[n] = runs[n]
        /\ 1..(len + 1) = 1..len \cup {len + 1}
    BY <1>2, <2>1, <2>3, <2>4, RowAppended
  <2>6. \A n \in 1..len : runs[n].ok => runs[n].score = Shown(runs[n].engine)
    BY <2>3 DEF ScoresAreShown
  <2>7. \A n \in 1..(len + 1) : runs'[n].ok => runs'[n].score = Shown(runs'[n].engine)
    BY <2>2, <2>5, <2>6
  <2> QED BY <2>5, <2>7 DEF ScoresAreShown, Shown
<1> QED BY <1>1, <1>2

LEMMA ScoresKept == BtInv /\ ScoresAreShown /\ [BtNext]_btVars => ScoresAreShown'
<1> SUFFICES ASSUME BtInv, ScoresAreShown, [BtNext]_btVars PROVE ScoresAreShown'
  OBVIOUS
<1>1. CASE SaveRun
  <2>1. runs' \in {runs, Append(runs, Row(TRUE))}
    BY <1>1 DEF SaveRun
  <2> QED BY <2>1, RowKeepsScores
<1>2. CASE SaveFailedRun
  <2>1. runs' \in {runs, Append(runs, Row(FALSE))}
    BY <1>2 DEF SaveFailedRun
  <2> QED BY <2>1, RowKeepsScores
<1>3. CASE EnqueueSingle \/ EnqueueBatch \/ EnqueueOptimize \/ StartJob \/ NothingToRun \/ LoadBars \/ RunEngine \/ WorkerDies
           \/ JobTimesOut \/ UNCHANGED btVars
  <2>1. UNCHANGED runs
    BY <1>3 DEF EnqueueSingle, EnqueueBatch, EnqueueOptimize, Accept, StartJob, NothingToRun, LoadBars, RunEngine, WorkerDies, JobTimesOut, btVars
  <2> QED BY <2>1 DEF ScoresAreShown
<1> QED BY <1>1, <1>2, <1>3 DEF BtNext, BtStep

\* When every row of the batch is read, the best is chosen among all of them.
LEMMA BestOfTheRead == ASSUME OneScale, BtInv, ScoresAreShown, Len(runs) <= ReadLimit PROVE BestIsBest
<1>1. runs \in Seq(RunRows) /\ Len(runs) \in Nat /\ DOMAIN runs = 1..Len(runs)
  BY LenProperties, BtFacts DEF BtInv, BtTypes
<1>2. ReadRuns = runs
  <2>1. PICK len \in Nat : len = Len(runs)
    BY <1>1
  <2>2. ReadLimit \in Nat /\ len <= ReadLimit
    BY <2>1, BacktestAssumption
  <2>3. AtLeast(1, len - ReadLimit + 1) = 1
    BY <2>2 DEF AtLeast
  <2>4. ReadRuns = SubSeq(runs, 1, Len(runs))
    BY <2>1, <2>3 DEF ReadRuns
  <2> QED BY <1>1, <2>4, SubSeqFull
<1> SUFFICES ASSUME NEW r \in Range(runs), NEW b \in Summary, r.ok, r.engine /= NoScore
             PROVE  b.engine /= NoScore /\ r.engine <= b.engine
  BY DEF BestIsBest
<1>3. b \in Range(runs) /\ b.ok /\ Worth(r) <= Worth(b)
  BY <1>2 DEF Summary
<1>4. ASSUME NEW o \in Range(runs), o.ok
      PROVE  o.engine \in Scores \cup {NoScore} /\ o.score = Shown(o.engine)
  <2>1. PICK n \in 1..Len(runs) : o = runs[n]
    BY <1>1 DEF Range
  <2>2. runs[n] \in RunRows
    BY <1>1, ElementOfSeq
  <2> QED BY <1>4, <2>1, <2>2 DEF RunRows, ScoresAreShown
<1>5. PICK v \in Scores : v = r.engine /\ r.score = Shown(v)
  BY <1>4
<1>6. Shown(v) \in Int /\ Shown(v) > -100000
  BY ShownKeepsOrder
<1>7. Worth(r) = Shown(v)
  <2>1. Shown(v) # NoScore
    BY <1>6, BacktestAssumption
  <2> QED BY <1>5, <2>1 DEF Worth
<1>8. b.engine /= NoScore
  <2> SUFFICES ASSUME b.engine = NoScore PROVE FALSE
    OBVIOUS
  <2>1. b.score = NoScore
    BY <1>3, <1>4 DEF Shown
  <2>2. Worth(b) = -100000
    BY <2>1 DEF Worth
  <2> QED BY <1>3, <1>6, <1>7, <2>2
<1>9. PICK w \in Scores : w = b.engine /\ b.score = Shown(w)
  BY <1>3, <1>4, <1>8
<1>10. Shown(w) \in Int /\ (Shown(v) <= Shown(w) => v <= w)
  BY ShownKeepsOrder
<1>11. Worth(b) = Shown(w)
  <2>1. Shown(w) # NoScore
    BY <1>10, BacktestAssumption
  <2> QED BY <1>9, <2>1 DEF Worth
<1> QED BY <1>3, <1>5, <1>7, <1>8, <1>9, <1>10, <1>11

\* An optimisation is summarised by the best that ran (BestIsBest), as long as
\* the rows of its batch are all read (repository.py list_runs reads 200) and
\* its values are of one scale (backtest_vnpy.py rescales those that look like
\* fractions).
THEOREM BestIsShown == OneScale => (BtSpec => [](Len(runs) <= ReadLimit => BestIsBest))
<1> SUFFICES ASSUME OneScale PROVE BtSpec => [](Len(runs) <= ReadLimit => BestIsBest)
  OBVIOUS
<1>1. BtInit => BtInv /\ ScoresAreShown
  <2>1. BtInit => ScoresAreShown
    BY DEF BtInit, ScoresAreShown
  <2> QED BY <2>1, BtStarts
<1>2. (BtInv /\ ScoresAreShown) /\ [BtNext]_btVars => (BtInv /\ ScoresAreShown)'
  BY BtInductive, ScoresKept
<1>3. BtInv /\ ScoresAreShown => (Len(runs) <= ReadLimit => BestIsBest)
  BY BestOfTheRead
<1> QED BY <1>1, <1>2, <1>3, PTL DEF BtSpec

-----------------------------------------------------------------------------
(* JobAnswers: what is told of a job is so. Every job keeps a result as     *)
(* long as it is complete (JobIsSound), what a reader has read stays so     *)
(* until it answers (ReaderIsSound), and the index has the newest of all    *)
(* jobs ever in it, whoever trims it (IndexHolds).                          *)

Statuses == {"not_found", "queued", "in_progress", "complete"}
Tellings == {"none", "pending", "running", "success", "failed", "no such job", "404"}
Refs == (AppJobs \cup {0}) \X Nat

JaTypes ==
    /\ enqueuing \in [AppJobs -> {"no", "queued", "listed", "described", "accepted"}]
    /\ arq \in [AppJobs -> [status : Statuses, tries : Nat]]
    /\ results \in [AppJobs -> [kind : {"none", "ok", "failed"}, ref : Refs]]
    /\ work \in [AppJobs -> {"idle", "screen", "save", "saved", "failed"}]
    /\ \A r \in runRows : r[1] \in AppJobs /\ r[2] \in 1..JobTries[r[1]]
    /\ index \subseteq AppJobs /\ metas \subseteq AppJobs /\ indexed \subseteq AppJobs
    /\ reader \in [at : {"idle", "meta", "status", "told"}, job : AppJobs \cup {0}, owned : BOOLEAN, meta : BOOLEAN,
                   status : Statuses \cup {"none"}, answer : Tellings, ref : Refs]

\* What is kept of one job: a result is of a job that is complete, a row is
\* stored before it is named, a job that was accepted is described.
JobIsSound(j) ==
    /\ arq[j].tries \in 0..JobTries[j]
    /\ work[j] # "idle" => arq[j].tries \in 1..JobTries[j]
    /\ work[j] = "saved" => <<j, arq[j].tries>> \in runRows
    /\ arq[j].status = "complete" => results[j].kind # "none"
    /\ arq[j].status # "complete" => results[j] = NoResult
    /\ results[j].kind = "ok" => results[j].ref \in runRows
    /\ enqueuing[j] = "no" => arq[j].status = "not_found"
    /\ enqueuing[j] \in {"described", "accepted"} => j \in metas

\* What has been read stays so until the answer is told, and after it.
ReaderIsSound ==
    /\ reader.at # "idle" => reader.job \in AppJobs
    /\ reader.at \in {"meta", "status"} /\ reader.owned => reader.meta
    /\ reader.at = "status" => reader.status \in Statuses
    /\ reader.at = "status" /\ reader.status = "complete" => arq[reader.job].status = "complete"
    /\ reader.at = "told" /\ reader.answer = "failed" => results[reader.job].kind = "failed"
    /\ reader.at = "told" /\ reader.answer = "success" => reader.ref \in runRows
    /\ reader.at = "told" /\ reader.answer = "404" => ~reader.owned

\* The index has at least the newest of all that were ever in it.
IndexHolds == index \subseteq indexed /\ Newest(indexed, IndexMax) \subseteq index

JaInv == JaTypes /\ (\A j \in AppJobs : JobIsSound(j)) /\ ReaderIsSound /\ IndexHolds

-----------------------------------------------------------------------------
\* The newest of a part that has the newest of the whole are the newest of the whole.
LEMMA NewestOfPart ==
    ASSUME NEW M \in Nat, NEW b \in Nat, NEW S, NEW T, S \subseteq 1..b, T \subseteq S, Newest(S, M) \subseteq T
    PROVE  Newest(T, M) = Newest(S, M)
<1> DEFINE From(U, j) == {k \in U : k >= j}
<1>0. \A U, j : U \subseteq S => IsFiniteSet(From(U, j)) /\ Cardinality(From(U, j)) \in Nat
  <2>1. IsFiniteSet(1..b)
    BY FS_Interval
  <2> QED BY <2>1, FS_Subset, FS_CardinalityType
<1>1. ASSUME NEW j \in Newest(S, M) PROVE j \in Newest(T, M)
  <2>1. j \in T /\ j \in S /\ Cardinality(From(S, j)) <= M
    BY <1>1 DEF Newest
  <2>2. From(T, j) \subseteq From(S, j)
    OBVIOUS
  <2>3. Cardinality(From(T, j)) <= Cardinality(From(S, j))
    BY <1>0, <2>2, FS_Subset
  <2>4. Cardinality(From(T, j)) <= M
    <3>1. Cardinality(From(T, j)) \in Nat /\ Cardinality(From(S, j)) \in Nat
      BY <1>0
    <3>2. Cardinality(From(S, j)) <= M
      BY <2>1
    <3> HIDE DEF From
    <3> QED BY ONLY <2>3, <3>1, <3>2, M \in Nat
  <2> QED BY <2>1, <2>4 DEF Newest
<1>2. ASSUME NEW j \in Newest(T, M) PROVE j \in Newest(S, M)
  <2>1. j \in T /\ j \in S /\ Cardinality(From(T, j)) <= M
    BY <1>2 DEF Newest
  <2> SUFFICES ASSUME ~(Cardinality(From(S, j)) <= M) PROVE FALSE
    BY <2>1 DEF Newest
  <2> DEFINE Old == {k \in S : ~(Cardinality(From(S, k)) <= M)}
  <2>2. Old \subseteq Nat /\ j \in Old /\ \A k \in Old : k <= b
    <3>1. \A k \in S : k \in Nat /\ k <= b
      OBVIOUS
    <3>2. j \in Old /\ Old \subseteq S
      BY <2>1
    <3> QED BY <3>1, <3>2
  <2>3. PICK m \in Old : \A k \in Old : k <= m
    <3> HIDE DEF Old
    <3>1. Old # {}
      BY <2>2
    <3> QED BY <2>2, <3>1, GreatestNumber
  <2> DEFINE Later == {k \in S : k > m}
  <2>4. Later \subseteq Newest(S, M)
    <3> SUFFICES ASSUME NEW k \in S, k > m PROVE k \in Newest(S, M)
      OBVIOUS
    <3>1. k \in Nat /\ m \in Nat
      OBVIOUS
    <3>2. k \notin Old
      BY <2>3, <3>1
    <3> QED BY <3>2 DEF Newest
  <2>5. m \in S /\ ~(Cardinality(From(S, m)) <= M) /\ m \in Nat /\ j \in Nat /\ j <= m
    BY <2>1, <2>2, <2>3
  <2>6. From(S, m) = Later \cup {m} /\ m \notin Later
    <3>1. \A k \in S : k \in Nat
      OBVIOUS
    <3>2. m \in S
      BY <2>5
    <3> QED BY ONLY <3>1, <3>2
  <2>7. Later \cup {j} \subseteq From(T, j) /\ j \notin Later /\ Later \subseteq S
    <3>1. Later \subseteq T
      BY <2>4
    <3>2. (\A k \in S : k \in Nat) /\ T \subseteq S
      OBVIOUS
    <3>3. j \in T
      BY <2>1
    <3>4. m \in Nat /\ j \in Nat /\ j <= m
      BY <2>5
    <3>5. \A l \in S : l > m => l >= j
      BY ONLY <3>2, <3>4
    <3>6. j >= j /\ ~(j > m)
      BY ONLY <3>4
    <3>7. Later \subseteq From(T, j)
      BY <3>1, <3>5
    <3>8. j \in From(T, j)
      BY <3>3, <3>6
    <3> QED BY <3>6, <3>7, <3>8
  <2>8. IsFiniteSet(Later) /\ Cardinality(Later) \in Nat
    <3>1. IsFiniteSet(From(T, j))
      BY <1>0
    <3> QED BY <2>7, <3>1, FS_Subset, FS_CardinalityType
  <2>9. Cardinality(From(S, m)) = Cardinality(Later) + 1
    <3> HIDE DEF Later
    <3> QED BY <2>6, <2>8, FS_AddElement
  <2>10. Cardinality(Later \cup {j}) = Cardinality(Later) + 1
    <3> HIDE DEF Later
    <3> QED BY <2>7, <2>8, FS_AddElement
  <2>11. Cardinality(Later \cup {j}) <= Cardinality(From(T, j))
    <3> HIDE DEF Later
    <3>1. IsFiniteSet(From(T, j))
      BY <1>0
    <3> QED BY <2>7, <3>1, FS_Subset
  <2>12. PICK n \in Nat : n = Cardinality(Later)
    BY <2>8
  <2>13. PICK c \in Nat : c = Cardinality(From(T, j))
    BY <1>0
  <2>14. c <= M /\ n + 1 <= c /\ ~(n + 1 <= M)
    BY <2>1, <2>5, <2>9, <2>10, <2>11, <2>12, <2>13
  <2> QED BY ONLY <2>14, n \in Nat, c \in Nat, M \in Nat
<1> QED BY <1>1, <1>2

\* A job more leaves none among the newest that was not.
LEMMA NewestOfMore ==
    ASSUME NEW M \in Nat, NEW b \in Nat, NEW S, S \subseteq 1..b, NEW j \in 1..b
    PROVE  Newest(S \cup {j}, M) \subseteq Newest(S, M) \cup {j}
<1> SUFFICES ASSUME NEW k \in Newest(S \cup {j}, M), k # j PROVE k \in Newest(S, M)
  OBVIOUS
<1> DEFINE From(U) == {n \in U : n >= k}
<1>1. k \in S /\ Cardinality(From(S \cup {j})) <= M
  BY DEF Newest
<1>2. From(S) \subseteq From(S \cup {j}) /\ From(S \cup {j}) \subseteq 1..b
  OBVIOUS
<1>3. IsFiniteSet(From(S \cup {j}))
  <2>1. IsFiniteSet(1..b)
    BY FS_Interval
  <2> QED BY <1>2, <2>1, FS_Subset
<1>4. /\ Cardinality(From(S)) <= Cardinality(From(S \cup {j}))
      /\ Cardinality(From(S)) \in Nat /\ Cardinality(From(S \cup {j})) \in Nat
  BY <1>2, <1>3, FS_Subset, FS_CardinalityType
<1>5. Cardinality(From(S)) <= M
  BY ONLY <1>1, <1>4, M \in Nat
<1> QED BY <1>1, <1>5 DEF Newest

-----------------------------------------------------------------------------
LEMMA JaStarts == AnswersInit => JaInv
<1> SUFFICES ASSUME AnswersInit PROVE JaInv
  OBVIOUS
<1>1. /\ enqueuing = [j \in AppJobs |-> "no"] /\ arq = [j \in AppJobs |-> [status |-> "not_found", tries |-> 0]]
      /\ results = [j \in AppJobs |-> [kind |-> "none", ref |-> <<0, 0>>]] /\ work = [j \in AppJobs |-> "idle"]
      /\ runRows = {} /\ index = {} /\ metas = {} /\ indexed = {}
      /\ reader = [at |-> "idle", job |-> 0, owned |-> FALSE, meta |-> FALSE, status |-> "none", answer |-> "none", ref |-> <<0, 0>>]
  BY DEF AnswersInit, NoResult, NotReading
<1>2. <<0, 0>> \in Refs
  BY DEF Refs
<1>3. JaTypes
  BY <1>1, <1>2 DEF JaTypes, Statuses, Tellings
<1>4. ASSUME NEW j \in AppJobs PROVE JobIsSound(j)
  <2>1. 0 \in 0..JobTries[j]
    BY AnswersAssumption DEF AppJobs
  <2> QED BY <1>1, <2>1 DEF JobIsSound, NoResult
<1>5. ReaderIsSound
  BY <1>1 DEF ReaderIsSound
<1>6. IndexHolds
  BY <1>1 DEF IndexHolds, Newest
<1> QED BY <1>3, <1>4, <1>5, <1>6 DEF JaInv

\* The enqueuing request: nothing of the job itself changes but that it is queued.
LEMMA EnqueueKeepsJa ==
    ASSUME JaInv, NEW j \in AppJobs, EnqueueAppJob(j) \/ ListJob(j) \/ DescribeJob(j) \/ TrimIndex(j)
    PROVE  JaInv'
<1>0. JaTypes /\ (\A k \in AppJobs : JobIsSound(k)) /\ ReaderIsSound /\ IndexHolds
  BY DEF JaInv
<1>1. UNCHANGED <<results, work, runRows, reader>>
  BY DEF EnqueueAppJob, ListJob, DescribeJob, TrimIndex
<1>2. CASE EnqueueAppJob(j)
  <2>1. /\ enqueuing[j] = "no" /\ enqueuing' = [enqueuing EXCEPT ![j] = "queued"]
        /\ arq' = [arq EXCEPT ![j] = [arq[j] EXCEPT !.status = "queued"]]
        /\ UNCHANGED <<results, work, runRows, index, metas, reader, indexed>>
    BY <1>2 DEF EnqueueAppJob
  <2>2. arq[j].status = "not_found"
    BY <1>0, <2>1 DEF JobIsSound
  <2>3. arq'[j].status = "queued" /\ arq'[j].tries = arq[j].tries /\ enqueuing'[j] = "queued"
        /\ \A k \in AppJobs : k # j => arq'[k] = arq[k] /\ enqueuing'[k] = enqueuing[k]
    BY <1>0, <2>1 DEF JaTypes
  <2>4. JaTypes'
    BY <1>0, <2>1 DEF JaTypes, Statuses
  <2>5. ASSUME NEW k \in AppJobs PROVE JobIsSound(k)'
    <3>1. JobIsSound(k)
      BY <1>0
    <3>2. CASE k = j
      BY <2>1, <2>2, <2>3, <3>1, <3>2 DEF JobIsSound
    <3>3. CASE k # j
      BY <2>1, <2>3, <3>1, <3>3 DEF JobIsSound
    <3> QED BY <3>2, <3>3
  <2>6. ReaderIsSound'
    <3>1. reader.job \in AppJobs /\ arq[reader.job].status = "complete" => arq'[reader.job].status = "complete"
      BY <2>2, <2>3
    <3> QED BY <1>0, <2>1, <3>1 DEF ReaderIsSound
  <2>7. IndexHolds'
    BY <1>0, <2>1 DEF IndexHolds
  <2> QED BY <2>4, <2>5, <2>6, <2>7 DEF JaInv
<1>3. CASE ListJob(j) \/ DescribeJob(j) \/ TrimIndex(j)
  <2>1. /\ UNCHANGED arq /\ metas' \in {metas, metas \cup {j}} /\ enqueuing[j] # "no"
        /\ \E e \in {"listed", "described", "accepted"} :
               /\ enqueuing' = [enqueuing EXCEPT ![j] = e]
               /\ e = "described" => metas' = metas \cup {j}
               /\ e = "accepted" => enqueuing[j] = "described"
    BY <1>3 DEF ListJob, DescribeJob, TrimIndex, MetasLeft
  <2>2. ASSUME NEW k \in AppJobs PROVE JobIsSound(k)'
    <3>1. JobIsSound(k) /\ enqueuing \in [AppJobs -> {"no", "queued", "listed", "described", "accepted"}]
      BY <1>0 DEF JaTypes
    <3>2. enqueuing'[k] = "no" => enqueuing[k] = "no"
      BY <2>1, <3>1
    <3>3. enqueuing'[k] \in {"described", "accepted"} => k \in metas'
      <4>1. CASE k = j
        BY <2>1, <3>1, <4>1 DEF JobIsSound
      <4>2. CASE k # j
        BY <2>1, <3>1, <4>2 DEF JobIsSound
      <4> QED BY <4>1, <4>2
    <3> QED BY <1>1, <2>1, <3>1, <3>2, <3>3 DEF JobIsSound
  <2>3. ReaderIsSound'
    BY <1>0, <1>1, <2>1 DEF ReaderIsSound
  <2>4. index' \subseteq AppJobs /\ indexed' \subseteq AppJobs /\ IndexHolds'
    <3>0. IndexMax \in Nat /\ NumJobs \in Nat /\ index \subseteq indexed /\ indexed \subseteq 1..NumJobs /\ AppJobs = 1..NumJobs
          /\ Newest(indexed, IndexMax) \subseteq index
      BY <1>0, AnswersAssumption DEF JaTypes, AppJobs, IndexHolds
    <3>1. CASE ListJob(j)
      <4>1. index' = index \cup {j} /\ indexed' = indexed \cup {j}
        BY <3>1 DEF ListJob
      <4>2. Newest(indexed \cup {j}, IndexMax) \subseteq Newest(indexed, IndexMax) \cup {j}
        BY <3>0, NewestOfMore
      <4> QED BY <3>0, <4>1, <4>2 DEF IndexHolds
    <3>2. CASE DescribeJob(j)
      BY <1>0, <3>0, <3>2 DEF DescribeJob, IndexHolds
    <3>3. CASE TrimIndex(j)
      <4>1. index' = Newest(index, IndexMax) /\ indexed' = indexed
        BY <3>3 DEF TrimIndex, Trimmed
      <4>2. Newest(index, IndexMax) = Newest(indexed, IndexMax)
        BY <3>0, NewestOfPart
      <4>3. Newest(index, IndexMax) \subseteq index
        BY DEF Newest
      <4> QED BY <3>0, <4>1, <4>2, <4>3 DEF IndexHolds
    <3> QED BY <1>3, <3>1, <3>2, <3>3
  <2>5. JaTypes'
    BY <1>0, <1>1, <2>1, <2>4 DEF JaTypes
  <2> QED BY <2>2, <2>3, <2>4, <2>5 DEF JaInv
<1> QED BY <1>2, <1>3

-----------------------------------------------------------------------------
(* What happens to the jobs themselves.                                    *)

\* What a step of the worker or of ARQ must show.
LEMMA JobStepKeeps ==
    ASSUME JaInv, UNCHANGED <<enqueuing, index, metas, reader, indexed>>,
           arq' \in [AppJobs -> [status : Statuses, tries : Nat]],
           results' \in [AppJobs -> [kind : {"none", "ok", "failed"}, ref : Refs]],
           work' \in [AppJobs -> {"idle", "screen", "save", "saved", "failed"}],
           \A r \in runRows' : r[1] \in AppJobs /\ r[2] \in 1..JobTries[r[1]],
           runRows \subseteq runRows',
           \A k \in AppJobs : JobIsSound(k)',
           \A k \in AppJobs : k = reader.job /\ arq[k].status = "complete" => arq'[k].status = "complete" /\ results'[k] = results[k]
    PROVE  JaInv'
<1>0. JaTypes /\ ReaderIsSound /\ IndexHolds /\ \A k \in AppJobs : JobIsSound(k)
  BY DEF JaInv
<1>1. JaTypes'
  BY <1>0 DEF JaTypes
<1>2. IndexHolds'
  BY <1>0 DEF IndexHolds
<1>3. ReaderIsSound'
  <2>1. reader.at # "idle" => reader.job \in AppJobs
    BY <1>0 DEF ReaderIsSound
  <2>2. reader.at = "status" /\ reader.status = "complete" => arq'[reader.job].status = "complete"
    BY <1>0, <2>1 DEF ReaderIsSound
  <2>3. reader.at = "told" /\ reader.answer = "failed" => results'[reader.job].kind = "failed"
    <3> SUFFICES ASSUME reader.at = "told", reader.answer = "failed" PROVE results'[reader.job].kind = "failed"
      OBVIOUS
    <3>1. reader.job \in AppJobs /\ results[reader.job].kind = "failed"
      BY <1>0, <2>1 DEF ReaderIsSound
    <3>2. arq[reader.job].status = "complete"
      <4>1. PICK k \in AppJobs : k = reader.job
        BY <3>1
      <4>2. JobIsSound(k)
        BY <1>0
      <4>3. arq[k].status # "complete" => results[k].kind = "none"
        BY ONLY <4>2 DEF JobIsSound, NoResult
      <4> QED BY <3>1, <4>1, <4>3
    <3> QED BY <3>1, <3>2
  <2>4. reader.at = "told" /\ reader.answer = "success" => reader.ref \in runRows'
    BY <1>0 DEF ReaderIsSound
  <2> QED BY <1>0, <2>1, <2>2, <2>3, <2>4 DEF ReaderIsSound
<1> QED BY <1>1, <1>2, <1>3 DEF JaInv

\* Of all jobs but one nothing changes.
LEMMA OneJobSteps ==
    ASSUME JaInv, NEW j \in AppJobs, UNCHANGED <<enqueuing, index, metas, reader, indexed>>,
           NEW a \in [status : Statuses, tries : Nat], arq' = [arq EXCEPT ![j] = a],
           NEW r \in [kind : {"none", "ok", "failed"}, ref : Refs], results' = [results EXCEPT ![j] = r],
           NEW w \in {"idle", "screen", "save", "saved", "failed"}, work' = [work EXCEPT ![j] = w],
           \A x \in runRows' : x[1] \in AppJobs /\ x[2] \in 1..JobTries[x[1]],
           runRows \subseteq runRows',
           a.tries \in 0..JobTries[j], w # "idle" => a.tries \in 1..JobTries[j], w = "saved" => <<j, a.tries>> \in runRows',
           a.status = "complete" => r.kind # "none", a.status # "complete" => r = NoResult, r.kind = "ok" => r.ref \in runRows',
           enqueuing[j] = "no" => a.status = "not_found",
           j = reader.job /\ arq[j].status = "complete" => a.status = "complete" /\ r = results[j]
    PROVE  JaInv'
<1>0. JaTypes /\ \A k \in AppJobs : JobIsSound(k)
  BY DEF JaInv
<1>1. /\ arq' \in [AppJobs -> [status : Statuses, tries : Nat]]
      /\ results' \in [AppJobs -> [kind : {"none", "ok", "failed"}, ref : Refs]]
      /\ work' \in [AppJobs -> {"idle", "screen", "save", "saved", "failed"}]
  BY <1>0 DEF JaTypes
<1>2. /\ arq'[j] = a /\ results'[j] = r /\ work'[j] = w
      /\ \A k \in AppJobs : k # j => arq'[k] = arq[k] /\ results'[k] = results[k] /\ work'[k] = work[k]
  BY <1>0 DEF JaTypes
<1>3. ASSUME NEW k \in AppJobs PROVE JobIsSound(k)'
  <2>1. CASE k = j
    <3>1. JobIsSound(j)
      BY <1>0
    <3>2. enqueuing[j] \in {"described", "accepted"} => j \in metas
      BY <3>1 DEF JobIsSound
    <3> QED BY <1>2, <2>1, <3>2 DEF JobIsSound
  <2>2. CASE k # j
    <3>1. JobIsSound(k) /\ arq'[k] = arq[k] /\ results'[k] = results[k] /\ work'[k] = work[k]
      BY <1>0, <1>2, <2>2
    <3>2. enqueuing'[k] = enqueuing[k] /\ metas' = metas
      OBVIOUS
    <3> QED BY ONLY <3>1, <3>2, runRows \subseteq runRows' DEF JobIsSound
  <2> QED BY <2>1, <2>2
<1>4. \A k \in AppJobs : k = reader.job /\ arq[k].status = "complete" => arq'[k].status = "complete" /\ results'[k] = results[k]
  BY <1>2
<1> QED BY <1>1, <1>3, <1>4, JobStepKeeps

LEMMA JobFacts ==
    ASSUME JaInv, NEW j \in AppJobs
    PROVE  /\ arq[j] \in [status : Statuses, tries : Nat] /\ arq[j].tries \in 0..JobTries[j]
           /\ results[j] \in [kind : {"none", "ok", "failed"}, ref : Refs]
           /\ work[j] \in {"idle", "screen", "save", "saved", "failed"}
           /\ arq = [arq EXCEPT ![j] = arq[j]] /\ results = [results EXCEPT ![j] = results[j]] /\ work = [work EXCEPT ![j] = work[j]]
           /\ \A x \in runRows : x[1] \in AppJobs /\ x[2] \in 1..JobTries[x[1]]
           /\ work[j] # "idle" => arq[j].tries \in 1..JobTries[j]
           /\ work[j] = "saved" => <<j, arq[j].tries>> \in runRows
           /\ arq[j].status = "complete" => results[j].kind # "none"
           /\ arq[j].status # "complete" => results[j] = NoResult
           /\ results[j].kind = "ok" => results[j].ref \in runRows
           /\ enqueuing[j] = "no" => arq[j].status = "not_found"
<1>1. JaTypes /\ JobIsSound(j)
  BY DEF JaInv
<1>2. /\ arq[j] \in [status : Statuses, tries : Nat]
      /\ results[j] \in [kind : {"none", "ok", "failed"}, ref : Refs]
      /\ work[j] \in {"idle", "screen", "save", "saved", "failed"}
      /\ arq = [arq EXCEPT ![j] = arq[j]] /\ results = [results EXCEPT ![j] = results[j]] /\ work = [work EXCEPT ![j] = work[j]]
      /\ \A x \in runRows : x[1] \in AppJobs /\ x[2] \in 1..JobTries[x[1]]
  BY <1>1 DEF JaTypes
<1> QED BY <1>1, <1>2 DEF JobIsSound

\* The statuses a job that is queued, in progress or complete may go to.
LEMMA ResultsTyped ==
    /\ [kind |-> "failed", ref |-> <<0, 0>>] \in [kind : {"none", "ok", "failed"}, ref : Refs]
    /\ NoResult \in [kind : {"none", "ok", "failed"}, ref : Refs] /\ NoResult.kind = "none"
    /\ \A j \in AppJobs, n \in Nat : [kind |-> "ok", ref |-> <<j, n>>] \in [kind : {"none", "ok", "failed"}, ref : Refs]
BY DEF Refs, NoResult

LEMMA StartKeeps == ASSUME JaInv, NEW j \in AppJobs, StartAttempt(j) PROVE JaInv'
<1>1. arq[j].status = "queued" /\ work[j] = "idle" /\ UNCHANGED <<enqueuing, runRows, index, metas, reader, indexed>>
  BY DEF StartAttempt
<1>2. results[j] = NoResult /\ enqueuing[j] # "no"
  BY <1>1, JobFacts
<1>3. PICK t \in 0..JobTries[j] : t = arq[j].tries
  BY JobFacts
<1>4. JobTries[j] \in Nat /\ JobTries[j] > 0
  BY AnswersAssumption DEF AppJobs
<1>5. CASE /\ t < JobTries[j]
           /\ arq' = [arq EXCEPT ![j] = [status |-> "in_progress", tries |-> t + 1]]
           /\ work' = [work EXCEPT ![j] = "screen"] /\ UNCHANGED results
  <2>1. PICK u \in 1..JobTries[j] : u = t + 1
    BY <1>4, <1>5
  <2>2. u \in Nat /\ u \in 0..JobTries[j]
    BY ONLY <1>4, u \in 1..JobTries[j]
  <2>3. PICK a \in [status : Statuses, tries : Nat] : a = [status |-> "in_progress", tries |-> u]
    BY <2>2 DEF Statuses
  <2>4. a.tries = u /\ a.status = "in_progress" /\ arq' = [arq EXCEPT ![j] = a]
    BY <1>5, <2>1, <2>3
  <2>5. results' = [results EXCEPT ![j] = results[j]] /\ results[j].kind = "none"
        /\ results[j] \in [kind : {"none", "ok", "failed"}, ref : Refs]
    BY <1>2, <1>5, JobFacts, ResultsTyped
  <2>6. (\A x \in runRows' : x[1] \in AppJobs /\ x[2] \in 1..JobTries[x[1]]) /\ runRows \subseteq runRows'
    BY <1>1, JobFacts
  <2>7. work' = [work EXCEPT ![j] = "screen"]
    BY <1>5
  <2>8. a.tries \in 1..JobTries[j] /\ a.tries \in 0..JobTries[j]
    BY <2>2, <2>4
  <2> QED BY ONLY <1>1, <1>2, <2>4, <2>5, <2>6, <2>7, <2>8, JaInv, j \in AppJobs, a \in [status : Statuses, tries : Nat], OneJobSteps
<1>6. CASE /\ arq' = [arq EXCEPT ![j].status = "complete"]
           /\ results' = [results EXCEPT ![j] = [kind |-> "failed", ref |-> <<0, 0>>]] /\ UNCHANGED work
  <2>1. PICK a \in [status : Statuses, tries : Nat] : a = [arq[j] EXCEPT !.status = "complete"]
    BY JobFacts DEF Statuses
  <2>2. a.tries = t /\ a.status = "complete" /\ arq' = [arq EXCEPT ![j] = a]
    BY <1>3, <1>6, <2>1, JobFacts
  <2>3. PICK r \in [kind : {"none", "ok", "failed"}, ref : Refs] : r = [kind |-> "failed", ref |-> <<0, 0>>]
    BY ResultsTyped
  <2>4. results' = [results EXCEPT ![j] = r] /\ r.kind = "failed"
    BY <1>6, <2>3
  <2>5. (\A x \in runRows' : x[1] \in AppJobs /\ x[2] \in 1..JobTries[x[1]]) /\ runRows \subseteq runRows'
    BY <1>1, JobFacts
  <2>6. work' = [work EXCEPT ![j] = "idle"]
    BY <1>1, <1>6, JobFacts
  <2>7. a.tries \in 0..JobTries[j]
    BY <2>2
  <2> QED BY ONLY <1>1, <1>2, <2>2, <2>4, <2>5, <2>6, <2>7, JaInv, j \in AppJobs, a \in [status : Statuses, tries : Nat],
             r \in [kind : {"none", "ok", "failed"}, ref : Refs], OneJobSteps
<1> QED BY <1>3, <1>5, <1>6 DEF StartAttempt, Completes

LEMMA ScreenKeeps == ASSUME JaInv, NEW j \in AppJobs, Screen(j) \/ SaveScreening(j) PROVE JaInv'
<1>1. PICK w \in {"save", "saved", "failed"} :
          /\ work[j] # "idle" /\ work' = [work EXCEPT ![j] = w]
          /\ UNCHANGED <<enqueuing, arq, results, index, metas, reader, indexed>>
          /\ \/ w # "saved" /\ UNCHANGED runRows
             \/ w = "saved" /\ runRows' = runRows \cup {<<j, arq[j].tries>>}
  BY DEF Screen, SaveScreening, NotSaved
<1>2. PICK t \in 1..JobTries[j] : t = arq[j].tries
  BY <1>1, JobFacts
<1>3. /\ runRows \subseteq runRows' /\ \A x \in runRows' : x[1] \in AppJobs /\ x[2] \in 1..JobTries[x[1]]
      /\ w = "saved" => <<j, arq[j].tries>> \in runRows'
  <2>1. CASE runRows' = runRows /\ w # "saved"
    BY <2>1, JobFacts
  <2>2. CASE runRows' = runRows \cup {<<j, t>>}
    <3>1. \A x \in runRows : x[1] \in AppJobs /\ x[2] \in 1..JobTries[x[1]]
      BY JobFacts
    <3>2. <<j, t>>[1] \in AppJobs /\ <<j, t>>[2] \in 1..JobTries[<<j, t>>[1]]
      OBVIOUS
    <3> QED BY ONLY <1>2, <2>2, <3>1, <3>2
  <2> QED BY <1>1, <1>2, <2>1, <2>2
<1>4. arq' = [arq EXCEPT ![j] = arq[j]] /\ results' = [results EXCEPT ![j] = results[j]]
  BY <1>1, JobFacts
<1> QED BY <1>1, <1>2, <1>3, <1>4, JobFacts, OneJobSteps

\* An answer of the thread, or none because its time was out.
LEMMA ReturnKeeps == ASSUME JaInv, NEW j \in AppJobs, ReturnResult(j) \/ AttemptTimesOut(j) PROVE JaInv'
<1>1. UNCHANGED <<enqueuing, runRows, index, metas, reader, indexed>>
  BY DEF ReturnResult, AttemptTimesOut
<1>2. PICK w \in {work[j], "idle"} : work' = [work EXCEPT ![j] = w] /\ (arq[j].status # "in_progress" => UNCHANGED <<arq, results>>)
  BY JobFacts DEF ReturnResult, AttemptTimesOut
<1>3. w \in {"idle", "screen", "save", "saved", "failed"} /\ (w # "idle" => arq[j].tries \in 1..JobTries[j])
      /\ (w = "saved" => <<j, arq[j].tries>> \in runRows')
  BY <1>1, JobFacts
<1>4. CASE UNCHANGED <<arq, results>>
  <2>1. arq' = [arq EXCEPT ![j] = arq[j]] /\ results' = [results EXCEPT ![j] = results[j]]
    BY <1>4, JobFacts
  <2> QED BY ONLY <1>1, <1>2, <1>3, <2>1, JaInv, j \in AppJobs, JobFacts, OneJobSteps
<1>5. CASE /\ arq[j].status = "in_progress"
           /\ \/ work[j] = "saved" /\ Completes(j, "ok", <<j, arq[j].tries>>)
              \/ Completes(j, "failed", <<0, 0>>)
  <2>1. PICK a \in [status : Statuses, tries : Nat] : a = [arq[j] EXCEPT !.status = "complete"]
    BY JobFacts DEF Statuses
  <2>2. a.tries = arq[j].tries /\ a.status = "complete" /\ arq' = [arq EXCEPT ![j] = a]
    BY <1>5, <2>1, JobFacts DEF Completes
  <2>3. PICK r \in [kind : {"none", "ok", "failed"}, ref : Refs] :
            results' = [results EXCEPT ![j] = r] /\ r.kind # "none" /\ (r.kind = "ok" => r.ref \in runRows')
    <3>1. CASE work[j] = "saved" /\ Completes(j, "ok", <<j, arq[j].tries>>)
      <4>1. PICK r \in [kind : {"none", "ok", "failed"}, ref : Refs] : r = [kind |-> "ok", ref |-> <<j, arq[j].tries>>]
        <5>1. arq[j].tries \in Nat
          BY JobFacts
        <5> QED BY <5>1, ResultsTyped
      <4> QED BY <1>1, <3>1, <4>1, JobFacts DEF Completes
    <3>2. CASE Completes(j, "failed", <<0, 0>>)
      BY <3>2, ResultsTyped DEF Completes
    <3> QED BY <1>5, <3>1, <3>2
  <2>4. enqueuing[j] # "no" /\ arq[j].status # "complete"
    BY <1>5, JobFacts
  <2> QED BY ONLY <1>1, <1>2, <1>3, <2>2, <2>3, <2>4, JaInv, j \in AppJobs, a \in [status : Statuses, tries : Nat],
             r \in [kind : {"none", "ok", "failed"}, ref : Refs], JobFacts, OneJobSteps
<1> QED BY <1>2, <1>4, <1>5 DEF ReturnResult, AttemptTimesOut

LEMMA ExpiryKeeps == ASSUME JaInv, ~ResultsVanish, NEW j \in AppJobs, ResultExpires(j) PROVE JaInv'
<1>1. /\ arq[j].status = "complete" /\ reader.job # j
      /\ arq' = [arq EXCEPT ![j].status = "not_found"] /\ results' = [results EXCEPT ![j] = NoResult]
      /\ UNCHANGED <<enqueuing, work, runRows, index, metas, reader, indexed>>
  BY DEF ResultExpires
<1>2. PICK a \in [status : Statuses, tries : Nat] : a = [arq[j] EXCEPT !.status = "not_found"]
  BY JobFacts DEF Statuses
<1>3. a.tries = arq[j].tries /\ a.status = "not_found" /\ arq' = [arq EXCEPT ![j] = a]
  BY <1>1, <1>2, JobFacts
<1>4. work' = [work EXCEPT ![j] = work[j]]
  BY <1>1, JobFacts
<1>5. arq[j].tries \in 0..JobTries[j] /\ (work[j] # "idle" => arq[j].tries \in 1..JobTries[j]) /\ (work[j] = "saved" => <<j, arq[j].tries>> \in runRows')
      /\ work[j] \in {"idle", "screen", "save", "saved", "failed"}
      /\ (\A x \in runRows' : x[1] \in AppJobs /\ x[2] \in 1..JobTries[x[1]]) /\ runRows \subseteq runRows'
  BY <1>1, JobFacts
<1> QED BY ONLY <1>1, <1>3, <1>4, <1>5, JaInv, j \in AppJobs, a \in [status : Statuses, tries : Nat], OneJobSteps, ResultsTyped

LEMMA WorkerEndKeeps == ASSUME JaInv, WorkerEnds PROVE JaInv'
<1>0. JaTypes /\ \A k \in AppJobs : JobIsSound(k)
  BY DEF JaInv
<1>1. /\ work' = [j \in AppJobs |-> "idle"]
      /\ arq' = [j \in AppJobs |-> IF arq[j].status = "in_progress" THEN [arq[j] EXCEPT !.status = "queued"] ELSE arq[j]]
      /\ UNCHANGED <<enqueuing, results, runRows, index, metas, reader, indexed>>
  BY DEF WorkerEnds
<1>2. ASSUME NEW j \in AppJobs
      PROVE  /\ arq'[j] \in [status : Statuses, tries : Nat] /\ arq'[j].tries = arq[j].tries
             /\ arq[j].status = "in_progress" => arq'[j].status = "queued"
             /\ arq[j].status # "in_progress" => arq'[j].status = arq[j].status
  <2>1. arq[j] \in [status : Statuses, tries : Nat]
    BY JobFacts
  <2> QED BY <1>1, <2>1 DEF Statuses
<1>3. arq' \in [AppJobs -> [status : Statuses, tries : Nat]]
  BY <1>1, <1>2
<1>4. ASSUME NEW j \in AppJobs PROVE JobIsSound(j)'
  <2>1. JobIsSound(j)
    BY <1>0
  <2>2. work'[j] = "idle" /\ results'[j] = results[j] /\ runRows' = runRows /\ metas' = metas /\ enqueuing'[j] = enqueuing[j]
    BY <1>1
  <2> QED BY <1>2, <2>1, <2>2 DEF JobIsSound
<1>5. \A k \in AppJobs : k = reader.job /\ arq[k].status = "complete" => arq'[k].status = "complete" /\ results'[k] = results[k]
  BY <1>1, <1>2
<1>6. /\ results' \in [AppJobs -> [kind : {"none", "ok", "failed"}, ref : Refs]]
      /\ work' \in [AppJobs -> {"idle", "screen", "save", "saved", "failed"}]
      /\ \A r \in runRows' : r[1] \in AppJobs /\ r[2] \in 1..JobTries[r[1]]
  BY <1>0, <1>1 DEF JaTypes
<1> QED BY <1>1, <1>3, <1>4, <1>5, <1>6, JobStepKeeps

-----------------------------------------------------------------------------
(* The reader.                                                             *)

\* What a step of the reader must show: nothing else changes.
LEMMA ReaderSteps ==
    ASSUME JaInv, UNCHANGED <<enqueuing, arq, results, work, runRows, index, metas, indexed>>,
           reader' \in [at : {"idle", "meta", "status", "told"}, job : AppJobs \cup {0}, owned : BOOLEAN, meta : BOOLEAN,
                        status : Statuses \cup {"none"}, answer : Tellings, ref : Refs],
           ReaderIsSound'
    PROVE  JaInv'
<1>0. JaTypes /\ IndexHolds /\ \A k \in AppJobs : JobIsSound(k)
  BY DEF JaInv
<1>1. JaTypes'
  BY <1>0 DEF JaTypes
<1>2. IndexHolds'
  BY <1>0 DEF IndexHolds
<1>3. ASSUME NEW k \in AppJobs PROVE JobIsSound(k)'
  <2>1. JobIsSound(k)
    BY <1>0
  <2> QED BY ONLY <2>1, UNCHANGED <<enqueuing, arq, results, work, runRows, index, metas, indexed>> DEF JobIsSound
<1> QED BY <1>1, <1>2, <1>3 DEF JaInv

LEMMA ReaderFacts ==
    ASSUME JaInv
    PROVE  /\ reader \in [at : {"idle", "meta", "status", "told"}, job : AppJobs \cup {0}, owned : BOOLEAN, meta : BOOLEAN,
                          status : Statuses \cup {"none"}, answer : Tellings, ref : Refs]
           /\ reader.at # "idle" => reader.job \in AppJobs
           /\ reader.at \in {"meta", "status"} /\ reader.owned => reader.meta
           /\ reader.at = "status" => reader.status \in Statuses
           /\ reader.at = "status" /\ reader.status = "complete" => arq[reader.job].status = "complete"
BY DEF JaInv, JaTypes, ReaderIsSound

\* The record of an answer that is told.
LEMMA ToldIs ==
    ASSUME JaInv, reader.at # "idle", NEW telling \in Tellings, NEW ref \in Refs, reader' = Told(telling, ref)
    PROVE  /\ reader' \in [at : {"idle", "meta", "status", "told"}, job : AppJobs \cup {0}, owned : BOOLEAN, meta : BOOLEAN,
                           status : Statuses \cup {"none"}, answer : Tellings, ref : Refs]
           /\ reader'.at = "told" /\ reader'.job = reader.job /\ reader'.owned = reader.owned
           /\ reader'.answer = telling /\ reader'.ref = ref
<1>1. PICK o \in BOOLEAN, j \in AppJobs : o = reader.owned /\ j = reader.job
  BY ReaderFacts
<1>2. reader' = [at |-> "told", job |-> j, owned |-> o, meta |-> FALSE, status |-> "none", answer |-> telling, ref |-> ref]
  BY <1>1 DEF Told, NotReading
<1> QED BY <1>1, <1>2

LEMMA ReadMetaKeeps == ASSUME JaInv, NEW j \in AppJobs, ReadMeta(j) PROVE JaInv'
<1>1. UNCHANGED <<enqueuing, arq, results, work, runRows, index, metas, indexed>>
  BY DEF ReadMeta
<1>2. PICK o \in BOOLEAN, m \in BOOLEAN : (o <=> enqueuing[j] = "accepted") /\ (m <=> j \in metas)
  <2>1. (enqueuing[j] = "accepted") \in BOOLEAN /\ (j \in metas) \in BOOLEAN
    OBVIOUS
  <2> QED BY <2>1
<1>3. o => m
  <2>1. JobIsSound(j)
    BY DEF JaInv
  <2> QED BY <1>2, <2>1 DEF JobIsSound
<1>4. reader' = [at |-> "meta", job |-> j, owned |-> o, meta |-> m, status |-> "none", answer |-> "none", ref |-> <<0, 0>>]
  <2>1. (enqueuing[j] = "accepted") = o /\ (j \in metas) = m
    BY <1>2
  <2>2. reader' = [at |-> "meta", job |-> j, owned |-> (enqueuing[j] = "accepted"), meta |-> (j \in metas),
                   status |-> "none", answer |-> "none", ref |-> <<0, 0>>]
    BY DEF ReadMeta, NotReading
  <2> QED BY ONLY <2>1, <2>2, Zenon
<1>5. <<0, 0>> \in Refs
  BY DEF Refs
<1>6. reader' \in [at : {"idle", "meta", "status", "told"}, job : AppJobs \cup {0}, owned : BOOLEAN, meta : BOOLEAN,
                   status : Statuses \cup {"none"}, answer : Tellings, ref : Refs]
  BY <1>4, <1>5 DEF Tellings
<1>7. reader'.at = "meta" /\ reader'.job = j /\ reader'.owned = o /\ reader'.meta = m
  BY <1>4
<1>8. ReaderIsSound'
  BY <1>3, <1>7 DEF ReaderIsSound
<1> QED BY <1>1, <1>6, <1>8, ReaderSteps

LEMMA ReadStatusKeeps == ASSUME JaInv, ReadStatus PROVE JaInv'
<1>1. reader.at = "meta" /\ UNCHANGED <<enqueuing, arq, results, work, runRows, index, metas, indexed>>
  BY DEF ReadStatus
<1>2. PICK j \in AppJobs : j = reader.job
  BY <1>1, ReaderFacts
<1>3. PICK s \in Statuses : s = arq[j].status
  BY JobFacts
<1>4. CASE ~reader.meta /\ reader' = Told("404", <<0, 0>>)
  <2>1. "404" \in Tellings /\ <<0, 0>> \in Refs
    BY DEF Tellings, Refs
  <2>2. /\ reader' \in [at : {"idle", "meta", "status", "told"}, job : AppJobs \cup {0}, owned : BOOLEAN, meta : BOOLEAN,
                        status : Statuses \cup {"none"}, answer : Tellings, ref : Refs]
        /\ reader'.at = "told" /\ reader'.job = reader.job /\ reader'.owned = reader.owned /\ reader'.answer = "404"
    BY <1>1, <1>4, <2>1, ToldIs
  <2>3. ~reader.owned
    BY <1>1, <1>4, ReaderFacts
  <2>4. ReaderIsSound'
    BY <1>2, <2>2, <2>3 DEF ReaderIsSound
  <2> QED BY <1>1, <2>2, <2>4, ReaderSteps
<1>5. CASE reader' = [reader EXCEPT !.at = "status", !.status = s]
  <2>1. /\ reader' \in [at : {"idle", "meta", "status", "told"}, job : AppJobs \cup {0}, owned : BOOLEAN, meta : BOOLEAN,
                        status : Statuses \cup {"none"}, answer : Tellings, ref : Refs]
        /\ reader'.at = "status" /\ reader'.job = j /\ reader'.owned = reader.owned /\ reader'.meta = reader.meta /\ reader'.status = s
    BY <1>2, <1>5, ReaderFacts
  <2>2. reader.owned => reader.meta
    BY <1>1, ReaderFacts
  <2>3. ReaderIsSound'
    BY <1>1, <1>3, <2>1, <2>2 DEF ReaderIsSound
  <2> QED BY <1>1, <2>1, <2>3, ReaderSteps
<1> QED BY <1>2, <1>3, <1>4, <1>5 DEF ReadStatus

LEMMA ReadResultKeeps == ASSUME JaInv, ReadResult PROVE JaInv'
<1>1. reader.at = "status" /\ UNCHANGED <<enqueuing, arq, results, work, runRows, index, metas, indexed>>
  BY DEF ReadResult
<1>2. PICK j \in AppJobs : j = reader.job
  BY <1>1, ReaderFacts
<1>3. PICK s \in Statuses : s = reader.status
  BY <1>1, ReaderFacts
<1>4. PICK r \in [kind : {"none", "ok", "failed"}, ref : Refs] : r = results[j]
  BY JobFacts
<1>5. s = "complete" => r.kind # "none"
  BY <1>1, <1>2, <1>3, <1>4, JobFacts, ReaderFacts
<1>6. CASE ~reader.meta /\ reader' = Told("404", <<0, 0>>)
  <2>1. "404" \in Tellings /\ <<0, 0>> \in Refs
    BY DEF Tellings, Refs
  <2>2. /\ reader' \in [at : {"idle", "meta", "status", "told"}, job : AppJobs \cup {0}, owned : BOOLEAN, meta : BOOLEAN,
                        status : Statuses \cup {"none"}, answer : Tellings, ref : Refs]
        /\ reader'.at = "told" /\ reader'.job = reader.job /\ reader'.owned = reader.owned /\ reader'.answer = "404"
    BY <1>1, <1>6, <2>1, ToldIs
  <2>3. ~reader.owned
    BY <1>1, <1>6, ReaderFacts
  <2>4. ReaderIsSound'
    BY <1>2, <2>2, <2>3 DEF ReaderIsSound
  <2> QED BY <1>1, <2>2, <2>4, ReaderSteps
<1>7. CASE reader' = Told(JobOut(s, r), r.ref)
  <2>1. PICK a \in Tellings : /\ a = JobOut(s, r) /\ a # "404"
                              /\ a = "failed" => r.kind = "failed"
                              /\ a = "success" => r.kind = "ok"
    <3>1. r.kind \in {"none", "ok", "failed"}
      OBVIOUS
    <3> QED BY <1>5, <3>1 DEF JobOut, Statuses, Tellings
  <2>2. r.ref \in Refs
    OBVIOUS
  <2>3. /\ reader' \in [at : {"idle", "meta", "status", "told"}, job : AppJobs \cup {0}, owned : BOOLEAN, meta : BOOLEAN,
                        status : Statuses \cup {"none"}, answer : Tellings, ref : Refs]
        /\ reader'.at = "told" /\ reader'.job = j /\ reader'.answer = a /\ reader'.ref = r.ref
    BY <1>1, <1>2, <1>7, <2>1, <2>2, ToldIs
  <2>4. r.kind = "ok" => r.ref \in runRows
    BY <1>4, JobFacts
  <2>5. ReaderIsSound'
    BY <1>1, <1>4, <2>1, <2>3, <2>4 DEF ReaderIsSound
  <2> QED BY <1>1, <2>3, <2>5, ReaderSteps
<1> QED BY <1>2, <1>3, <1>4, <1>6, <1>7 DEF ReadResult

-----------------------------------------------------------------------------
LEMMA JaInductive == ~ResultsVanish => (JaInv /\ [AnswersNext]_answerVars => JaInv')
<1> SUFFICES ASSUME ~ResultsVanish, JaInv, [AnswersNext]_answerVars PROVE JaInv'
  OBVIOUS
<1>1. CASE UNCHANGED answerVars
  <2>1. UNCHANGED <<enqueuing, arq, results, work, runRows, index, metas, indexed>> /\ reader' = reader
    BY <1>1 DEF answerVars
  <2>2. ReaderIsSound
    BY DEF JaInv
  <2>3. ReaderIsSound'
    BY <2>1, <2>2 DEF ReaderIsSound
  <2> QED BY <2>1, <2>3, ReaderFacts, ReaderSteps
<1>2. ASSUME NEW j \in AppJobs,
             \/ EnqueueAppJob(j) \/ ListJob(j) \/ DescribeJob(j) \/ TrimIndex(j)
             \/ StartAttempt(j) \/ Screen(j) \/ SaveScreening(j) \/ ReturnResult(j) \/ AttemptTimesOut(j)
             \/ ResultExpires(j) \/ ReadMeta(j)
      PROVE  JaInv'
  BY <1>2, EnqueueKeepsJa, StartKeeps, ScreenKeeps, ReturnKeeps, ExpiryKeeps, ReadMetaKeeps
<1>3. CASE WorkerEnds \/ ReadStatus \/ ReadResult
  BY <1>3, WorkerEndKeeps, ReadStatusKeeps, ReadResultKeeps
<1> QED BY <1>1, <1>2, <1>3 DEF AnswersNext

LEMMA AnswersImplied == JaInv => AnswersAreTrue
<1> SUFFICES ASSUME JaInv PROVE AnswersAreTrue
  OBVIOUS
<1>0. JaTypes /\ ReaderIsSound /\ IndexHolds
  BY DEF JaInv
<1>1. AnswersTypeOK
  <2>1. \A j \in AppJobs : arq[j].status \in Statuses /\ arq[j].tries \in 0..JobTries[j]
    BY JobFacts
  <2>2. \A j \in AppJobs : results[j].kind \in {"none", "ok", "failed"}
    BY JobFacts
  <2>3. reader.at \in {"idle", "meta", "status", "told"} /\ reader.answer \in Tellings
    BY ReaderFacts
  <2> QED BY <1>0, <2>1, <2>2, <2>3 DEF AnswersTypeOK, JaTypes, Statuses, Tellings
<1>2. FailedIsTrue /\ SuccessIsSaved /\ AcceptedIsFound
  BY <1>0 DEF ReaderIsSound, FailedIsTrue, SuccessIsSaved, AcceptedIsFound
<1>3. RecentIsListed
  <2>1. IndexMax \in Nat /\ NumJobs \in Nat /\ index \subseteq indexed /\ indexed \subseteq 1..NumJobs
        /\ Newest(indexed, IndexMax) \subseteq index
    BY <1>0, AnswersAssumption DEF JaTypes, AppJobs, IndexHolds
  <2>2. Newest(index, IndexMax) = Newest(indexed, IndexMax)
    BY <2>1, NewestOfPart
  <2> QED BY <2>2 DEF RecentIsListed, Listed
<1> QED BY <1>1, <1>2, <1>3 DEF AnswersAreTrue

\* What is told of a job is so, as long as no result vanishes between two reads
\* of one answer: failed means failed, success a row that is stored, 404 a job
\* its user was not given the id of, and the list shows the newest that were
\* ever indexed, whoever indexes and trims at the same time.
THEOREM AnswersHold == ~ResultsVanish => (AnswersSpec => []AnswersAreTrue)
<1> SUFFICES ASSUME ~ResultsVanish PROVE AnswersSpec => []AnswersAreTrue
  OBVIOUS
<1>1. AnswersInit => JaInv
  BY JaStarts
<1>2. JaInv /\ [AnswersNext]_answerVars => JaInv'
  BY JaInductive
<1>3. JaInv => AnswersAreTrue
  BY AnswersImplied
<1> QED BY <1>1, <1>2, <1>3, PTL DEF AnswersSpec

-----------------------------------------------------------------------------
(* Chat: a session is the talk that was had. A request's question is a      *)
(* message of its own session, deleted or not (QuestionIsOwn), and the      *)
(* prompt has the last of the messages by the ranks of a limited list.      *)

ChatMessages == [session : ChatSessions, user : ChatUsers, role : {"user", "assistant", "gone"}]
AskStages == {"idle", "rounds", "ready", "store", "error", "done", "gone"}
Asks ==
    [pc : AskStages, user : ChatUsers \cup {NoOwner}, session : ChatSessions \cup {NoOwner}, question : Nat,
     prompt : SUBSET Nat, rounds : Nat]

ChatTypes ==
    /\ chatOwner \in [ChatSessions -> ChatUsers \cup {NoOwner}]
    /\ messages \in Seq(ChatMessages)
    /\ asks \in [ChatRequests -> Asks]

\* A request's question is in its session, and stays there, deleted or not.
QuestionIsOwn ==
    \A q \in ChatRequests :
        asks[q].pc # "idle" =>
            /\ asks[q].question \in 1..Len(messages)
            /\ asks[q].user \in ChatUsers /\ asks[q].session \in ChatSessions
            /\ messages[asks[q].question].session = asks[q].session
            /\ messages[asks[q].question].user = asks[q].user

ChatInv == ChatTypes /\ QuestionIsOwn /\ SessionIsTheTalk

-----------------------------------------------------------------------------
\* A prompt has the last of the messages stored, or it is full.
LEMMA LastIsSeen ==
    ASSUME NEW limit \in Nat, NEW table, Len(table) \in Nat, Len(table) > 0, NEW u, NEW s,
           table[Len(table)].session = s, table[Len(table)].user = u, table[Len(table)].role /= "gone"
    PROVE  \/ Len(table) \in ListMessages(table, u, s, limit)
           \/ Cardinality(ListMessages(table, u, s, limit)) = limit
<1> DEFINE own == {i \in 1..Len(table) : table[i].session = s /\ table[i].user = u /\ table[i].role /= "gone"}
           R == {p \in Nat \X Nat : p[1] < p[2]}
           last == Len(table)
<1>1. IsFiniteSet(own) /\ Cardinality(own) \in Nat
  <2>1. IsFiniteSet(1..Len(table)) /\ own \subseteq 1..Len(table)
    BY FS_Interval
  <2> HIDE DEF own
  <2> QED BY <2>1, FS_Subset, FS_CardinalityType
<1>2. own \subseteq Nat
  OBVIOUS
<1>3. IsOrder(R, own)
  <2>1. \A i, j \in own : <<i, j>> \in R <=> i < j
    BY <1>2
  <2> HIDE DEF own, R
  <2> QED BY <1>2, <2>1 DEF IsOrder
<1>4. \A i \in own : {j \in own : j < i} = Earlier(own, R, i)
  <2>1. \A i, j \in own : <<j, i>> \in R <=> j < i
    BY <1>2
  <2> HIDE DEF own, R
  <2> QED BY <2>1 DEF Earlier
<1>5. ListMessages(table, u, s, limit) = {i \in own : Cardinality(Earlier(own, R, i)) < limit}
  <2>1. ListMessages(table, u, s, limit) = {i \in own : Cardinality({j \in own : j < i}) < limit}
    BY DEF ListMessages
  <2> HIDE DEF own, R
  <2> QED BY <1>4, <2>1
<1>6. last \in own
  OBVIOUS
<1>7. CASE limit <= Cardinality(own)
  <2> HIDE DEF own, R
  <2> QED BY <1>1, <1>3, <1>5, <1>7, FirstOnesCount
<1>8. CASE ~(limit <= Cardinality(own))
  <2>1. /\ Cardinality(Earlier(own, R, last)) \in Nat
        /\ Cardinality(Earlier(own, R, last)) + 1 <= Cardinality(own)
    <3> HIDE DEF own, R, last
    <3> QED BY <1>1, <1>3, <1>6, EarlierCountsLess
  <2>2. Cardinality(Earlier(own, R, last)) < limit
    <3> HIDE DEF own, R, last
    <3> QED BY ONLY <1>1, <1>8, <2>1, limit \in Nat
  <2> HIDE DEF own, R
  <2> QED BY <1>5, <1>6, <2>2
<1> QED BY <1>7, <1>8

LEMMA ChatStarts == ChatInit => ChatInv
<1> SUFFICES ASSUME ChatInit PROVE ChatInv
  OBVIOUS
<1>1. messages = <<>> /\ Len(messages) = 0 /\ \A q \in ChatRequests : asks[q] = NoAsk /\ asks[q].pc = "idle"
  BY DEF ChatInit, NoAsk
<1>2. ChatTypes
  <2>1. <<>> \in Seq(ChatMessages)
    OBVIOUS
  <2>2. NoAsk \in Asks
    BY DEF NoAsk, Asks, AskStages
  <2> QED BY <2>1, <2>2 DEF ChatInit, ChatTypes
<1>3. QuestionIsOwn /\ NoStrayMessages /\ DoneIsStored /\ QuestionIsSeen
  BY <1>1 DEF QuestionIsOwn, NoStrayMessages, DoneIsStored, QuestionIsSeen, Working
<1> QED BY <1>2, <1>3 DEF ChatInv, SessionIsTheTalk

\* What a message appended leaves as it was.
LEMMA StoredIs ==
    ASSUME ChatTypes, NEW u \in ChatUsers, NEW s \in ChatSessions, NEW role \in {"user", "assistant"}
    PROVE  LET more == Stored(u, s, role) IN
           /\ more \in Seq(ChatMessages) /\ Len(messages) \in Nat /\ Len(more) = Len(messages) + 1
           /\ \A i \in 1..Len(messages) : more[i] = messages[i]
           /\ more[Len(messages) + 1] = [session |-> s, user |-> u, role |-> role]
<1>1. [session |-> s, user |-> u, role |-> role] \in ChatMessages
  BY DEF ChatMessages
<1>2. messages \in Seq(ChatMessages)
  BY DEF ChatTypes
<1> QED BY <1>1, <1>2, AppendProperties DEF Stored

-----------------------------------------------------------------------------
(* The inductive invariant.                                                *)

\* A request that goes on, or is over, without storing anything.
LEMMA MoveKeeps ==
    ASSUME ChatInv, UNCHANGED <<chatOwner, messages>>, NEW q \in ChatRequests, NEW a \in Asks,
           asks' = [asks EXCEPT ![q] = a],
           a.pc # "done",
           a.pc # "idle" => /\ asks[q].pc \in Working
                            /\ a.user = asks[q].user /\ a.session = asks[q].session
                            /\ a.question = asks[q].question /\ a.prompt = asks[q].prompt
    PROVE  ChatInv'
<1>1. asks \in [ChatRequests -> Asks]
  BY DEF ChatInv, ChatTypes
<1>2. asks'[q] = a /\ \A r \in ChatRequests : r # q => asks'[r] = asks[r]
  BY <1>1
<1>3. ChatTypes'
  BY DEF ChatInv, ChatTypes
<1>4. QuestionIsOwn'
  BY <1>2 DEF ChatInv, QuestionIsOwn, Working
<1>5. NoStrayMessages'
  BY DEF ChatInv, SessionIsTheTalk, NoStrayMessages
<1>6. DoneIsStored'
  <2>1. SUFFICES ASSUME NEW r \in ChatRequests, asks'[r].pc = "done", messages[asks'[r].question].role /= "gone"
                 PROVE  \E i \in asks'[r].question + 1 .. Len(messages) :
                            /\ messages[i].role = "assistant"
                            /\ messages[i].session = messages[asks'[r].question].session
    BY DEF DoneIsStored
  <2>2. asks'[r] = asks[r]
    BY <1>2, <2>1
  <2> QED BY <2>1, <2>2 DEF ChatInv, SessionIsTheTalk, DoneIsStored
<1>7. QuestionIsSeen'
  BY <1>2 DEF ChatInv, SessionIsTheTalk, QuestionIsSeen, Working
<1> QED BY <1>3, <1>4, <1>5, <1>6, <1>7 DEF ChatInv, SessionIsTheTalk

LEMMA ServeKeeps ==
    ASSUME ChatInv, NEW q \in ChatRequests, ToolRound(q) \/ Answer(q) \/ LlmFails(q) \/ Leave(q) \/ NextRequest(q)
    PROVE  ChatInv'
<1>1. UNCHANGED <<chatOwner, messages>>
  BY DEF ToolRound, Answer, LlmFails, Leave, NextRequest
<1>2. PICK k \in Asks : k = asks[q]
  BY DEF ChatInv, ChatTypes
<1>3. CASE NextRequest(q)
  <2>1. NoAsk \in Asks /\ NoAsk.pc = "idle"
    BY DEF NoAsk, Asks, AskStages
  <2>2. asks' = [asks EXCEPT ![q] = NoAsk]
    BY <1>3 DEF NextRequest
  <2> QED BY <1>1, <2>1, <2>2, MoveKeeps
<1>4. CASE Answer(q) \/ LlmFails(q) \/ Leave(q)
  <2>1. PICK pc \in {"store", "error", "gone"} : asks' = [asks EXCEPT ![q] = [k EXCEPT !.pc = pc]]
    BY <1>2, <1>4 DEF Answer, LlmFails, Leave
  <2>2. asks[q].pc \in Working
    BY <1>4 DEF Answer, LlmFails, Leave, Working
  <2>3. /\ [k EXCEPT !.pc = pc] \in Asks /\ [k EXCEPT !.pc = pc].pc = pc /\ [k EXCEPT !.pc = pc].user = k.user
        /\ [k EXCEPT !.pc = pc].session = k.session /\ [k EXCEPT !.pc = pc].question = k.question
        /\ [k EXCEPT !.pc = pc].prompt = k.prompt
    BY DEF Asks, AskStages
  <2>4. [k EXCEPT !.pc = pc].pc # "done"
    BY <2>3
  <2> QED BY <1>1, <1>2, <2>1, <2>2, <2>3, <2>4, MoveKeeps
<1>5. CASE ToolRound(q)
  <2>1. asks[q].pc \in Working /\ asks[q].pc # "done" /\ k.rounds \in Nat
    BY <1>2, <1>5 DEF ToolRound, Working, Asks
  <2>2. CASE RoundsLeft(q)
    <3>1. asks' = [asks EXCEPT ![q] = [k EXCEPT !.rounds = (k.rounds + 1) % MaxToolRounds]]
      BY <1>2, <1>5, <2>2 DEF ToolRound
    <3>2. (k.rounds + 1) % MaxToolRounds \in Nat
      <4>1. k.rounds + 1 < MaxToolRounds /\ MaxToolRounds \in Nat
        BY <1>2, <2>2, ChatAssumption DEF RoundsLeft
      <4> QED BY <2>1, <4>1
    <3>3. PICK n \in Nat : n = (k.rounds + 1) % MaxToolRounds
      BY <3>2
    <3>4. /\ [k EXCEPT !.rounds = n] \in Asks /\ [k EXCEPT !.rounds = n].pc = k.pc /\ [k EXCEPT !.rounds = n].user = k.user
          /\ [k EXCEPT !.rounds = n].session = k.session /\ [k EXCEPT !.rounds = n].question = k.question
          /\ [k EXCEPT !.rounds = n].prompt = k.prompt
      BY DEF Asks
    <3> QED BY <1>1, <1>2, <2>1, <3>1, <3>3, <3>4, MoveKeeps
  <2>3. CASE ~RoundsLeft(q)
    <3>1. asks' = [asks EXCEPT ![q] = [k EXCEPT !.pc = "ready"]]
      BY <1>2, <1>5, <2>3 DEF ToolRound
    <3>2. /\ [k EXCEPT !.pc = "ready"] \in Asks /\ [k EXCEPT !.pc = "ready"].pc = "ready" /\ [k EXCEPT !.pc = "ready"].user = k.user
          /\ [k EXCEPT !.pc = "ready"].session = k.session /\ [k EXCEPT !.pc = "ready"].question = k.question
          /\ [k EXCEPT !.pc = "ready"].prompt = k.prompt
      BY DEF Asks, AskStages
    <3> QED BY <1>1, <1>2, <2>1, <3>1, <3>2, MoveKeeps
  <2> QED BY <2>2, <2>3
<1> QED BY <1>3, <1>4, <1>5

LEMMA AskKeeps ==
    ASSUME ChatInv, NEW q \in ChatRequests, NEW u \in ChatUsers, NEW s \in ChatSessions, Ask(q, u, s)
    PROVE  ChatInv'
<1> DEFINE last == Len(messages) + 1
<1>1. messages' = Stored(u, s, "user") /\ chatOwner[s] = u /\ asks[q].pc = "idle" /\ chatOwner' = chatOwner
  BY DEF Ask
<1>2. /\ messages' \in Seq(ChatMessages) /\ Len(messages) \in Nat /\ Len(messages') = last
      /\ \A i \in 1..Len(messages) : messages'[i] = messages[i]
      /\ messages'[last] = [session |-> s, user |-> u, role |-> "user"]
  BY <1>1, StoredIs DEF ChatInv
<1>3. messages'[last].session = s /\ messages'[last].user = u /\ messages'[last].role = "user"
  BY <1>2
<1>4. PICK pc \in {"rounds", "ready"}, prompt \in SUBSET Nat :
          /\ asks' = [asks EXCEPT ![q] = [pc |-> pc, user |-> u, session |-> s, question |-> last, prompt |-> prompt, rounds |-> 0]]
          /\ prompt = ListMessages(messages', u, s, HistoryLimit)
  <2>1. PICK tools \in BOOLEAN :
            asks' = [asks EXCEPT ![q] = [pc |-> IF tools THEN "rounds" ELSE "ready", user |-> u, session |-> s,
                                         question |-> Len(messages'), prompt |-> History(u, s), rounds |-> 0]]
    BY DEF Ask
  <2>2. ListMessages(messages', u, s, HistoryLimit) \subseteq Nat
    BY <1>2 DEF ListMessages
  <2>3. (IF tools THEN "rounds" ELSE "ready") \in {"rounds", "ready"}
    OBVIOUS
  <2> QED BY <1>2, <2>1, <2>2, <2>3 DEF History
<1> DEFINE a == [pc |-> pc, user |-> u, session |-> s, question |-> last, prompt |-> prompt, rounds |-> 0]
<1>5. asks \in [ChatRequests -> Asks]
  BY DEF ChatInv, ChatTypes
<1>6. asks'[q] = a /\ \A r \in ChatRequests : r # q => asks'[r] = asks[r]
  BY <1>4, <1>5
<1>7. ChatTypes'
  <2>1. a \in Asks
    BY <1>2 DEF Asks, AskStages
  <2> QED BY <1>1, <1>2, <1>4, <2>1 DEF ChatInv, ChatTypes
<1>8. QuestionIsOwn'
  <2> SUFFICES ASSUME NEW r \in ChatRequests, asks'[r].pc # "idle"
               PROVE  /\ asks'[r].question \in 1..Len(messages')
                      /\ asks'[r].user \in ChatUsers /\ asks'[r].session \in ChatSessions
                      /\ messages'[asks'[r].question].session = asks'[r].session
                      /\ messages'[asks'[r].question].user = asks'[r].user
    BY DEF QuestionIsOwn
  <2>1. CASE r = q
    BY <1>2, <1>3, <1>6, <2>1
  <2>2. CASE r # q
    <3>1. asks'[r] = asks[r] /\ asks[r].question \in 1..Len(messages)
      BY <1>6, <2>2 DEF ChatInv, QuestionIsOwn
    <3>2. asks[r].question \in 1..Len(messages') /\ messages'[asks[r].question] = messages[asks[r].question]
      BY <1>2, <3>1
    <3> QED BY <3>1, <3>2 DEF ChatInv, QuestionIsOwn
  <2> QED BY <2>1, <2>2
<1>9. NoStrayMessages'
  <2> SUFFICES ASSUME NEW i \in 1..Len(messages'), messages'[i].role /= "gone"
               PROVE  chatOwner[messages'[i].session] = messages'[i].user
    BY <1>1 DEF NoStrayMessages
  <2>1. CASE i = last
    BY <1>1, <1>3, <2>1
  <2>2. CASE i # last
    <3>1. i \in 1..Len(messages) /\ messages'[i] = messages[i]
      BY <1>2, <2>2
    <3> QED BY <3>1 DEF ChatInv, SessionIsTheTalk, NoStrayMessages
  <2> QED BY <2>1, <2>2
<1>10. DoneIsStored'
  <2> SUFFICES ASSUME NEW r \in ChatRequests, asks'[r].pc = "done", messages'[asks'[r].question].role /= "gone"
               PROVE  \E i \in asks'[r].question + 1 .. Len(messages') :
                          /\ messages'[i].role = "assistant"
                          /\ messages'[i].session = messages'[asks'[r].question].session
    BY DEF DoneIsStored
  <2>1. r # q /\ asks'[r] = asks[r]
    BY <1>6
  <2>2. asks[r].question \in 1..Len(messages)
    BY <2>1 DEF ChatInv, QuestionIsOwn
  <2>3. messages'[asks[r].question] = messages[asks[r].question]
    BY <1>2, <2>2
  <2>4. PICK i \in asks[r].question + 1 .. Len(messages) :
            messages[i].role = "assistant" /\ messages[i].session = messages[asks[r].question].session
    BY <2>1, <2>3 DEF ChatInv, SessionIsTheTalk, DoneIsStored
  <2>5. i \in 1..Len(messages) /\ i \in asks[r].question + 1 .. Len(messages')
    BY <1>2, <2>2
  <2> QED BY <1>2, <2>1, <2>3, <2>4, <2>5
<1>11. QuestionIsSeen'
  <2> SUFFICES ASSUME NEW r \in ChatRequests, asks'[r].pc \in Working
               PROVE  \/ asks'[r].question \in asks'[r].prompt
                      \/ Cardinality(asks'[r].prompt) = HistoryLimit
    BY DEF QuestionIsSeen
  <2>1. CASE r = q
    <3>1. \/ last \in prompt
          \/ Cardinality(prompt) = HistoryLimit
      <4>1. Len(messages') \in Nat /\ Len(messages') > 0 /\ HistoryLimit \in Nat
        BY <1>2, ChatAssumption
      <4>2. messages'[Len(messages')].session = s /\ messages'[Len(messages')].user = u /\ messages'[Len(messages')].role /= "gone"
        BY <1>2, <1>3
      <4>3. \/ Len(messages') \in ListMessages(messages', u, s, HistoryLimit)
            \/ Cardinality(ListMessages(messages', u, s, HistoryLimit)) = HistoryLimit
        BY <4>1, <4>2, LastIsSeen
      <4> QED BY <1>2, <1>4, <4>3
    <3> QED BY <1>6, <2>1, <3>1
  <2>2. CASE r # q
    BY <1>6, <2>2 DEF ChatInv, SessionIsTheTalk, QuestionIsSeen
  <2> QED BY <2>1, <2>2
<1> QED BY <1>7, <1>8, <1>9, <1>10, <1>11 DEF ChatInv, SessionIsTheTalk

LEMMA CreateKeeps == ASSUME ChatInv, NEW u \in ChatUsers, NEW s \in ChatSessions, CreateSession(u, s) PROVE ChatInv'
<1>1. /\ UNCHANGED <<messages, asks>> /\ chatOwner' = [chatOwner EXCEPT ![s] = u]
      /\ \A i \in 1..Len(messages) : messages[i].session /= s
  BY DEF CreateSession
<1>2. ChatTypes'
  BY <1>1 DEF ChatInv, ChatTypes
<1>3. NoStrayMessages'
  <2>1. \A i \in 1..Len(messages) : messages[i] \in ChatMessages
    BY ElementOfSeq, LenProperties DEF ChatInv, ChatTypes
  <2>2. \A i \in 1..Len(messages) : messages[i].session \in ChatSessions
    BY <2>1 DEF ChatMessages
  <2> QED BY <1>1, <2>2 DEF ChatInv, ChatTypes, SessionIsTheTalk, NoStrayMessages
<1>4. QuestionIsOwn' /\ DoneIsStored' /\ QuestionIsSeen'
  BY <1>1 DEF ChatInv, SessionIsTheTalk, QuestionIsOwn, DoneIsStored, QuestionIsSeen
<1> QED BY <1>2, <1>3, <1>4 DEF ChatInv, SessionIsTheTalk

LEMMA DeleteKeeps == ASSUME ChatInv, NEW u \in ChatUsers, NEW s \in ChatSessions, DeleteSession(u, s) PROVE ChatInv'
<1> DEFINE Mine(i) == messages[i].session = s /\ messages[i].user = u
<1>1. /\ UNCHANGED asks /\ chatOwner[s] = u /\ chatOwner' = [chatOwner EXCEPT ![s] = NoOwner]
      /\ messages' = [i \in 1..Len(messages) |-> IF Mine(i) THEN [messages[i] EXCEPT !.role = "gone"] ELSE messages[i]]
  BY DEF DeleteSession
<1>2. Len(messages) \in Nat /\ \A i \in 1..Len(messages) : messages[i] \in ChatMessages
  BY ElementOfSeq, LenProperties DEF ChatInv, ChatTypes
<1>3. ASSUME NEW i \in 1..Len(messages)
      PROVE  /\ messages'[i] \in ChatMessages
             /\ messages'[i].session = messages[i].session /\ messages'[i].user = messages[i].user
             /\ messages'[i].role = IF Mine(i) THEN "gone" ELSE messages[i].role
  <2>1. PICK k \in ChatMessages : k = messages[i]
    BY <1>2
  <2>2. /\ [k EXCEPT !.role = "gone"] \in ChatMessages /\ [k EXCEPT !.role = "gone"].role = "gone"
        /\ [k EXCEPT !.role = "gone"].session = k.session /\ [k EXCEPT !.role = "gone"].user = k.user
    BY DEF ChatMessages
  <2> QED BY <1>1, <2>1, <2>2
<1>4. messages' \in Seq(ChatMessages) /\ Len(messages') = Len(messages)
  <2>1. messages' \in [1..Len(messages) -> ChatMessages]
    BY <1>1, <1>3
  <2>2. messages' \in Seq(ChatMessages)
    BY <1>2, <2>1, SeqDef
  <2>3. DOMAIN messages' = 1..Len(messages) /\ DOMAIN messages' = 1..Len(messages') /\ Len(messages') \in Nat
    BY <2>1, <2>2, LenProperties
  <2> QED BY <1>2, <2>2, <2>3
<1>5. ChatTypes'
  BY <1>1, <1>4 DEF ChatInv, ChatTypes
<1>6. QuestionIsOwn'
  BY <1>1, <1>3, <1>4 DEF ChatInv, QuestionIsOwn
<1>7. NoStrayMessages'
  <2> SUFFICES ASSUME NEW i \in 1..Len(messages), messages'[i].role /= "gone"
               PROVE  chatOwner'[messages[i].session] = messages[i].user
    BY <1>3, <1>4 DEF NoStrayMessages
  <2>1. ~Mine(i) /\ messages[i].role /= "gone"
    BY <1>3
  <2>2. chatOwner[messages[i].session] = messages[i].user /\ messages[i].session \in ChatSessions
    BY <1>2, <2>1 DEF ChatInv, SessionIsTheTalk, NoStrayMessages, ChatMessages
  <2>3. messages[i].session # s
    BY <1>1, <2>1, <2>2
  <2> QED BY <1>1, <2>2, <2>3 DEF ChatInv, ChatTypes
<1>8. DoneIsStored'
  <2> SUFFICES ASSUME NEW r \in ChatRequests, asks'[r].pc = "done", messages'[asks'[r].question].role /= "gone"
               PROVE  \E i \in asks'[r].question + 1 .. Len(messages') :
                          messages'[i].role = "assistant" /\ messages'[i].session = messages'[asks'[r].question].session
    BY DEF DoneIsStored
  <2>0. asks' = asks /\ asks[r].pc = "done" /\ messages'[asks[r].question].role /= "gone"
    BY <1>1
  <2>1. asks[r].question \in 1..Len(messages)
    BY <2>0 DEF ChatInv, QuestionIsOwn
  <2>2. ~Mine(asks[r].question) /\ messages[asks[r].question].role /= "gone"
    BY <1>3, <2>0, <2>1
  <2>3. PICK i \in asks[r].question + 1 .. Len(messages) :
            messages[i].role = "assistant" /\ messages[i].session = messages[asks[r].question].session
    BY <2>0, <2>2 DEF ChatInv, SessionIsTheTalk, DoneIsStored
  <2>4. i \in 1..Len(messages)
    BY <1>2, <2>1
  <2>5. messages[i].user = messages[asks[r].question].user
    BY <2>1, <2>2, <2>3, <2>4 DEF ChatInv, SessionIsTheTalk, NoStrayMessages
  <2>6. /\ messages'[i].role = "assistant"
        /\ messages'[i].session = messages'[asks[r].question].session
    BY <1>3, <2>1, <2>2, <2>3, <2>4, <2>5
  <2> QED BY <1>4, <2>0, <2>3, <2>6
<1>9. QuestionIsSeen'
  BY <1>1 DEF ChatInv, SessionIsTheTalk, QuestionIsSeen
<1> QED BY <1>5, <1>6, <1>7, <1>8, <1>9 DEF ChatInv, SessionIsTheTalk

LEMMA AnswerKeeps == ASSUME ChatInv, NEW q \in ChatRequests, StoreAnswer(q) PROVE ChatInv'
<1>1. asks[q].pc = "store" /\ chatOwner' = chatOwner
  BY DEF StoreAnswer
<1>2. PICK k \in Asks : k = asks[q]
  BY DEF ChatInv, ChatTypes
<1>3. \A pc \in {"done", "error"} :
          /\ [k EXCEPT !.pc = pc] \in Asks /\ [k EXCEPT !.pc = pc].pc = pc /\ [k EXCEPT !.pc = pc].user = k.user
          /\ [k EXCEPT !.pc = pc].session = k.session /\ [k EXCEPT !.pc = pc].question = k.question
          /\ [k EXCEPT !.pc = pc].prompt = k.prompt
  BY DEF Asks, AskStages
<1>4. CASE ~Storable(q)
  <2>1. UNCHANGED <<chatOwner, messages>> /\ asks' = [asks EXCEPT ![q] = [k EXCEPT !.pc = "error"]]
    BY <1>1, <1>2, <1>4 DEF StoreAnswer
  <2>2. asks[q].pc \in Working
    BY <1>1 DEF Working
  <2>3. [k EXCEPT !.pc = "error"] \in Asks /\ [k EXCEPT !.pc = "error"].pc # "done"
    BY <1>3
  <2> QED BY <1>2, <1>3, <2>1, <2>2, <2>3, MoveKeeps
<1>5. CASE Storable(q)
  <2> DEFINE a == [k EXCEPT !.pc = "done"]
             s == k.session
             u == k.user
             more == Len(messages) + 1
  <2>1. u \in ChatUsers /\ s \in ChatSessions /\ chatOwner[s] = u /\ k.question \in 1..Len(messages) /\ messages[k.question].session = s
    BY <1>1, <1>2, <1>5 DEF ChatInv, QuestionIsOwn, Storable
  <2>2. asks' = [asks EXCEPT ![q] = a] /\ messages' = Stored(u, s, "assistant")
    BY <1>2, <1>5 DEF StoreAnswer
  <2>3. /\ messages' \in Seq(ChatMessages) /\ Len(messages) \in Nat /\ Len(messages') = more
        /\ \A i \in 1..Len(messages) : messages'[i] = messages[i]
        /\ messages'[more] = [session |-> s, user |-> u, role |-> "assistant"]
    BY <2>1, <2>2, StoredIs DEF ChatInv
  <2>4. messages'[more].session = s /\ messages'[more].user = u /\ messages'[more].role = "assistant"
    BY <2>3
  <2>5. asks \in [ChatRequests -> Asks]
    BY DEF ChatInv, ChatTypes
  <2>6. a \in Asks /\ asks'[q] = a /\ \A r \in ChatRequests : r # q => asks'[r] = asks[r]
    BY <1>3, <2>2, <2>5
  <2>7. a.pc = "done" /\ a.user = u /\ a.session = s /\ a.question = k.question
    BY <1>3
  <2> HIDE DEF a, s, u
  <2>8. ChatTypes'
    BY <1>1, <2>2, <2>3, <2>6 DEF ChatInv, ChatTypes
  <2>9. QuestionIsOwn'
    <3> SUFFICES ASSUME NEW r \in ChatRequests, asks'[r].pc # "idle"
                 PROVE  /\ asks'[r].question \in 1..Len(messages')
                        /\ asks'[r].user \in ChatUsers /\ asks'[r].session \in ChatSessions
                        /\ messages'[asks'[r].question].session = asks'[r].session
                        /\ messages'[asks'[r].question].user = asks'[r].user
      BY DEF QuestionIsOwn
    <3>1. /\ asks[r].pc # "idle" /\ asks'[r].question = asks[r].question
          /\ asks'[r].user = asks[r].user /\ asks'[r].session = asks[r].session
      BY <1>1, <1>2, <2>6, <2>7 DEF s, u
    <3>2. asks[r].question \in 1..Len(messages') /\ messages'[asks[r].question] = messages[asks[r].question]
      BY <2>3, <3>1 DEF ChatInv, QuestionIsOwn
    <3> QED BY <3>1, <3>2 DEF ChatInv, QuestionIsOwn
  <2>10. NoStrayMessages'
    <3> SUFFICES ASSUME NEW i \in 1..Len(messages'), messages'[i].role /= "gone"
                 PROVE  chatOwner[messages'[i].session] = messages'[i].user
      BY <1>1 DEF NoStrayMessages
    <3>1. CASE i = more
      BY <2>1, <2>4, <3>1
    <3>2. CASE i # more
      <4>1. i \in 1..Len(messages) /\ messages'[i] = messages[i]
        BY <2>3, <3>2
      <4> QED BY <4>1 DEF ChatInv, SessionIsTheTalk, NoStrayMessages
    <3> QED BY <3>1, <3>2
  <2>11. DoneIsStored'
    <3> SUFFICES ASSUME NEW r \in ChatRequests, asks'[r].pc = "done", messages'[asks'[r].question].role /= "gone"
                 PROVE  \E i \in asks'[r].question + 1 .. Len(messages') :
                            /\ messages'[i].role = "assistant"
                            /\ messages'[i].session = messages'[asks'[r].question].session
      BY DEF DoneIsStored
    <3>1. CASE r = q
      <4>1. asks'[r].question = k.question /\ messages'[k.question].session = s
        BY <2>1, <2>3, <2>6, <2>7, <3>1
      <4>2. more \in k.question + 1 .. Len(messages')
        BY <2>1, <2>3
      <4> QED BY <2>4, <4>1, <4>2
    <3>2. CASE r # q
      <4>1. asks'[r] = asks[r] /\ asks[r].question \in 1..Len(messages)
        BY <2>6, <3>2 DEF ChatInv, QuestionIsOwn
      <4>2. messages'[asks[r].question] = messages[asks[r].question]
        BY <2>3, <4>1
      <4>3. PICK i \in asks[r].question + 1 .. Len(messages) :
                messages[i].role = "assistant" /\ messages[i].session = messages[asks[r].question].session
        BY <4>1, <4>2 DEF ChatInv, SessionIsTheTalk, DoneIsStored
      <4>4. i \in 1..Len(messages) /\ i \in asks[r].question + 1 .. Len(messages')
        BY <2>3, <4>1
      <4> QED BY <2>3, <4>1, <4>2, <4>3, <4>4
    <3> QED BY <3>1, <3>2
  <2>12. QuestionIsSeen'
    <3> SUFFICES ASSUME NEW r \in ChatRequests, asks'[r].pc \in Working
                 PROVE  asks'[r].question \in asks'[r].prompt \/ Cardinality(asks'[r].prompt) = HistoryLimit
      BY DEF QuestionIsSeen
    <3>1. r # q
      BY <2>6, <2>7 DEF Working
    <3> QED BY <2>6, <3>1 DEF ChatInv, SessionIsTheTalk, QuestionIsSeen
  <2> QED BY <2>8, <2>9, <2>10, <2>11, <2>12 DEF ChatInv, SessionIsTheTalk
<1> QED BY <1>4, <1>5

LEMMA ChatInductive == ChatInv /\ [ChatNext]_chatVars => ChatInv'
<1> SUFFICES ASSUME ChatInv, [ChatNext]_chatVars PROVE ChatInv'
  OBVIOUS
<1>1. CASE \E u \in ChatUsers, s \in ChatSessions : CreateSession(u, s) \/ DeleteSession(u, s)
  BY <1>1, CreateKeeps, DeleteKeeps
<1>2. CASE \E q \in ChatRequests, u \in ChatUsers, s \in ChatSessions : Ask(q, u, s)
  BY <1>2, AskKeeps
<1>3. CASE \E q \in ChatRequests : Serve(q) \/ Leave(q) \/ NextRequest(q)
  BY <1>3, ServeKeeps, AnswerKeeps DEF Serve
<1>4. CASE UNCHANGED chatVars
  BY <1>4 DEF chatVars, ChatInv, ChatTypes, QuestionIsOwn, SessionIsTheTalk, NoStrayMessages, DoneIsStored, QuestionIsSeen
<1> QED BY <1>1, <1>2, <1>3, <1>4 DEF ChatNext

\* However requests, deletions, failures and departures interleave, for any
\* number of users, sessions and requests: messages stay in their session, the
\* question is put to the model (or the prompt is full of older messages), and
\* an answer that was shown whole is kept (chat.py, session_repo.py).
THEOREM TalkIsKept == ChatSpec => []SessionIsTheTalk
<1>1. ChatInv => SessionIsTheTalk
  BY DEF ChatInv
<1> QED BY ChatStarts, ChatInductive, <1>1, PTL DEF ChatSpec
=============================================================================
