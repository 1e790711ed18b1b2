----------------------------- MODULE ToolCalls ------------------------------
(***************************************************************************)
(* Calls of the remote side over MCP.  Request threads (a chat that lists  *)
(* the tools to offer or calls one, a page that probes) hand a coroutine   *)
(* to the one event-loop thread and wait for it, one of them at            *)
(* a time.  The loop thread is started by the first call.  A coroutine     *)
(* opens a session for each attempt; an attempt that meets a network error *)
(* is made again, although the server may have run the tool by then.       *)
(***************************************************************************)
EXTENDS Integers

CONSTANTS Callers,
          CallTries,   \* attempts of a call (3)
          MaxCalls     \* bound: calls of a thread

ASSUME ToolAssumption == CallTries \in Nat \ {0} /\ MaxCalls \in Nat

VARIABLES calls,      \* caller |-> where its thread is, what it wants, what it was told, its calls so far
          remote,     \* caller |-> its coroutine on the loop
          callLock,   \* _mcp_call_lock: who holds it
          loop,       \* the event loop: "none", "starting" or "running"
          toolRuns, netCuts  \* history, of a call: runs of its tool; errors of the network it met

toolVars == <<calls, remote, callLock, loop, toolRuns, netCuts>>

ToolsInit ==
    /\ calls = [c \in Callers |-> [pc |-> "idle", kind |-> "tool", told |-> "", made |-> 0]]
    /\ remote = [c \in Callers |-> [pc |-> "none", tries |-> 0]]
    /\ callLock = {} /\ loop = "none"
    /\ toolRuns = [c \in Callers |-> 0] /\ netCuts = [c \in Callers |-> 0]

CallAt(c, pc) == calls[c].pc = pc
To(c, pc) == calls' = [calls EXCEPT ![c].pc = pc]

\* What is told at the end.  A tool that cannot be called gives the model an error
\* to read; the tools to offer are none, without a word, when the list cannot be
\* had; a probe gives a status.
ToolAnswer(end) == IF end = "returned" THEN "result" ELSE "error"
OfferAnswer(end) == IF end = "returned" THEN "tools" ELSE "no tools"
ProbeAnswer(end) ==
    IF end = "returned" THEN "connected" ELSE IF end = "raised" THEN "unreachable" ELSE "not configured"

ToldOf(kind, end) ==
    CASE kind = "tool" -> ToolAnswer(end) [] kind = "offer" -> OfferAnswer(end) [] kind = "probe" -> ProbeAnswer(end)

Tell(c, end) == calls' = [calls EXCEPT ![c].pc = "done", ![c].told = ToldOf(calls[c].kind, end)]

----------------------------------------------------------------------------
(* The calling thread.                                                     *)

\* Without a configuration, or for a tool that is not on the list, the thread
\* has its answer at once.
AskRemote(c) ==
    /\ calls[c].pc \in {"idle", "done"} /\ calls[c].made < MaxCalls
    /\ \E kind \in {"tool", "offer", "probe"}, pc \in {"queued", "done"} :
         calls' = [calls EXCEPT ![c] = [pc |-> pc, kind |-> kind, made |-> @.made + 1,
                                        told |-> IF pc = "done" THEN ToldOf(kind, "refused") ELSE ""]]
    /\ toolRuns' = [toolRuns EXCEPT ![c] = 0] /\ netCuts' = [netCuts EXCEPT ![c] = 0]
    /\ UNCHANGED <<remote, callLock, loop>>

TakeLock(c) ==
    /\ CallAt(c, "queued") /\ callLock = {}
    /\ callLock' = {c} /\ To(c, "loop")
    /\ UNCHANGED <<remote, loop, toolRuns, netCuts>>

\* _ensure_event_loop: a loop that does not run yet is started, in a thread of its own.
EnsureLoop(c) ==
    /\ CallAt(c, "loop") /\ To(c, "ready")
    /\ loop' = IF loop = "running" THEN loop ELSE "starting"
    /\ UNCHANGED <<remote, callLock, toolRuns, netCuts>>

LoopStarts ==
    /\ loop = "starting" /\ loop' = "running"
    /\ UNCHANGED <<calls, remote, callLock, toolRuns, netCuts>>

Submit(c) ==
    /\ CallAt(c, "ready") /\ loop = "running"
    /\ To(c, "result") /\ remote' = [remote EXCEPT ![c] = [pc |-> "try", tries |-> 0]]
    /\ UNCHANGED <<callLock, loop, toolRuns, netCuts>>

\* Ten seconds are over and the loop is not ready: the call fails before
\* anything was handed over.  The loop's thread goes on.
LoopIsLate(c) ==
    /\ CallAt(c, "ready") /\ loop = "starting"
    /\ Tell(c, "raised") /\ callLock' = {}
    /\ UNCHANGED <<remote, loop, toolRuns, netCuts>>

\* Mutant: a call that failed leaves its thread with the lock.
TakeResultHolding(c) ==
    /\ CallAt(c, "result") /\ remote[c].pc \in {"returned", "raised"}
    /\ Tell(c, remote[c].pc)
    /\ callLock' = (IF remote[c].pc = "returned" THEN {} ELSE callLock)
    /\ remote' = [remote EXCEPT ![c].pc = "none"]
    /\ UNCHANGED <<loop, toolRuns, netCuts>>

\* Mutant: a thread that waits for so long and no longer, and leaves its coroutine behind.
TakeResultInTime(c) ==
    /\ CallAt(c, "result")
    /\ Tell(c, IF remote[c].pc = "returned" THEN "returned" ELSE "raised")
    /\ callLock' = {}
    /\ remote' = IF remote[c].pc \in {"returned", "raised"} THEN [remote EXCEPT ![c].pc = "none"] ELSE remote
    /\ UNCHANGED <<loop, toolRuns, netCuts>>

\* future.result() has no limit of its own: the thread waits for the end.
TakeResult(c) ==
    /\ CallAt(c, "result") /\ remote[c].pc \in {"returned", "raised"}
    /\ Tell(c, remote[c].pc)
    /\ callLock' = {} /\ remote' = [remote EXCEPT ![c].pc = "none"]
    /\ UNCHANGED <<loop, toolRuns, netCuts>>

----------------------------------------------------------------------------
(* The coroutine.                                                          *)

\* A session opened and initialised, the server gets the request and runs the
\* tool (or lists its tools).
ServerRuns(c) ==
    /\ remote[c].pc = "try" /\ loop = "running"
    /\ toolRuns' = [toolRuns EXCEPT ![c] = @ + 1] /\ remote' = [remote EXCEPT ![c].pc = "ran"]
    /\ UNCHANGED <<calls, callLock, loop, netCuts>>

ResultArrives(c) ==
    /\ remote[c].pc = "ran" /\ remote' = [remote EXCEPT ![c].pc = "returned"]
    /\ UNCHANGED <<calls, callLock, loop, toolRuns, netCuts>>

\* _with_retry: only after errors of the network or the stream, while there are
\* attempts left.
TriesAgain(network, tries) == network /\ tries < CallTries

\* An attempt fails, before or after the server ran the tool: of the network, or
\* of the package, the protocol or the server.
AttemptFails(c, network) ==
    /\ remote[c].pc \in {"try", "ran"} /\ loop = "running"
    /\ netCuts' = [netCuts EXCEPT ![c] = IF network THEN @ + 1 ELSE @]
    /\ LET tries == remote[c].tries + 1 IN
       remote' = [remote EXCEPT ![c] = [pc |-> IF TriesAgain(network, tries) THEN "try" ELSE "raised", tries |-> tries]]
    /\ UNCHANGED <<calls, callLock, loop, toolRuns>>

CallerStep(c) ==
    TakeLock(c) \/ EnsureLoop(c) \/ Submit(c) \/ LoopIsLate(c) \/ TakeResult(c)

RemoteStep(c) ==
    ServerRuns(c) \/ ResultArrives(c) \/ \E network \in BOOLEAN : AttemptFails(c, network)

\* What goes on by itself, with no request: every attempt has a time limit.
ToolStep == LoopStarts \/ \E c \in Callers : CallerStep(c) \/ RemoteStep(c)

ToolsNext == ToolStep \/ \E c \in Callers : AskRemote(c)

ToolsSpec == ToolsInit /\ [][ToolsNext]_toolVars

----------------------------------------------------------------------------
(* Properties.                                                             *)

\* A tool is run again only for a network error: a tool whose run ended in an
\* error of its own is not run twice, and no call runs it more than CallTries times.
RunAgainForTheNetwork ==
    \A c \in Callers : toolRuns[c] <= 1 + netCuts[c] /\ toolRuns[c] <= CallTries

\* Nothing is run for a thread that has its answer, so that what the assistant
\* is told is over when it is told; a result is told only of a tool that was run.
NothingRunsBehind ==
    [][\A c \in Callers :
         /\ calls[c].pc = "done" => toolRuns'[c] <= toolRuns[c]
         /\ calls'[c].told = "result" => toolRuns'[c] > 0]_toolVars

\* A remote tool is run no more often and no later than its caller is told: see
\* the two parts.
RunsAreTold == []RunAgainForTheNetwork /\ NothingRunsBehind

\* A call that waits, for the lock or for the remote side, ends.
EveryCallEnds == \A c \in Callers : CallAt(c, "queued") ~> CallAt(c, "done")
=============================================================================
