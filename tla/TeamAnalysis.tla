---------------------------- MODULE TeamAnalysis ----------------------------
(***************************************************************************)
(* One request for a team analysis, streamed to the browser.  In deep mode *)
(* a worker thread per analyst streams an answer of the model into one     *)
(* queue; the request's generator shows the queue's events until it has    *)
(* seen each analyst's "done", then lets the chief stream a report over    *)
(* the analysts' texts, saves the report and adds it to the chat session   *)
(* the request came from.  Each stream may break off, the commit may fail, *)
(* the session may be deleted and the browser may leave at any event.      *)
(* A text is the number of the model's pieces it holds, and whether the    *)
(* rules' fallback text is in it.                                          *)
(***************************************************************************)
EXTENDS Integers, FiniteSets, Sequences

CONSTANTS Analysts,     \* _SUB_AGENTS
          NoText,
          MaxPieces     \* bound: pieces a stream of the model delivers

ASSUME TeamAssumption == MaxPieces \in Nat /\ Analysts /= {} /\ "chief" \notin Analysts

VARIABLES team,         \* where the generator stands, its mode, whether a session is named
          workers,      \* analyst |-> what its thread is doing
          texts,        \* texts_buf: analyst |-> its text so far
          events,       \* the queue: <<analyst, kind, text>>
          remaining,    \* analysts whose "done" the generator has not seen
          shown,        \* agent |-> the text of its "done" event, NoText before it
          chunks,       \* what the chief has streamed
          analystTexts, \* the texts given to the chief: the container filled at the end
          saved,        \* the row of the report
          message,      \* the message in the chat session
          sessionLives, broken   \* the chat session exists; the database session needs a rollback

teamVars == <<team, workers, texts, events, remaining, shown, chunks, analystTexts,
              saved, message, sessionLives, broken>>
analystVars == <<workers, texts, events, remaining>>
endVars == <<saved, message, broken>>

Agents == Analysts \cup {"chief"}
Blank == [pieces |-> 0, fallback |-> FALSE]
Over == {"finished", "failed", "left"}

TeamInit ==
    /\ team = [pc |-> "idle", mode |-> "fast", linked |-> FALSE]
    /\ workers = [a \in Analysts |-> "off"] /\ texts = [a \in Analysts |-> Blank]
    /\ events = <<>> /\ remaining = Analysts
    /\ shown = [g \in Agents |-> NoText] /\ chunks = Blank /\ analystTexts = [a \in Analysts |-> Blank]
    /\ saved = NoText /\ message = NoText /\ sessionLives = TRUE /\ broken = FALSE

At(pc) == team.pc = pc
GoOn(pc) == team' = [team EXCEPT !.pc = pc]

\* A prefetch that reports an error ends the stream; in fast mode the scores
\* stand for the analysts and the chief begins at once.
StartTeam(mode, linked) ==
    /\ At("idle")
    /\ \E pc \in {"failed", IF mode = "deep" THEN "analysts" ELSE "chief"} :
         /\ team' = [pc |-> pc, mode |-> mode, linked |-> linked]
         /\ workers' = IF pc = "analysts" THEN [a \in Analysts |-> "streaming"] ELSE workers
    /\ UNCHANGED <<texts, events, remaining, shown, chunks, analystTexts, endVars, sessionLives>>

----------------------------------------------------------------------------
(* The analysts' threads.                                                  *)

Put(a, kind, text) == events' = Append(events, [agent |-> a, kind |-> kind, text |-> text])

AnalystPiece(a) ==
    /\ workers[a] = "streaming" /\ texts[a].pieces < MaxPieces
    /\ texts' = [texts EXCEPT ![a].pieces = @ + 1]
    /\ Put(a, "delta", texts'[a])
    /\ UNCHANGED <<team, workers, remaining, shown, chunks, analystTexts, endVars, sessionLives>>

AnalystEnds(a) ==
    /\ workers[a] = "streaming"
    /\ workers' = [workers EXCEPT ![a] = "closing"]
    /\ UNCHANGED <<team, texts, events, remaining, shown, chunks, analystTexts, endVars, sessionLives>>

\* The rules' text takes the place of what was streamed.
AnalystFails(a) ==
    /\ workers[a] = "streaming"
    /\ workers' = [workers EXCEPT ![a] = "closing"]
    /\ texts' = [texts EXCEPT ![a] = [pieces |-> 0, fallback |-> TRUE]]
    /\ Put(a, "delta", texts'[a])
    /\ UNCHANGED <<team, remaining, shown, chunks, analystTexts, endVars, sessionLives>>

AnalystDone(a) ==
    /\ workers[a] = "closing"
    /\ workers' = [workers EXCEPT ![a] = "over"]
    /\ Put(a, "done", texts[a])
    /\ UNCHANGED <<team, texts, remaining, shown, chunks, analystTexts, endVars, sessionLives>>

----------------------------------------------------------------------------
(* The generator.                                                          *)

\* Mutant: the first analyst that is done ends the wait.
WaitsForFirst(left) == Cardinality(left) = Cardinality(Analysts)

WaitsFor(left) == left /= {}

ShowEvent ==
    /\ At("analysts") /\ events /= <<>> /\ WaitsFor(remaining)
    /\ LET e == Head(events)
       IN  IF e.kind = "done"
           THEN remaining' = remaining \ {e.agent} /\ shown' = [shown EXCEPT ![e.agent] = e.text]
           ELSE UNCHANGED <<remaining, shown>>
    /\ events' = Tail(events)
    /\ UNCHANGED <<team, workers, texts, chunks, analystTexts, endVars, sessionLives>>

\* The pool is left once its threads have ended; then the container is filled.
CloseAnalysts ==
    /\ At("analysts") /\ ~WaitsFor(remaining) /\ \A a \in Analysts : workers[a] = "over"
    /\ GoOn("chief") /\ analystTexts' = texts
    /\ UNCHANGED <<analystVars, shown, chunks, endVars, sessionLives>>

ChiefPiece ==
    /\ At("chief") /\ chunks.pieces < MaxPieces
    /\ chunks' = [chunks EXCEPT !.pieces = @ + 1]
    /\ UNCHANGED <<team, analystVars, shown, analystTexts, endVars, sessionLives>>

\* The fallback report holds the analysts' texts, or the rules' summaries.
FallbackReport == [pieces |-> 0, fallback |-> TRUE]

ShowReport(text) ==
    /\ At("chief") /\ GoOn("report")
    /\ shown' = [shown EXCEPT !["chief"] = text] /\ chunks' = text
    /\ UNCHANGED <<analystVars, analystTexts, endVars, sessionLives>>

ChiefEnds == ShowReport(chunks)
ChiefFails == ShowReport(FallbackReport)

\* The system's "done" event has been shown: the caller goes on to save.
ReportShown ==
    /\ At("report") /\ GoOn("persist")
    /\ UNCHANGED <<analystVars, shown, chunks, analystTexts, endVars, sessionLives>>

\* persist_team_report: a report is kept when it has text under its heading, which
\* the fallback has and the model may have left out, and the commit works.
Kept(headed, works) ==
    IF headed /\ chunks /= Blank /\ works THEN chunks ELSE saved

\* A commit that fails is logged and leaves the database session unusable.
PersistReport ==
    /\ At("persist") /\ GoOn("finalize")
    /\ \E headed \in {TRUE, chunks.fallback}, works \in BOOLEAN :
         /\ saved' = Kept(headed, works)
         /\ broken' = (headed /\ chunks /= Blank /\ ~works)
    /\ UNCHANGED <<analystVars, shown, chunks, analystTexts, message, sessionLives>>

\* The report becomes a message of the session, unless that is gone by now or
\* the database session is broken: then the stream ends with an error.
FinalizeTeam ==
    /\ At("finalize")
    /\ IF ~team.linked \/ chunks = Blank THEN GoOn("finished") /\ UNCHANGED message
       ELSE IF broken \/ ~sessionLives THEN GoOn("failed") /\ UNCHANGED message
       ELSE GoOn("finished") /\ message' = chunks
    /\ UNCHANGED <<analystVars, shown, chunks, analystTexts, saved, broken, sessionLives>>

\* The browser leaves: the generator is closed at the event it shows.  Inside the
\* pool it first waits for the threads.
LeaveTeam ==
    /\ team.pc \in {"analysts", "chief", "report"}
    /\ GoOn(IF At("analysts") THEN "leaving" ELSE "left")
    /\ UNCHANGED <<analystVars, shown, chunks, analystTexts, endVars, sessionLives>>

PoolClosed ==
    /\ At("leaving") /\ \A a \in Analysts : workers[a] = "over"
    /\ GoOn("left")
    /\ UNCHANGED <<analystVars, shown, chunks, analystTexts, endVars, sessionLives>>

DeleteChatSession ==
    /\ sessionLives /\ sessionLives' = FALSE
    /\ UNCHANGED <<team, analystVars, shown, chunks, analystTexts, endVars>>

AnalystStep(a) == AnalystPiece(a) \/ AnalystEnds(a) \/ AnalystFails(a) \/ AnalystDone(a)
GeneratorStep ==
    ShowEvent \/ CloseAnalysts \/ ChiefPiece \/ ChiefEnds \/ ChiefFails \/ ReportShown
    \/ PersistReport \/ FinalizeTeam \/ PoolClosed

TeamNext ==
    \/ \E mode \in {"fast", "deep"}, linked \in BOOLEAN : StartTeam(mode, linked)
    \/ \E a \in Analysts : AnalystStep(a)
    \/ GeneratorStep \/ LeaveTeam \/ DeleteChatSession

TeamSpec == TeamInit /\ [][TeamNext]_teamVars

----------------------------------------------------------------------------
\* The chief reports on the texts the reader was shown as finished, although a
\* thread goes on writing to its buffer while the queue is read.
ChiefReadsWhatIsShown ==
    team.mode = "deep" /\ team.pc \in {"chief", "report", "persist", "finalize", "finished"}
        => \A a \in Analysts : analystTexts[a] = shown[a]

\* The reader, the table of reports and the chat session never keep different
\* reports, and none of them keeps the stump of a stream that broke off.
OneReport ==
    /\ saved \in {NoText, shown["chief"]} /\ message \in {NoText, shown["chief"]}
    /\ shown["chief"] = NoText \/ ~shown["chief"].fallback \/ shown["chief"].pieces = 0

\* One report is shown, kept and made of what was shown: see the two parts.
ReportIsShown == ChiefReadsWhatIsShown /\ OneReport

\* Once the streams of the model end, so does the request: with a report, with
\* an error, or, when the browser has left, when the last thread is over.
TeamEnds == At("analysts") \/ At("chief") ~> team.pc \in Over
=============================================================================
