------------------------------- MODULE Chat --------------------------------
(***************************************************************************)
(* Sessions of the AI page and the requests that stream an answer.  A      *)
(* request stores the user's message, reads the history for its prompt,    *)
(* lets the model call tools for a few rounds and stores the answer.  No   *)
(* transaction spans it: meanwhile the session may be deleted, another     *)
(* request may write to it, the model may fail or the browser may leave.   *)
(***************************************************************************)
EXTENDS Integers, FiniteSets, Sequences

CONSTANTS ChatUsers, ChatSessions, ChatRequests, NoOwner,
          HistoryLimit,    \* messages the prompt takes from a session
          MaxToolRounds,   \* MAX_TOOL_ROUNDS
          MaxMessages      \* bound: messages ever stored

ASSUME ChatAssumption ==
    /\ NoOwner \notin ChatUsers
    /\ HistoryLimit \in Nat \ {0} /\ MaxToolRounds \in Nat /\ MaxMessages \in Nat

VARIABLES chatOwner,  \* session |-> the user it belongs to, NoOwner: no such row
          messages,   \* chat.messages by id; a deleted message leaves role "gone"
          asks,       \* request |-> what it is doing
          proposed    \* write proposals the agent put before the user: <<user, request>>

chatVars == <<chatOwner, messages, asks, proposed>>

Working == {"rounds", "ready", "store"}
NoAsk == [pc |-> "idle", user |-> NoOwner, session |-> NoOwner, question |-> 0, prompt |-> {}, rounds |-> 0]

ChatInit ==
    /\ chatOwner = [s \in ChatSessions |-> NoOwner]
    /\ messages = <<>> /\ proposed = {}
    /\ asks = [q \in ChatRequests |-> NoAsk]

----------------------------------------------------------------------------
CreateSession(u, s) ==
    /\ chatOwner[s] = NoOwner
    /\ \A i \in 1..Len(messages) : messages[i].session /= s   \* session ids are fresh
    /\ chatOwner' = [chatOwner EXCEPT ![s] = u]
    /\ UNCHANGED <<messages, asks, proposed>>

\* The messages of the user in the session and the session go in one transaction.
DeleteSession(u, s) ==
    /\ chatOwner[s] = u
    /\ chatOwner' = [chatOwner EXCEPT ![s] = NoOwner]
    /\ messages' = [i \in 1..Len(messages) |->
                      IF messages[i].session = s /\ messages[i].user = u
                      THEN [messages[i] EXCEPT !.role = "gone"] ELSE messages[i]]
    /\ UNCHANGED <<asks, proposed>>

\* list_messages(limit): the messages of a session in the order of their ids,
\* at most limit of them.
ListMessages(table, u, s, limit) ==
    LET own == {i \in 1..Len(table) : table[i].session = s /\ table[i].user = u /\ table[i].role /= "gone"}
    IN  {i \in own : Cardinality({j \in own : j < i}) < limit}

Stored(u, s, role) == Append(messages, [session |-> s, user |-> u, role |-> role])

\* Mutant: the history is read before the question is stored.
HistoryBefore(u, s) == ListMessages(messages, u, s, HistoryLimit)

History(u, s) == ListMessages(messages', u, s, HistoryLimit)

\* The question is committed, then the prompt is read; without tools the model
\* answers at once.  An unknown session is refused before anything is stored.
Ask(q, u, s) ==
    /\ asks[q].pc = "idle" /\ chatOwner[s] = u /\ Len(messages) < MaxMessages
    /\ messages' = Stored(u, s, "user")
    /\ \E tools \in BOOLEAN :
         asks' = [asks EXCEPT ![q] =
                    [pc |-> IF tools THEN "rounds" ELSE "ready", user |-> u, session |-> s,
                     question |-> Len(messages'), prompt |-> History(u, s), rounds |-> 0]]
    /\ UNCHANGED <<chatOwner, proposed>>

RoundsLeft(q) == asks[q].rounds + 1 < MaxToolRounds

\* The model asks for tools: a read runs at once, a write becomes a proposal.
\* After the last round the model has to answer without tools.
ToolRound(q) ==
    /\ asks[q].pc = "rounds"
    /\ \E writes \in BOOLEAN :
         proposed' = IF writes THEN proposed \cup {<<asks[q].user, q>>} ELSE proposed
    /\ asks' = [asks EXCEPT ![q] = IF RoundsLeft(q) THEN [asks[q] EXCEPT !.rounds = (@ + 1) % MaxToolRounds]
                                   ELSE [asks[q] EXCEPT !.pc = "ready"]]
    /\ UNCHANGED <<chatOwner, messages>>

\* The model answers, in a round or when it has to.
Answer(q) ==
    /\ asks[q].pc \in {"rounds", "ready"}
    /\ asks' = [asks EXCEPT ![q].pc = "store"]
    /\ UNCHANGED <<chatOwner, messages, proposed>>

\* The model's API fails, or breaks off in the middle: the stream ends with an
\* error and what was streamed is not stored.
LlmFails(q) ==
    /\ asks[q].pc \in {"rounds", "ready"}
    /\ asks' = [asks EXCEPT ![q].pc = "error"]
    /\ UNCHANGED <<chatOwner, messages, proposed>>

Storable(q) == chatOwner[asks[q].session] = asks[q].user

\* finalize_stream: the answer is stored unless the session has been deleted.
StoreAnswer(q) ==
    /\ asks[q].pc = "store" /\ Len(messages) < MaxMessages
    /\ IF Storable(q)
       THEN /\ messages' = Stored(asks[q].user, asks[q].session, "assistant")
            /\ asks' = [asks EXCEPT ![q].pc = "done"]
       ELSE asks' = [asks EXCEPT ![q].pc = "error"] /\ UNCHANGED messages
    /\ UNCHANGED <<chatOwner, proposed>>

\* The browser leaves in the middle of the stream: the generator is closed.
Leave(q) ==
    /\ asks[q].pc \in Working
    /\ asks' = [asks EXCEPT ![q].pc = "gone"]
    /\ UNCHANGED <<chatOwner, messages, proposed>>

NextRequest(q) ==
    /\ asks[q].pc \in {"done", "error", "gone"}
    /\ asks' = [asks EXCEPT ![q] = NoAsk]
    /\ UNCHANGED <<chatOwner, messages, proposed>>

Serve(q) == ToolRound(q) \/ Answer(q) \/ LlmFails(q) \/ StoreAnswer(q)

ChatNext ==
    \/ \E u \in ChatUsers, s \in ChatSessions : CreateSession(u, s) \/ DeleteSession(u, s)
    \/ \E q \in ChatRequests, u \in ChatUsers, s \in ChatSessions : Ask(q, u, s)
    \/ \E q \in ChatRequests : Serve(q) \/ Leave(q) \/ NextRequest(q)

ChatSpec == ChatInit /\ [][ChatNext]_chatVars

----------------------------------------------------------------------------
\* No message outlives its session or moves to another user's, although an
\* answer is stored long after the session was looked up.
NoStrayMessages ==
    \A i \in 1..Len(messages) :
        messages[i].role /= "gone" => chatOwner[messages[i].session] = messages[i].user

\* A stream that ends with "done" has left its question and, after it, an
\* answer in the session, as long as the session exists.
DoneIsStored ==
    \A q \in ChatRequests :
        (asks[q].pc = "done" /\ messages[asks[q].question].role /= "gone")
            => \E i \in asks[q].question + 1 .. Len(messages) :
                  /\ messages[i].role = "assistant"
                  /\ messages[i].session = messages[asks[q].question].session

\* Whatever tools the model asks for, a request ends.
EveryAskEnds == \A q \in ChatRequests : asks[q].pc = "rounds" ~> asks[q].pc \notin {"rounds", "ready"}

\* The model is shown the question it is to answer as long as the session held
\* fewer messages than the prompt takes; in a longer one it is not, for the
\* prompt takes the oldest.
QuestionIsSeen ==
    \A q \in ChatRequests :
        asks[q].pc \in Working =>
            \/ asks[q].question \in asks[q].prompt
            \/ Cardinality(asks[q].prompt) = HistoryLimit

\* A session is the talk that was had: messages stay in it, the question is put
\* to the model, and an answer that was shown whole is kept.
SessionIsTheTalk == NoStrayMessages /\ DoneIsStored /\ QuestionIsSeen
=============================================================================
