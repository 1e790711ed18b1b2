------------------------------ MODULE Proposals ------------------------------
(***************************************************************************)
(* Writes proposed by the AI agent.  A proposal waits in a dictionary of   *)
(* the process until its user confirms or rejects it or ten minutes pass;  *)
(* confirming executes the write tool.  Requests run in threads of the     *)
(* server's pool: the store's mutex covers the lookup, not the decision.   *)
(*                                                                         *)
(*   backend/app/services/ai/ai_proposals.py                               *)
(*   backend/app/services/ai/tools/write.py   execute_write_tool           *)
(*                                                                         *)
(* A Proposal object outlives its entry in the store while a request holds *)
(* it, so its fields and the set of stored ids are kept apart.             *)
(***************************************************************************)
EXTENDS Naturals

CONSTANTS
  Ids,         \* ids of the proposals that may be created
  Users,
  Requests,    \* threads that serve confirm and reject requests
  Nothing,     \* no proposal, no user
  TTL,         \* PROPOSAL_TTL_SEC in steps of the clock
  MaxClock,    \* bound on the clock
  MaxWrites,   \* bound: executions of one proposal
  LateErrors   \* a write tool may answer with an error after it committed

ASSUME ProposalAssumption ==
  /\ TTL \in Nat /\ MaxClock \in Nat /\ MaxWrites \in Nat \ {0}
  /\ Nothing \notin Ids \cup Users
  /\ LateErrors \in BOOLEAN

VARIABLES
  clock,
  stored,   \* the keys of _STORE
  owner, born, status,  \* fields of each Proposal object
  req,      \* what each request does: operation, proposal, user, step
  writes,   \* how often each proposal's write reached the database
  answered  \* answered[p]: the successful answers given about p

fields == <<owner, born>>
vars == <<clock, stored, owner, born, status, req, writes, answered>>

Free == [op |-> "none", p |-> Nothing, u |-> Nothing, pc |-> "free", since |-> 0]

RequestRec ==
  [op: {"none", "confirm", "reject"}, p: Ids \cup {Nothing}, u: Users \cup {Nothing},
   pc: {"free", "found", "live", "decide", "executed"}, since: 0 .. MaxClock]

Init ==
  /\ clock = 0 /\ stored = {}
  /\ owner = [p \in Ids |-> Nothing]
  /\ born = [p \in Ids |-> 0]
  /\ status = [p \in Ids |-> "pending"]
  /\ req = [q \in Requests |-> Free]
  /\ writes = [p \in Ids |-> 0]
  /\ answered = [p \in Ids |-> {}]

Expired(p) == clock - born[p] > TTL

Unexpired == {p \in stored : ~Expired(p)}

----------------------------------------------------------------------------
(* Requests.                                                               *)

Goto(q, from, to) ==
  /\ req[q].pc = from
  /\ req' = [req EXCEPT ![q].pc = to]

\* A request that ends, with an answer or with an error.
Return(q, from) ==
  /\ req[q].pc = from
  /\ req' = [req EXCEPT ![q] = Free]

\* create_proposal, called by the agent while it streams.
Create(p, u) ==
  /\ owner[p] = Nothing
  /\ owner' = [owner EXCEPT ![p] = u]
  /\ born' = [born EXCEPT ![p] = clock]
  /\ stored' = Unexpired \cup {p}
  /\ UNCHANGED <<clock, status, req, writes, answered>>

\* get_proposal, under the mutex: purge, then look the id up.
Lookup(q, op, p, u) ==
  /\ req[q].pc = "free"
  /\ stored' = Unexpired
  /\ req' = IF p \in Unexpired
            THEN [req EXCEPT ![q] =
                    [op |-> op, p |-> p, u |-> u, pc |-> "found", since |-> clock]]
            ELSE req
  /\ UNCHANGED <<clock, fields, status, writes, answered>>

\* Mutated form: the owner is not compared.
CheckAnyOwner(q) ==
  LET p == req[q].p IN
  /\ req[q].pc = "found"
  /\ \/ Expired(p) /\ Return(q, "found") /\ stored' = stored \ {p}
     \/ ~Expired(p) /\ Goto(q, "found", "live") /\ UNCHANGED stored
  /\ UNCHANGED <<clock, fields, status, writes, answered>>

\* ... outside the mutex: the owner, then the age once more.
Check(q) ==
  LET p == req[q].p IN
  /\ req[q].pc = "found"
  /\ \/ owner[p] # req[q].u /\ Return(q, "found") /\ UNCHANGED stored
     \/ owner[p] = req[q].u /\ Expired(p) /\ Return(q, "found") /\ stored' = stored \ {p}
     \/ owner[p] = req[q].u /\ ~Expired(p) /\ Goto(q, "found", "live") /\ UNCHANGED stored
  /\ UNCHANGED <<clock, fields, status, writes, answered>>

\* Mutated form: the status is not looked at.
CheckAnyStatus(q) ==
  /\ Goto(q, "live", "decide")
  /\ UNCHANGED <<clock, stored, fields, status, writes, answered>>

\* Only a pending proposal can be decided, otherwise 409.
CheckStatus(q) ==
  /\ req[q].pc = "live"
  /\ \/ status[req[q].p] = "pending" /\ Goto(q, "live", "decide")
     \/ status[req[q].p] # "pending" /\ Return(q, "live")
  /\ UNCHANGED <<clock, stored, fields, status, writes, answered>>

Reject(q) ==
  /\ req[q].op = "reject"
  /\ Return(q, "decide")
  /\ status' = [status EXCEPT ![req[q].p] = "rejected"]
  /\ answered' = [answered EXCEPT ![req[q].p] = @ \cup {"rejected"}]
  /\ UNCHANGED <<clock, stored, fields, writes>>

\* Mutated form: the status is set whether or not the tool failed.
ExecuteIgnoringErrors(q) ==
  /\ req[q].op = "confirm"
  /\ writes[req[q].p] < MaxWrites
  /\ Goto(q, "decide", "executed")
  /\ writes' \in {writes, [writes EXCEPT ![req[q].p] = @ + 1]}
  /\ UNCHANGED <<clock, stored, fields, status, answered>>

\* execute_write_tool: the write commits, or the tool answers with an error,
\* which ends the request with 400 and leaves the proposal pending.
Execute(q) ==
  /\ req[q].op = "confirm"
  /\ writes[req[q].p] < MaxWrites
  /\ \/ Goto(q, "decide", "executed")
     \/ Return(q, "decide")
  /\ writes' \in IF req'[q].pc = "executed" THEN {[writes EXCEPT ![req[q].p] = @ + 1]}
                 ELSE {writes} \cup
                      (IF LateErrors THEN {[writes EXCEPT ![req[q].p] = @ + 1]} ELSE {})
  /\ UNCHANGED <<clock, stored, fields, status, answered>>

Confirm(q) ==
  /\ Return(q, "executed")
  /\ status' = [status EXCEPT ![req[q].p] = "confirmed"]
  /\ answered' = [answered EXCEPT ![req[q].p] = @ \cup {"confirmed"}]
  /\ UNCHANGED <<clock, stored, fields, writes>>

----------------------------------------------------------------------------

ClockTick ==
  /\ clock < MaxClock
  /\ clock' = clock + 1
  /\ UNCHANGED <<stored, fields, status, req, writes, answered>>

\* The process restarts: the store is empty, requests are cut off.
Restart ==
  /\ stored' = {}
  /\ req' = [q \in Requests |-> Free]
  /\ UNCHANGED <<clock, fields, status, writes, answered>>

Step(q) == Check(q) \/ CheckStatus(q) \/ Reject(q) \/ Execute(q) \/ Confirm(q)

Next ==
  \/ \E p \in Ids, u \in Users : Create(p, u)
  \/ \E q \in Requests, op \in {"confirm", "reject"}, p \in Ids, u \in Users :
       Lookup(q, op, p, u)
  \/ \E q \in Requests : Step(q)
  \/ ClockTick
  \/ Restart

Spec == Init /\ [][Next]_vars

----------------------------------------------------------------------------
(* Properties.                                                             *)

TypeOK ==
  /\ clock \in 0 .. MaxClock
  /\ stored \subseteq Ids
  /\ owner \in [Ids -> Users \cup {Nothing}]
  /\ born \in [Ids -> 0 .. MaxClock]
  /\ status \in [Ids -> {"pending", "confirmed", "rejected"}]
  /\ req \in [Requests -> RequestRec]
  /\ writes \in [Ids -> 0 .. MaxWrites]
  /\ answered \in [Ids -> SUBSET {"confirmed", "rejected"}]

\* A proposal marked or answered as confirmed has been written, whatever
\* else is decided about it meanwhile (ai_proposals.py 96-106).
ConfirmedIsWritten ==
  \A p \in Ids :
    status[p] = "confirmed" \/ "confirmed" \in answered[p] => writes[p] > 0

\* Nothing is written for another user, nor by a request that came after the
\* proposal had expired (ai_proposals.py 66-78); a request that came in time
\* may still execute after the TTL.
WriteIsAuthorised ==
  [][\A p \in Ids : writes'[p] > writes[p] =>
       \E q \in Requests :
         /\ req[q].p = p /\ req[q].u = owner[p]
         /\ req[q].since - born[p] <= TTL]_vars

\* A proposal is good for one write (ai-write-confirm design, section on
\* safety).  Holds for one request at a time; refuted for two.
WrittenOnce == \A p \in Ids : writes[p] <= 1

\* What the user was told stays true: a proposal is never both confirmed and
\* rejected.  Holds for one request at a time; refuted for two.
OneDecision == \A p \in Ids : answered[p] # {"confirmed", "rejected"}

\* A proposal is decided once and written at most once: see the two parts.
DecidedOnce == WrittenOnce /\ OneDecision

=============================================================================
