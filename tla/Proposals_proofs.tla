-------------------------- MODULE Proposals_proofs --------------------------
(***************************************************************************)
(* Theorems of Proposals.  For any number of concurrent requests: what is  *)
(* confirmed has been written.  For requests that come one at a time, and  *)
(* tools whose errors mean that nothing was written: a proposal is written *)
(* at most once, is never both confirmed and rejected, and is not written  *)
(* after a rejection; the run "written_twice" shows that this part needs   *)
(* its hypothesis.  For any number of requests again: a write is made for  *)
(* the user who owns the proposal, by a request that came in time.         *)
(***************************************************************************)
EXTENDS Proposals, TLAPS

\* A request under way is about a proposal that exists.
Busy ==
  \A q \in Requests : req[q].pc # "free" => req[q].p \in Ids

\* Executed requests have written; with ConfirmedIsWritten it is inductive.
ExecutedIsWritten ==
  \A q \in Requests : req[q].pc = "executed" => writes[req[q].p] > 0

WrittenInv == TypeOK /\ Busy /\ ExecutedIsWritten /\ ConfirmedIsWritten

LEMMA InitWritten == Init => WrittenInv
<1>1. 0 \in 0 .. MaxClock /\ 0 \in 0 .. MaxWrites
  BY ProposalAssumption
<1>2. Free \in RequestRec
  BY <1>1 DEF Free, RequestRec
<1> QED
  BY <1>1, <1>2
  DEF Init, WrittenInv, TypeOK, Busy, ExecutedIsWritten, ConfirmedIsWritten, Free

\* Moving one request to a step, or ending it.
LEMMA GotoFacts ==
  ASSUME TypeOK, NEW q \in Requests, NEW from,
         NEW to \in {"live", "decide", "executed"}, Goto(q, from, to)
  PROVE  /\ req' \in [Requests -> RequestRec]
         /\ req[q].pc = from
         /\ req'[q].pc = to /\ req'[q].p = req[q].p
         /\ \A r \in Requests : r # q => req'[r] = req[r]
BY DEF TypeOK, RequestRec, Goto

LEMMA ReturnFacts ==
  ASSUME TypeOK, NEW q \in Requests, NEW from, Return(q, from)
  PROVE  /\ req' \in [Requests -> RequestRec]
         /\ req[q].pc = from
         /\ req'[q] = Free /\ req'[q].pc = "free"
         /\ \A r \in Requests : r # q => req'[r] = req[r]
<1>1. 0 \in 0 .. MaxClock
  BY ProposalAssumption
<1>2. Free \in RequestRec /\ Free.pc = "free"
  BY <1>1 DEF Free, RequestRec
<1> QED
  BY <1>2 DEF TypeOK, Return

LEMMA LookupFacts ==
  ASSUME TypeOK, NEW q \in Requests, NEW op \in {"confirm", "reject"},
         NEW p \in Ids, NEW u \in Users, Lookup(q, op, p, u)
  PROVE  /\ req' \in [Requests -> RequestRec]
         /\ req' = req \/ (/\ req'[q].pc = "found" /\ req'[q].p = p
                           /\ p \in stored /\ req[q].pc = "free")
         /\ \A r \in Requests : r # q => req'[r] = req[r]
<1>1. [op |-> op, p |-> p, u |-> u, pc |-> "found", since |-> clock] \in RequestRec
  BY DEF TypeOK, RequestRec
<1> QED
  BY <1>1 DEF TypeOK, Lookup, Unexpired

LEMMA ExecuteFacts ==
  ASSUME TypeOK, Busy, NEW q \in Requests, Execute(q)
  PROVE  /\ req[q].p \in Ids
         /\ writes' = writes \/ writes' = [writes EXCEPT ![req[q].p] = @ + 1]
         /\ writes' \in [Ids -> 0 .. MaxWrites]
         /\ \A p \in Ids : writes'[p] >= writes[p]
         /\ Goto(q, "decide", "executed") =>
              /\ writes' = [writes EXCEPT ![req[q].p] = @ + 1]
              /\ writes'[req[q].p] > 0
<1>0. req[q].pc = "decide"
  BY DEF Execute, Goto, Return
<1>1. req[q].p \in Ids
  BY <1>0 DEF Busy
<1>2. writes' = writes \/ writes' = [writes EXCEPT ![req[q].p] = @ + 1]
  BY DEF Execute
<1>3. writes[req[q].p] + 1 \in 0 .. MaxWrites
  BY <1>1, ProposalAssumption DEF Execute, TypeOK
<1>4. writes' \in [Ids -> 0 .. MaxWrites]
  BY <1>1, <1>2, <1>3 DEF TypeOK
<1>5. \A p \in Ids : writes'[p] >= writes[p]
  BY <1>1, <1>2, ProposalAssumption DEF TypeOK
<1>6. ASSUME Goto(q, "decide", "executed")
      PROVE  writes' = [writes EXCEPT ![req[q].p] = @ + 1] /\ writes'[req[q].p] > 0
  <2>1. req'[q].pc = "executed"
    BY <1>6, GotoFacts
  <2>2. writes' = [writes EXCEPT ![req[q].p] = @ + 1]
    BY <2>1 DEF Execute
  <2> QED  BY <1>1, <2>2, ProposalAssumption DEF TypeOK
<1> QED
  BY <1>1, <1>2, <1>4, <1>5, <1>6

LEMMA NextWritten == WrittenInv /\ [Next]_vars => WrittenInv'
<1> SUFFICES ASSUME WrittenInv, [Next]_vars PROVE WrittenInv'
  OBVIOUS
<1>0. TypeOK /\ Busy /\ ExecutedIsWritten /\ ConfirmedIsWritten
  BY DEF WrittenInv
<1>1. ASSUME NEW p \in Ids, NEW u \in Users, Create(p, u) PROVE WrittenInv'
  <2>1. stored' \subseteq Ids
    BY <1>0, <1>1 DEF Create, TypeOK, Unexpired
  <2> QED
    BY <1>0, <1>1, <2>1
    DEF Create, WrittenInv, TypeOK, Busy, ExecutedIsWritten, ConfirmedIsWritten
<1>2. ASSUME NEW q \in Requests, NEW op \in {"confirm", "reject"},
             NEW p \in Ids, NEW u \in Users, Lookup(q, op, p, u)
      PROVE  WrittenInv'
  <2>1. UNCHANGED <<clock, owner, born, status, writes, answered>> /\ stored' \subseteq Ids
    BY <1>0, <1>2 DEF Lookup, fields, TypeOK, Unexpired
  <2>2. TypeOK'
    BY <1>0, <1>2, <2>1, LookupFacts DEF TypeOK
  <2>3. (Busy /\ ExecutedIsWritten)'
    BY <1>0, <1>2, <2>1, LookupFacts DEF Busy, ExecutedIsWritten
  <2> QED  BY <1>0, <2>1, <2>2, <2>3 DEF WrittenInv, ConfirmedIsWritten
<1>3. ASSUME NEW q \in Requests, Check(q) \/ CheckStatus(q) PROVE WrittenInv'
  <2>1. /\ UNCHANGED <<clock, owner, born, status, writes, answered>>
        /\ stored' \subseteq Ids
        /\ \/ \E from : Return(q, from)
           \/ Goto(q, "found", "live") \/ Goto(q, "live", "decide")
    BY <1>0, <1>3 DEF Check, CheckStatus, fields, TypeOK
  <2>2. TypeOK'
    BY <1>0, <2>1, GotoFacts, ReturnFacts DEF TypeOK
  <2>3. (Busy /\ ExecutedIsWritten)'
    BY <1>0, <2>1, GotoFacts, ReturnFacts DEF Busy, ExecutedIsWritten
  <2> QED  BY <1>0, <2>1, <2>2, <2>3 DEF WrittenInv, ConfirmedIsWritten
<1>4. ASSUME NEW q \in Requests, Reject(q) PROVE WrittenInv'
  <2>1. /\ UNCHANGED <<clock, stored, owner, born, writes>> /\ Return(q, "decide")
        /\ status' = [status EXCEPT ![req[q].p] = "rejected"]
        /\ answered' = [answered EXCEPT ![req[q].p] = @ \cup {"rejected"}]
    BY <1>4 DEF Reject, fields
  <2>2. TypeOK'
    BY <1>0, <2>1, ReturnFacts DEF TypeOK
  <2>3. (Busy /\ ExecutedIsWritten)'
    BY <1>0, <2>1, ReturnFacts DEF Busy, ExecutedIsWritten
  <2>4. ConfirmedIsWritten'
    BY <1>0, <2>1 DEF ConfirmedIsWritten, TypeOK
  <2> QED  BY <2>2, <2>3, <2>4 DEF WrittenInv
<1>5. ASSUME NEW q \in Requests, Execute(q) PROVE WrittenInv'
  <2>1. UNCHANGED <<clock, stored, owner, born, status, answered>>
    BY <1>5 DEF Execute, fields
  <2>2. Goto(q, "decide", "executed") \/ Return(q, "decide")
    BY <1>5 DEF Execute
  <2>3. req' \in [Requests -> RequestRec] /\ writes' \in [Ids -> 0 .. MaxWrites]
    BY <1>0, <1>5, <2>2, GotoFacts, ReturnFacts, ExecuteFacts
  <2>4. TypeOK'
    BY <1>0, <2>1, <2>3 DEF TypeOK
  <2>5. Busy'
    BY <1>0, <2>2, GotoFacts, ReturnFacts DEF Busy
  <2>6. \A p \in Ids : writes[p] \in Nat /\ writes'[p] \in Nat /\ writes'[p] >= writes[p]
    BY <1>0, <1>5, <2>4, ExecuteFacts, ProposalAssumption DEF TypeOK
  <2>7. ExecutedIsWritten'
    <3> SUFFICES ASSUME NEW r \in Requests, req'[r].pc = "executed"
                 PROVE  writes'[req'[r].p] > 0
      BY DEF ExecutedIsWritten
    <3>1. CASE r = q
      <4>1. Goto(q, "decide", "executed")
        BY <1>0, <2>2, <3>1, ReturnFacts
      <4> QED  BY <1>0, <1>5, <3>1, <4>1, GotoFacts, ExecuteFacts
    <3>2. CASE r # q
      <4>1. req'[r] = req[r]
        BY <1>0, <2>2, <3>2, GotoFacts, ReturnFacts
      <4>2. req[r].p \in Ids /\ writes[req[r].p] > 0
        BY <1>0, <4>1 DEF Busy, ExecutedIsWritten
      <4> QED  BY <2>6, <4>1, <4>2
    <3> QED  BY <3>1, <3>2
  <2>8. ConfirmedIsWritten'
    BY <1>0, <2>1, <2>6 DEF ConfirmedIsWritten
  <2> QED  BY <2>4, <2>5, <2>7, <2>8 DEF WrittenInv
<1>6. ASSUME NEW q \in Requests, Confirm(q) PROVE WrittenInv'
  <2>1. /\ UNCHANGED <<clock, stored, owner, born, writes>> /\ Return(q, "executed")
        /\ status' = [status EXCEPT ![req[q].p] = "confirmed"]
        /\ answered' = [answered EXCEPT ![req[q].p] = @ \cup {"confirmed"}]
    BY <1>6 DEF Confirm, fields
  <2>2. TypeOK'
    BY <1>0, <2>1, ReturnFacts DEF TypeOK
  <2>3. (Busy /\ ExecutedIsWritten)'
    BY <1>0, <2>1, ReturnFacts DEF Busy, ExecutedIsWritten
  <2>4. req[q].p \in Ids /\ writes[req[q].p] > 0
    BY <1>0, <2>1, ReturnFacts DEF Busy, ExecutedIsWritten
  <2>5. ConfirmedIsWritten'
    BY <1>0, <2>1, <2>4 DEF ConfirmedIsWritten, TypeOK
  <2> QED  BY <2>2, <2>3, <2>5 DEF WrittenInv
<1>7. CASE ClockTick \/ UNCHANGED vars
  <2>1. /\ UNCHANGED <<stored, owner, born, status, req, writes, answered>>
        /\ clock' \in 0 .. MaxClock
    BY <1>0, <1>7, ProposalAssumption DEF ClockTick, vars, fields, TypeOK
  <2> QED
    BY <1>0, <2>1 DEF WrittenInv, TypeOK, Busy, ExecutedIsWritten, ConfirmedIsWritten
<1>8. CASE Restart
  <2>1. 0 \in 0 .. MaxClock
    BY ProposalAssumption
  <2>2. Free \in RequestRec /\ Free.pc = "free"
    BY <2>1 DEF Free, RequestRec
  <2> QED
    BY <1>0, <1>8, <2>2
    DEF Restart, fields, WrittenInv, TypeOK, Busy, ExecutedIsWritten, ConfirmedIsWritten
<1> QED
  BY <1>1, <1>2, <1>3, <1>4, <1>5, <1>6, <1>7, <1>8 DEF Next, Step

LEMMA WrittenInvariant == Spec => []WrittenInv
BY InitWritten, NextWritten, PTL DEF Spec

(***************************************************************************)
(* Type correctness of the proposal store and its requests.                *)
(***************************************************************************)
THEOREM ProposalTypes == Spec => []TypeOK
<1>1. WrittenInv => TypeOK
  BY DEF WrittenInv
<1> QED
  BY WrittenInvariant, <1>1, PTL

(***************************************************************************)
(* A proposal that is marked or answered as confirmed has been written, for*)
(* any number of concurrent requests, restarts and failing tools           *)
(* (ai_proposals.py 96-106).                                               *)
(***************************************************************************)
THEOREM ConfirmationIsHonest == Spec => []ConfirmedIsWritten
<1>1. WrittenInv => ConfirmedIsWritten
  BY DEF WrittenInv
<1> QED
  BY WrittenInvariant, <1>1, PTL

----------------------------------------------------------------------------
(* One request at a time.                                                  *)

Serial == \A q, r \in Requests : q = r

\* The request that has passed the check of the status decides a proposal
\* that nobody has decided.
DecidesPending ==
  \A q \in Requests :
    req[q].pc \in {"decide", "executed"} => status[req[q].p] = "pending"

\* What was answered is the status.
AnswerIsStatus ==
  \A p \in Ids : answered[p] \subseteq {status[p]} \ {"pending"}

\* Not yet created means not stored, not asked about and not written.
Unborn ==
  \A p \in Ids : owner[p] = Nothing =>
    p \notin stored /\ writes[p] = 0 /\ \A q \in Requests : req[q].p # p

InHand(p) == \E q \in Requests : req[q].pc = "executed" /\ req[q].p = p

OutOfReach(p) == p \notin stored /\ \A q \in Requests : req[q].p # p

\* A written proposal is confirmed, about to be, or lost in a restart.
WrittenIsSettled ==
  \A p \in Ids :
    writes[p] # 0 =>
      writes[p] = 1 /\ (status[p] = "confirmed" \/ InHand(p) \/ OutOfReach(p))

SerialInv ==
  WrittenInv /\ DecidesPending /\ AnswerIsStatus /\ Unborn /\ WrittenIsSettled

LEMMA InitSerial == Init => SerialInv
<1> SUFFICES ASSUME Init PROVE SerialInv
  OBVIOUS
<1>1. WrittenInv
  BY InitWritten
<1>2. \A q \in Requests : req[q].pc = "free" /\ req[q].p \notin Ids
  BY ProposalAssumption DEF Init, Free
<1> QED
  BY <1>1, <1>2
  DEF Init, SerialInv, DecidesPending, AnswerIsStatus, Unborn, WrittenIsSettled

LEMMA NextSerial ==
  ASSUME Serial, ~LateErrors
  PROVE  SerialInv /\ [Next]_vars => SerialInv'
<1> SUFFICES ASSUME SerialInv, [Next]_vars PROVE SerialInv'
  OBVIOUS
<1>0. /\ TypeOK /\ Busy /\ DecidesPending /\ AnswerIsStatus /\ Unborn
      /\ WrittenIsSettled /\ WrittenInv
  BY DEF SerialInv, WrittenInv
<1>w. WrittenInv' /\ TypeOK'
  BY <1>0, NextWritten DEF WrittenInv
<1>n. Nothing \notin Users
  BY ProposalAssumption
<1>1. ASSUME NEW p \in Ids, NEW u \in Users, Create(p, u) PROVE SerialInv'
  <2>1. UNCHANGED <<clock, status, req, writes, answered>> /\ writes[p] = 0
    BY <1>0, <1>1 DEF Create, Unborn
  <2>2. \A x \in Ids : x # p => /\ x \in stored' => x \in stored
                                /\ owner'[x] = owner[x]
    BY <1>0, <1>1 DEF Create, Unexpired, TypeOK
  <2>3. owner'[p] # Nothing
    BY <1>0, <1>1, <1>n DEF Create, TypeOK
  <2>4. (DecidesPending /\ AnswerIsStatus)'
    BY <1>0, <2>1 DEF DecidesPending, AnswerIsStatus
  <2>5. Unborn'
    BY <1>0, <2>1, <2>2, <2>3 DEF Unborn
  <2>6. WrittenIsSettled'
    BY <1>0, <2>1, <2>2 DEF WrittenIsSettled, InHand, OutOfReach
  <2> QED  BY <1>w, <2>4, <2>5, <2>6 DEF SerialInv
<1>2. ASSUME NEW q \in Requests, NEW op \in {"confirm", "reject"},
             NEW p \in Ids, NEW u \in Users, Lookup(q, op, p, u)
      PROVE  SerialInv'
  <2>1. /\ UNCHANGED <<clock, owner, born, status, writes, answered>>
        /\ stored' \subseteq stored
    BY <1>0, <1>2 DEF Lookup, fields, Unexpired
  <2>2. (DecidesPending /\ AnswerIsStatus /\ Unborn)'
    BY <1>0, <1>2, <2>1, LookupFacts DEF DecidesPending, AnswerIsStatus, Unborn
  <2>3. WrittenIsSettled'
    <3> SUFFICES ASSUME NEW x \in Ids, writes'[x] # 0
                 PROVE  writes'[x] = 1
                        /\ (status'[x] = "confirmed" \/ InHand(x)' \/ OutOfReach(x)')
      BY DEF WrittenIsSettled
    <3>1. writes[x] = 1 /\ (status[x] = "confirmed" \/ InHand(x) \/ OutOfReach(x))
      BY <1>0, <2>1 DEF WrittenIsSettled
    <3>2. InHand(x) => InHand(x)'
      <4>1. ASSUME NEW r \in Requests, req[r].pc = "executed", req[r].p = x
            PROVE  req'[r] = req[r]
        BY <1>0, <1>2, <4>1, LookupFacts
      <4> QED  BY <4>1 DEF InHand
    <3>3. OutOfReach(x) => OutOfReach(x)'
      BY <1>0, <1>2, <2>1, LookupFacts DEF OutOfReach
    <3> QED  BY <2>1, <3>1, <3>2, <3>3
  <2> QED  BY <1>w, <2>2, <2>3 DEF SerialInv
<1>3. ASSUME NEW q \in Requests, Check(q) \/ CheckStatus(q) PROVE SerialInv'
  <2>1. /\ UNCHANGED <<clock, owner, born, status, writes, answered>>
        /\ stored' \subseteq stored
        /\ req[q].pc \in {"found", "live"}
        /\ \/ \E from : Return(q, from)
           \/ Goto(q, "found", "live")
           \/ Goto(q, "live", "decide") /\ status[req[q].p] = "pending"
    BY <1>0, <1>3 DEF Check, CheckStatus, fields, Goto, Return
  <2>2. (DecidesPending /\ AnswerIsStatus /\ Unborn)'
    BY <1>0, <2>1, GotoFacts, ReturnFacts, ProposalAssumption
    DEF DecidesPending, AnswerIsStatus, Unborn, Free
  <2>3. \A r \in Requests : req'[r].pc = "free" \/ req'[r].p = req[r].p
    BY <1>0, <2>1, GotoFacts, ReturnFacts
  <2>4. \A x \in Ids : ~InHand(x)
    BY <2>1 DEF InHand, Serial
  <2>5. \A r \in Requests : req'[r].p \in {req[r].p, Nothing}
    BY <1>0, <2>1, GotoFacts, ReturnFacts DEF Free
  <2>6. WrittenIsSettled'
    BY <1>0, <2>1, <2>4, <2>5, ProposalAssumption
    DEF WrittenIsSettled, OutOfReach
  <2> QED  BY <1>w, <2>2, <2>6 DEF SerialInv
<1>4. ASSUME NEW q \in Requests, Reject(q) PROVE SerialInv'
  <2>1. /\ UNCHANGED <<clock, stored, owner, born, writes>> /\ Return(q, "decide")
        /\ status' = [status EXCEPT ![req[q].p] = "rejected"]
        /\ answered' = [answered EXCEPT ![req[q].p] = @ \cup {"rejected"}]
    BY <1>4 DEF Reject, fields
  <2>2. req[q].pc = "decide" /\ \A r \in Requests : req'[r].pc = "free" /\ req'[r].p = Nothing
    BY <1>0, <2>1, ReturnFacts DEF Serial, Free
  <2>3. req[q].p \in Ids /\ status[req[q].p] = "pending"
    BY <1>0, <2>2 DEF Busy, DecidesPending
  <2>4. writes[req[q].p] = 0
    BY <1>0, <2>2, <2>3 DEF WrittenIsSettled, InHand, OutOfReach, Serial
  <2>5. (DecidesPending /\ Unborn)'
    BY <1>0, <2>1, <2>2, ProposalAssumption DEF DecidesPending, Unborn
  <2>6. AnswerIsStatus'
    BY <1>0, <2>1, <2>3 DEF AnswerIsStatus, TypeOK
  <2>7. WrittenIsSettled'
    <3> SUFFICES ASSUME NEW x \in Ids, writes[x] # 0
                 PROVE  writes[x] = 1 /\ (status'[x] = "confirmed" \/ OutOfReach(x)')
      BY <2>1 DEF WrittenIsSettled
    <3>1. x # req[q].p /\ ~InHand(x)
      BY <2>2, <2>4 DEF InHand, Serial
    <3> QED
      BY <1>0, <2>1, <2>2, <3>1, ProposalAssumption
      DEF WrittenIsSettled, OutOfReach, TypeOK
  <2> QED  BY <1>w, <2>5, <2>6, <2>7 DEF SerialInv
<1>5. ASSUME NEW q \in Requests, Execute(q) PROVE SerialInv'
  <2>1. UNCHANGED <<clock, stored, owner, born, status, answered>>
    BY <1>5 DEF Execute, fields
  <2>2. req[q].pc = "decide" /\ req[q].p \in Ids /\ status[req[q].p] = "pending"
    BY <1>0, <1>5 DEF Execute, Goto, Return, Busy, DecidesPending
  <2>3. writes[req[q].p] = 0
    BY <1>0, <2>2 DEF WrittenIsSettled, InHand, OutOfReach, Serial
  <2>5. CASE Return(q, "decide")
    <3>1. req'[q].pc = "free" /\ req'[q].p = Nothing
      BY <1>0, <2>5, ReturnFacts DEF Free
    <3>2. writes' = writes
      BY <1>5, <3>1 DEF Execute
    <3>3. (DecidesPending /\ AnswerIsStatus /\ Unborn)'
      BY <1>0, <2>1, <3>1, <3>2, ProposalAssumption
      DEF DecidesPending, AnswerIsStatus, Unborn, Serial
    <3>4. WrittenIsSettled'
      <4>1. \A x \in Ids : ~InHand(x)
        BY <2>2 DEF InHand, Serial
      <4> QED
        BY <1>0, <2>1, <3>1, <3>2, <4>1, ProposalAssumption
        DEF WrittenIsSettled, OutOfReach, Serial
    <3> QED  BY <1>w, <3>3, <3>4 DEF SerialInv
  <2>6. CASE Goto(q, "decide", "executed")
    <3>1. req'[q].pc = "executed" /\ req'[q].p = req[q].p
      BY <1>0, <2>6, GotoFacts
    <3>2. writes' = [writes EXCEPT ![req[q].p] = @ + 1]
      BY <1>0, <1>5, <2>6, ExecuteFacts
    <3>4. (DecidesPending /\ AnswerIsStatus)'
      BY <1>0, <2>1, <2>2, <3>1 DEF DecidesPending, AnswerIsStatus, Serial
    <3>5. WrittenIsSettled'
      <4> SUFFICES ASSUME NEW x \in Ids, writes'[x] # 0
                   PROVE  writes'[x] = 1
                          /\ (status'[x] = "confirmed" \/ InHand(x)' \/ OutOfReach(x)')
        BY DEF WrittenIsSettled
      <4>1. CASE x = req[q].p
        BY <1>0, <2>2, <2>3, <3>1, <3>2, <4>1 DEF InHand, TypeOK
      <4>2. CASE x # req[q].p
        <5>1. writes'[x] = writes[x] /\ ~InHand(x)
          BY <1>0, <2>2, <3>2, <4>2 DEF InHand, Serial, TypeOK
        <5> QED
          BY <1>0, <2>1, <3>1, <4>2, <5>1 DEF WrittenIsSettled, OutOfReach, Serial
      <4> QED  BY <4>1, <4>2
    <3>6. Unborn'
      BY <1>0, <2>1, <2>2, <3>1, <3>2 DEF Unborn, TypeOK, Serial
    <3> QED  BY <1>w, <3>4, <3>5, <3>6 DEF SerialInv
  <2> QED  BY <1>5, <2>5, <2>6 DEF Execute
<1>6. ASSUME NEW q \in Requests, Confirm(q) PROVE SerialInv'
  <2>1. /\ UNCHANGED <<clock, stored, owner, born, writes>> /\ Return(q, "executed")
        /\ status' = [status EXCEPT ![req[q].p] = "confirmed"]
        /\ answered' = [answered EXCEPT ![req[q].p] = @ \cup {"confirmed"}]
    BY <1>6 DEF Confirm, fields
  <2>2. /\ req[q].pc = "executed"
        /\ \A r \in Requests : req'[r].pc = "free" /\ req'[r].p = Nothing
    BY <1>0, <2>1, ReturnFacts DEF Serial, Free
  <2>3. req[q].p \in Ids /\ status[req[q].p] = "pending"
    BY <1>0, <2>2 DEF Busy, DecidesPending
  <2>4. (DecidesPending /\ Unborn)'
    BY <1>0, <2>1, <2>2, ProposalAssumption DEF DecidesPending, Unborn
  <2>5. AnswerIsStatus'
    BY <1>0, <2>1, <2>3 DEF AnswerIsStatus, TypeOK
  <2>6. WrittenIsSettled'
    <3> SUFFICES ASSUME NEW x \in Ids, writes[x] # 0
                 PROVE  writes[x] = 1 /\ (status'[x] = "confirmed" \/ OutOfReach(x)')
      BY <2>1 DEF WrittenIsSettled
    <3>1. x # req[q].p => ~InHand(x)
      BY <2>2 DEF InHand, Serial
    <3> QED
      BY <1>0, <2>1, <2>2, <3>1, ProposalAssumption
      DEF WrittenIsSettled, OutOfReach, TypeOK
  <2> QED  BY <1>w, <2>4, <2>5, <2>6 DEF SerialInv
<1>7. CASE ClockTick \/ UNCHANGED vars
  <2>1. UNCHANGED <<stored, owner, born, status, req, writes, answered>>
    BY <1>7 DEF ClockTick, vars, fields
  <2> QED
    BY <1>0, <1>w, <2>1
    DEF SerialInv, DecidesPending, AnswerIsStatus, Unborn, WrittenIsSettled,
        InHand, OutOfReach
<1>8. CASE Restart
  <2>1. /\ UNCHANGED <<owner, born, status, writes, answered>> /\ stored' = {}
        /\ \A r \in Requests : req'[r].pc = "free" /\ req'[r].p = Nothing
    BY <1>8 DEF Restart, fields, Free
  <2> QED
    BY <1>0, <1>w, <2>1, ProposalAssumption
    DEF SerialInv, DecidesPending, AnswerIsStatus, Unborn, WrittenIsSettled, OutOfReach
<1> QED
  BY <1>1, <1>2, <1>3, <1>4, <1>5, <1>6, <1>7, <1>8 DEF Next, Step

(***************************************************************************)
(* Requests that come one at a time write a proposal at most once, also    *)
(* across restarts, and never confirm and reject the same one              *)
(* (ai_proposals.py 81-99).                                                *)
(***************************************************************************)
THEOREM SerialDecision == Serial /\ ~LateErrors /\ Spec => []DecidedOnce
<1> SUFFICES ASSUME Serial, ~LateErrors PROVE Spec => []DecidedOnce
  OBVIOUS
<1>1. SerialInv => WrittenOnce
  <2> SUFFICES ASSUME SerialInv, NEW p \in Ids PROVE writes[p] <= 1
    BY DEF WrittenOnce
  <2>1. writes[p] = 0 \/ writes[p] = 1
    BY DEF SerialInv, WrittenIsSettled
  <2> QED  BY <2>1
<1>2. SerialInv => OneDecision
  <2> SUFFICES ASSUME SerialInv, NEW p \in Ids,
                      "confirmed" \in answered[p], "rejected" \in answered[p]
               PROVE  FALSE
    BY DEF OneDecision
  <2>1. status[p] = "confirmed" /\ status[p] = "rejected"
    BY DEF SerialInv, AnswerIsStatus
  <2> QED  BY <2>1
<1>3. SerialInv => DecidedOnce
  BY <1>1, <1>2 DEF DecidedOnce
<1>4. SerialInv /\ [Next]_vars => SerialInv'
  BY NextSerial
<1> QED
  BY InitSerial, <1>3, <1>4, PTL DEF Spec

----------------------------------------------------------------------------
(* Authorisation.                                                          *)

\* What is stored, or asked about, has been created and has its owner; the
\* request came before the proposal expired, and one that has passed Check
\* comes from the owner.
Owned == \A p \in stored : owner[p] # Nothing

Entitled ==
  \A q \in Requests : req[q].pc # "free" =>
    /\ owner[req[q].p] # Nothing
    /\ req[q].since - born[req[q].p] <= TTL
    /\ req[q].pc # "found" => req[q].u = owner[req[q].p]

AuthorisedInv == WrittenInv /\ Owned /\ Entitled

LEMMA InitAuthorised == Init => AuthorisedInv
BY InitWritten DEF Init, AuthorisedInv, Owned, Entitled, Free

\* A request that goes on, or ends, is as entitled as it was.
LEMMA KeepsEntitled ==
  ASSUME AuthorisedInv, UNCHANGED <<owner, born>>, NEW q \in Requests,
         \/ \E from : Return(q, from)
         \/ Goto(q, "found", "live") /\ req[q].u = owner[req[q].p]
         \/ Goto(q, "live", "decide")
         \/ Goto(q, "decide", "executed")
  PROVE  Entitled'
<1>0. TypeOK /\ Entitled
  BY DEF AuthorisedInv, WrittenInv
<1>1. \A r \in Requests : r # q => req'[r] = req[r]
  BY <1>0, GotoFacts, ReturnFacts
<1>2. req'[q].pc # "free" =>
        /\ req[q].pc # "free"
        /\ req'[q].p = req[q].p /\ req'[q].u = req[q].u /\ req'[q].since = req[q].since
        /\ req[q].u = owner[req[q].p]
  <2>1. CASE \E from : Return(q, from)
    BY <1>0, <2>1, ReturnFacts
  <2>2. ASSUME NEW from, NEW to, Goto(q, from, to)
        PROVE  /\ req[q].pc = from
               /\ req'[q].p = req[q].p /\ req'[q].u = req[q].u
               /\ req'[q].since = req[q].since
    BY <1>0, <2>2 DEF Goto, TypeOK, RequestRec
  <2> QED
    BY <1>0, <2>1, <2>2 DEF Entitled
<1> QED
  BY <1>0, <1>1, <1>2 DEF Entitled

LEMMA NextAuthorised == AuthorisedInv /\ [Next]_vars => AuthorisedInv'
<1> SUFFICES ASSUME AuthorisedInv, [Next]_vars PROVE AuthorisedInv'
  OBVIOUS
<1>0. WrittenInv /\ TypeOK /\ Busy /\ Owned /\ Entitled /\ WrittenInv'
  BY NextWritten DEF AuthorisedInv, WrittenInv
<1>1. ASSUME NEW p \in Ids, NEW u \in Users, Create(p, u) PROVE AuthorisedInv'
  <2>1. /\ owner[p] = Nothing /\ req' = req
        /\ owner'[p] # Nothing
        /\ \A x \in Ids : x # p => owner'[x] = owner[x] /\ born'[x] = born[x]
        /\ \A x \in stored' : x = p \/ x \in stored
    BY <1>0, <1>1, ProposalAssumption DEF Create, TypeOK, Unexpired
  <2>2. Owned'
    BY <1>0, <2>1 DEF Owned, TypeOK
  <2>3. Entitled'
    <3> SUFFICES ASSUME NEW q \in Requests, req[q].pc # "free"
                 PROVE  /\ owner'[req[q].p] # Nothing
                        /\ req[q].since - born'[req[q].p] <= TTL
                        /\ req[q].pc # "found" => req[q].u = owner'[req[q].p]
      BY <2>1 DEF Entitled
    <3>1. req[q].p \in Ids /\ req[q].p # p
      BY <1>0, <2>1 DEF Busy, Entitled
    <3> QED  BY <1>0, <2>1, <3>1 DEF Entitled
  <2> QED  BY <1>0, <2>2, <2>3 DEF AuthorisedInv
<1>2. ASSUME NEW q \in Requests, NEW op \in {"confirm", "reject"},
             NEW p \in Ids, NEW u \in Users, Lookup(q, op, p, u)
      PROVE  AuthorisedInv'
  <2>1. UNCHANGED <<owner, born>> /\ stored' \subseteq stored
    BY <1>2 DEF Lookup, fields, Unexpired
  <2>2. Owned'
    BY <1>0, <2>1 DEF Owned
  <2>3. CASE UNCHANGED req
    BY <1>0, <2>1, <2>2, <2>3 DEF AuthorisedInv, Entitled
  <2>4. CASE p \in Unexpired /\
             req' = [req EXCEPT ![q] =
               [op |-> op, p |-> p, u |-> u, pc |-> "found", since |-> clock]]
    <3>1. p \in stored /\ clock - born[p] <= TTL
      BY <1>0, <2>4, ProposalAssumption DEF Unexpired, Expired, TypeOK
    <3>2. /\ req'[q].pc = "found" /\ req'[q].p = p /\ req'[q].since = clock
          /\ \A r \in Requests : r # q => req'[r] = req[r]
      BY <1>0, <2>4 DEF TypeOK
    <3>3. Entitled'
      BY <1>0, <2>1, <3>1, <3>2 DEF Entitled, Owned
    <3> QED  BY <1>0, <2>2, <3>3 DEF AuthorisedInv
  <2> QED  BY <1>2, <2>3, <2>4 DEF Lookup
<1>3. ASSUME NEW q \in Requests, Step(q) PROVE AuthorisedInv'
  <2>1. UNCHANGED <<owner, born>> /\ stored' \subseteq stored
    BY <1>3 DEF Step, Check, CheckStatus, Reject, Execute, Confirm, fields
  <2>2. \/ \E from : Return(q, from)
        \/ Goto(q, "found", "live") /\ req[q].u = owner[req[q].p]
        \/ Goto(q, "live", "decide")
        \/ Goto(q, "decide", "executed")
    BY <1>3 DEF Step, Check, CheckStatus, Reject, Execute, Confirm
  <2>3. Entitled'
    BY <2>1, <2>2, KeepsEntitled
  <2> QED  BY <1>0, <2>1, <2>3 DEF AuthorisedInv, Owned
<1>4. CASE ClockTick \/ UNCHANGED vars
  BY <1>0, <1>4 DEF ClockTick, vars, fields, AuthorisedInv, Owned, Entitled
<1>5. CASE Restart
  BY <1>0, <1>5 DEF Restart, Free, AuthorisedInv, Owned, Entitled
<1> QED
  BY <1>1, <1>2, <1>3, <1>4, <1>5 DEF Next

\* Only Execute writes, for a request that has passed both checks.
LEMMA OnlyExecuteWrites ==
  ASSUME AuthorisedInv, [Next]_vars, NEW p \in Ids, writes'[p] > writes[p]
  PROVE  \E q \in Requests : req[q].p = p /\ req[q].pc = "decide"
<1>0. TypeOK /\ Busy
  BY DEF AuthorisedInv, WrittenInv
<1>1. writes' # writes
  BY <1>0, ProposalAssumption DEF TypeOK
<1>2. PICK q \in Requests : Execute(q)
  BY <1>1 DEF Next, Step, Create, Lookup, Check, CheckStatus, Reject, Confirm,
     ClockTick, Restart, vars
<1>3. req[q].pc = "decide"
  BY <1>2 DEF Execute, Goto, Return
<1>4. writes' = [writes EXCEPT ![req[q].p] = @ + 1]
  BY <1>0, <1>1, <1>2, ExecuteFacts
<1>5. req[q].p = p
  <2>1. req[q].p # p => writes'[p] = writes[p]
    BY <1>0, <1>4 DEF TypeOK
  <2>2. writes[p] \in Nat
    BY <1>0, ProposalAssumption DEF TypeOK
  <2> QED  BY <2>1, <2>2
<1> QED
  BY <1>3, <1>5

(***************************************************************************)
(* Nothing is written for another user, nor by a request that came after   *)
(* the proposal had expired, for any number of concurrent requests         *)
(* (ai_proposals.py 66-78).                                                *)
(***************************************************************************)
THEOREM WritesAreAuthorised == Spec => WriteIsAuthorised
<1>1. AuthorisedInv /\ [Next]_vars =>
        (\A p \in Ids : writes'[p] > writes[p] =>
           \E q \in Requests :
             /\ req[q].p = p /\ req[q].u = owner[p]
             /\ req[q].since - born[p] <= TTL)
  <2> SUFFICES ASSUME AuthorisedInv, [Next]_vars, NEW p \in Ids, writes'[p] > writes[p]
               PROVE  \E q \in Requests :
                        /\ req[q].p = p /\ req[q].u = owner[p]
                        /\ req[q].since - born[p] <= TTL
    OBVIOUS
  <2>1. PICK q \in Requests : req[q].p = p /\ req[q].pc = "decide"
    BY OnlyExecuteWrites
  <2> QED  BY <2>1 DEF AuthorisedInv, Entitled
<1> QED
  BY <1>1, InitAuthorised, NextAuthorised, PTL DEF Spec, WriteIsAuthorised

=============================================================================
