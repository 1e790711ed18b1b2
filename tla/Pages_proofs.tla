---------------------------- MODULE Pages_proofs ----------------------------
(* Theorems of the pages around the market: the records a user edits, the   *)
(* emotion cycle, the radar, the scores of the analysts and the peers of a  *)
(* stock.                                                                   *)
EXTENDS UserRecords, EmotionCycle, Radar, TeamScoring, PeerRules, Counting

-----------------------------------------------------------------------------
(* UserRecords: the read-modify-write handlers implement AtomicEdits for    *)
(* every set of requests, when a request on a record starts only once no    *)
(* other is in flight there.                                                *)

ChangeStages == {"idle", "read", "done", "refused"}

\* What a reader holds is what the record still is, and it is the only one.
SeenIsStored == \A q \in Changes : stage[q] = "read" => seen[q] = records[RecordOf(q)]
OneInFlight == \A p, q \in Changes :
    stage[p] = "read" /\ stage[q] = "read" /\ RecordOf(p) = RecordOf(q) => p = q

RecordsInv ==
    /\ stage \in [Changes -> ChangeStages]
    /\ seen = [q \in Changes |-> seen[q]]
    /\ records = [r \in Records |-> records[r]]
    /\ SeenIsStored
    /\ OneInFlight

\* A request edits one of the records.
LEMMA RecordOfRequest == \A q \in Changes : RecordOf(q) \in Records
BY DEF Records, RecordOf

\* The first state has nobody in flight.
LEMMA RecordsInvInit == RecordsInit => RecordsInv
BY DEF RecordsInit, RecordsInv, SeenIsStored, OneInFlight, ChangeStages, InitialRecords

\* Writing the record of the one reader disturbs no other reader.
LEMMA StoreKeeps ==
    ASSUME RecordsInv, NEW q \in Changes, stage[q] = "read", NEW v, Store(q, v)
    PROVE  RecordsInv'
<1>1. stage' \in [Changes -> ChangeStages]
  BY DEF RecordsInv, Store, ChangeStages
<1>2. seen' = [r \in Changes |-> seen'[r]]
  BY DEF RecordsInv, Store
<1>3. records' = [r \in Records |-> records'[r]]
  BY DEF RecordsInv, Store
<1>4. SeenIsStored'
  <2> SUFFICES ASSUME NEW p \in Changes, stage'[p] = "read"
               PROVE  seen'[p] = records'[RecordOf(p)]
    BY DEF SeenIsStored, RecordOf
  <2>1. p # q
    BY DEF Store, RecordsInv, ChangeStages
  <2>2. stage[p] = "read"
    BY <2>1 DEF Store, RecordsInv
  <2>3. RecordOf(p) # RecordOf(q)
    BY <2>1, <2>2 DEF RecordsInv, OneInFlight
  <2>4. records'[RecordOf(p)] = records[RecordOf(p)]
    BY <2>3, RecordOfRequest DEF Store, RecordsInv
  <2> QED
    BY <2>2, <2>4 DEF RecordsInv, SeenIsStored, Store
<1>5. OneInFlight'
  <2> SUFFICES ASSUME NEW p \in Changes, NEW r \in Changes,
                      stage'[p] = "read", stage'[r] = "read", RecordOf(p) = RecordOf(r)
               PROVE  p = r
    BY DEF OneInFlight, RecordOf
  <2>1. stage[p] = "read" /\ stage[r] = "read"
    BY DEF Store, RecordsInv
  <2> QED
    BY <2>1 DEF RecordsInv, OneInFlight
<1> QED
  BY <1>1, <1>2, <1>3, <1>4, <1>5 DEF RecordsInv

\* A refusal only takes the request out of flight.
LEMMA RefuseKeeps ==
    ASSUME RecordsInv, NEW q \in Changes, Refuse(q)
    PROVE  RecordsInv'
<1>1. \A p \in Changes : stage'[p] = "read" => stage[p] = "read"
  BY DEF Refuse, RecordsInv
<1> QED
  BY <1>1 DEF RecordsInv, Refuse, SeenIsStored, OneInFlight, ChangeStages, RecordOf

\* A read starts when nobody else is in flight on the record.
LEMMA ReadKeeps ==
    ASSUME OneEditor, RecordsInv, NEW q \in Changes, Read(q)
    PROVE  RecordsInv'
<1>1. stage' \in [Changes -> ChangeStages]
  BY DEF RecordsInv, Read, ChangeStages
<1>2. \A p \in Changes : stage'[p] = "read" => p = q \/ stage[p] = "read"
  BY DEF RecordsInv, Read
<1>3. \A p \in Changes : stage[p] = "read" => RecordOf(p) # RecordOf(q)
  BY DEF Read, InFlight
<1>4. SeenIsStored'
  <2> SUFFICES ASSUME NEW p \in Changes, stage'[p] = "read"
               PROVE  seen'[p] = records'[RecordOf(p)]
    BY DEF SeenIsStored, RecordOf
  <2>1. CASE p = q
    BY <2>1 DEF Read, Latest, RecordsInv
  <2>2. CASE p # q
    BY <1>2, <2>2 DEF Read, RecordsInv, SeenIsStored
  <2> QED
    BY <2>1, <2>2
<1>5. OneInFlight'
  <2> SUFFICES ASSUME NEW p \in Changes, NEW r \in Changes,
                      stage'[p] = "read", stage'[r] = "read", RecordOf(p) = RecordOf(r)
               PROVE  p = r
    BY DEF OneInFlight, RecordOf
  <2> QED
    BY <1>2, <1>3 DEF RecordsInv, OneInFlight
<1> QED
  BY <1>1, <1>4, <1>5 DEF RecordsInv, Read

\* The invariant is inductive.
LEMMA RecordsInvNext ==
    ASSUME OneEditor, RecordsInv, [RecordsNext]_recordVars
    PROVE  RecordsInv'
<1>1. ASSUME NEW q \in Changes, Read(q)
      PROVE  RecordsInv'
  BY <1>1, ReadKeeps
<1>2. ASSUME NEW q \in Changes, WriteBlob(q)
      PROVE  RecordsInv'
  BY <1>2, StoreKeeps, RefuseKeeps DEF WriteBlob
<1>3. ASSUME NEW q \in Changes, UpdateRow(q)
      PROVE  RecordsInv'
  BY <1>3, StoreKeeps DEF UpdateRow
<1>4. ASSUME NEW q \in Changes, InsertRow(q)
      PROVE  RecordsInv'
  BY <1>4, StoreKeeps, RefuseKeeps DEF InsertRow
<1>5. CASE UNCHANGED recordVars
  BY <1>5 DEF recordVars, RecordsInv, SeenIsStored, OneInFlight, RecordOf
<1> QED
  BY <1>1, <1>2, <1>3, <1>4, <1>5 DEF RecordsNext

-----------------------------------------------------------------------------
Answered == {q \in Changes : stage[q] = "done"}

\* Storing what the request makes of the record is one abstract answer.
LEMMA StoreAnswers ==
    ASSUME RecordsInv, NEW q \in Changes, stage[q] = "read",
           Store(q, Apply(q, records[RecordOf(q)]))
    PROVE  Atomic!Answer(q)
<1>1. q \notin Answered
  BY DEF Answered
<1>2. Answered' = Answered \cup {q}
  BY DEF Answered, Store, RecordsInv
<1> QED
  BY <1>1, <1>2 DEF Atomic!Answer, Store, Answered

\* Reading and refusing are stutters.
LEMMA OthersStutter ==
    ASSUME RecordsInv, NEW q \in Changes,
           Read(q) \/ (stage[q] = "read" /\ Refuse(q))
    PROVE  UNCHANGED <<records, Answered>>
BY DEF RecordsInv, Read, Refuse, Answered

\* The value a row request stores is the one it was asked to.
LEMMA RowIsApplied ==
    ASSUME NEW q \in Changes, Asked[q].kind = "row", NEW v
    PROVE  Apply(q, v) = [who |-> Asked[q].who, what |-> Asked[q].what]
BY RecordsAssumption DEF Apply, Edited

\* Every step is an answer of AtomicEdits or a stutter of it.
LEMMA RecordsStep ==
    ASSUME RecordsInv, [RecordsNext]_recordVars
    PROVE  [Atomic!AtomicNext]_<<records, Answered>>
<1>1. ASSUME NEW q \in Changes, Read(q)
      PROVE  UNCHANGED <<records, Answered>>
  BY <1>1, OthersStutter
<1>2. ASSUME NEW q \in Changes, WriteBlob(q)
      PROVE  Atomic!Answer(q) \/ UNCHANGED <<records, Answered>>
  <2>1. seen[q] = records[RecordOf(q)]
    BY <1>2 DEF WriteBlob, RecordsInv, SeenIsStored
  <2> QED
    BY <1>2, <2>1, StoreAnswers, OthersStutter DEF WriteBlob
<1>3. ASSUME NEW q \in Changes, UpdateRow(q)
      PROVE  Atomic!Answer(q)
  BY <1>3, StoreAnswers, RowIsApplied DEF UpdateRow, Mine
<1>4. ASSUME NEW q \in Changes, InsertRow(q)
      PROVE  Atomic!Answer(q) \/ UNCHANGED <<records, Answered>>
  BY <1>4, StoreAnswers, OthersStutter, RowIsApplied DEF InsertRow
<1>5. CASE UNCHANGED recordVars
  BY <1>5 DEF recordVars, Answered
<1> QED
  BY <1>1, <1>2, <1>3, <1>4, <1>5 DEF RecordsNext, Atomic!AtomicNext

\* With one editor per record the handlers of the signal panel, the scheduler
\* configuration, the recipe weights, the memos and the discipline checks
\* behave like edits that happen at once: no acknowledged edit is lost and no
\* row of another user is written, for any requests and any number of records.
THEOREM OneEditorIsAtomic == OneEditor => (RecordsSpec => EditsAreAtomic)
<1> SUFFICES ASSUME OneEditor PROVE RecordsSpec => EditsAreAtomic
  OBVIOUS
<1>1. RecordsInit => Atomic!AtomicInit
  BY DEF RecordsInit, Atomic!AtomicInit
<1>2. RecordsInit => RecordsInv
  BY RecordsInvInit
<1>3. RecordsInv /\ [RecordsNext]_recordVars => RecordsInv'
  BY RecordsInvNext
<1>4. RecordsInv /\ [RecordsNext]_recordVars
        => [Atomic!AtomicNext]_<<records, {q \in Changes : stage[q] = "done"}>>
  BY RecordsStep DEF Answered
<1> QED
  BY <1>1, <1>2, <1>3, <1>4, PTL DEF RecordsSpec, EditsAreAtomic, Atomic!AtomicSpec

-----------------------------------------------------------------------------
(* EmotionCycle: the stage shown is the one that is due. An answer under    *)
(* old rules ages as fast as the rules do (AgesWithTheRules), and the rules *)
(* are compared by the counts they are made of: fewer stocks up never make  *)
(* a stage better.                                                          *)

Quotes == [Listed -> [cp : Int, boards : Nat]]
Answers == {NoAnswer} \cup [rules : RuleSets, left : 1..Ttl]

AllAreRead == Pool >= Cardinality(Listed) /\ LeaderPool >= Cardinality(Listed)

\* An answer under old rules ages as fast as the rules, and one that is being
\* computed under old rules was begun in this tick.
AgesWithTheRules ==
    /\ \A a \in {cached} \cup {memory[p] : p \in Processes} : a.left > 0 /\ a.rules # rules => sinceSave + a.left <= Ttl
    /\ \A p \in Processes : computing[p] # NoAnswer => computing[p].rules = rules \/ sinceSave = 0

EmotionInv ==
    /\ market \in Quotes /\ rules \in RuleSets /\ sinceSave \in Nat
    /\ computing \in [Processes -> Answers] /\ cached \in Answers /\ memory \in [Processes -> Answers]
    /\ AgesWithTheRules

LEMMA EmotionConstants ==
    /\ Ttl \in Nat /\ Ttl > 0 /\ DefaultRules \in RuleSets /\ IsFiniteSet(Listed) /\ Listed \subseteq Nat /\ 0 \notin Listed
    /\ Pool \in Nat /\ LeaderPool \in Nat /\ NoAnswer \in Answers
    /\ \A d \in Days : d[1] \in Quotes
    /\ \A r \in RuleSets : r.recessionDown \in Int /\ r.iceDown \in Int /\ r.iceUpPct \in Int
BY EmotionAssumption DEF Quotes, NoAnswer, Answers

LEMMA AnswerTyped ==
    ASSUME NEW a \in Answers
    PROVE  /\ a.rules \in RuleSets /\ a.left \in Nat /\ a.left <= Ttl
           /\ a.left > 0 => a \in [rules : RuleSets, left : 1..Ttl]
           /\ a # NoAnswer => a.left > 0
<1>1. CASE a = NoAnswer
  BY <1>1, EmotionConstants DEF NoAnswer
<1>2. CASE a \in [rules : RuleSets, left : 1..Ttl]
  BY <1>2, EmotionConstants
<1> QED BY <1>1, <1>2 DEF Answers

-----------------------------------------------------------------------------
LEMMA EmotionStarts == EmotionInit => EmotionInv
<1> SUFFICES ASSUME EmotionInit PROVE EmotionInv
  OBVIOUS
<1>1. /\ \E d \in Days : market = d[1]
      /\ rules = DefaultRules /\ computing = [p \in Processes |-> NoAnswer] /\ cached = NoAnswer
      /\ memory = [p \in Processes |-> NoAnswer] /\ sinceSave = 0
  BY DEF EmotionInit
<1>2. market \in Quotes /\ rules \in RuleSets /\ sinceSave \in Nat
  BY <1>1, EmotionConstants
<1>3. computing \in [Processes -> Answers] /\ cached \in Answers /\ memory \in [Processes -> Answers]
  BY <1>1, EmotionConstants
<1>4. AgesWithTheRules
  BY <1>1 DEF AgesWithTheRules, NoAnswer
<1> QED BY <1>2, <1>3, <1>4 DEF EmotionInv

LEMMA ComputeKeeps ==
    ASSUME EmotionInv, NEW p \in Processes, (\E force \in BOOLEAN : Compute(p, force)) \/ Finish(p)
    PROVE  EmotionInv'
<1>0. /\ market \in Quotes /\ rules \in RuleSets /\ sinceSave \in Nat /\ Ttl \in Nat /\ Ttl > 0
      /\ computing \in [Processes -> Answers] /\ cached \in Answers /\ memory \in [Processes -> Answers]
      /\ NoAnswer \in Answers
  BY EmotionConstants DEF EmotionInv
<1>a. AgesWithTheRules
  BY DEF EmotionInv
<1>1. UNCHANGED <<market, rules, sinceSave>>
  BY DEF Compute, Finish, momentVars
<1>2. CASE \E force \in BOOLEAN : Compute(p, force)
  <2>1. computing' = [computing EXCEPT ![p] = [rules |-> rules, left |-> Ttl]] /\ UNCHANGED <<cached, memory>>
    BY <1>2 DEF Compute
  <2>2. [rules |-> rules, left |-> Ttl] \in Answers
    BY <1>0 DEF Answers
  <2>3. computing' \in [Processes -> Answers]
    BY <1>0, <2>1, <2>2
  <2>4. AgesWithTheRules'
    BY <1>0, <1>1, <1>a, <2>1 DEF AgesWithTheRules
  <2> QED BY <1>0, <1>1, <2>1, <2>3, <2>4 DEF EmotionInv
<1>3. CASE Finish(p)
  <2>1. /\ computing[p] # NoAnswer /\ computing' = [computing EXCEPT ![p] = NoAnswer]
        /\ \/ cached' = computing[p] /\ memory' = memory
           \/ memory' = [memory EXCEPT ![p] = computing[p]] /\ cached' = cached
    BY <1>3 DEF Finish
  <2>2. computing' \in [Processes -> Answers] /\ cached' \in Answers /\ memory' \in [Processes -> Answers]
    BY <1>0, <2>1
  <2>3. computing[p] \in Answers /\ (computing[p].rules = rules \/ sinceSave = 0)
    BY <1>0, <1>a, <2>1 DEF AgesWithTheRules
  <2>4. computing[p].left \in Nat /\ computing[p].left <= Ttl
    BY <2>3, AnswerTyped
  <2>5. computing[p].left > 0 /\ computing[p].rules # rules => sinceSave + computing[p].left <= Ttl
    BY <1>0, <2>3, <2>4
  <2>6. AgesWithTheRules'
    BY <1>0, <1>1, <1>a, <2>1, <2>5 DEF AgesWithTheRules
  <2> QED BY <1>0, <1>1, <2>2, <2>6 DEF EmotionInv
<1> QED BY <1>2, <1>3

LEMMA SaveKeeps == ASSUME EmotionInv, NEW p \in Processes, NEW r \in RuleSets, SaveRules(p, r) PROVE EmotionInv'
<1>0. /\ market \in Quotes /\ Ttl \in Nat
      /\ computing \in [Processes -> Answers] /\ cached \in Answers /\ memory \in [Processes -> Answers]
      /\ NoAnswer \in Answers
  BY EmotionConstants DEF EmotionInv
<1>1. /\ rules' = r /\ sinceSave' = 0 /\ UNCHANGED <<market, computing>>
      /\ cached' \in {NoAnswer, cached} /\ memory' = [memory EXCEPT ![p] = NoAnswer]
  BY DEF SaveRules
<1>2. cached' \in Answers /\ memory' \in [Processes -> Answers]
  BY <1>0, <1>1
<1>3. \A a \in {cached'} \cup {memory'[q] : q \in Processes} : a \in Answers
  BY <1>2
<1>4. \A a \in Answers : a.left \in Nat /\ 0 + a.left <= Ttl
  BY <1>0, AnswerTyped
<1>5. AgesWithTheRules'
  BY <1>1, <1>3, <1>4 DEF AgesWithTheRules
<1> QED BY <1>0, <1>1, <1>2, <1>5 DEF EmotionInv

LEMMA TickKeeps == ASSUME EmotionInv, CacheTick PROVE EmotionInv'
<1>0. /\ market \in Quotes /\ rules \in RuleSets /\ Ttl \in Nat /\ sinceSave \in Nat
      /\ computing \in [Processes -> Answers] /\ cached \in Answers /\ memory \in [Processes -> Answers]
      /\ NoAnswer \in Answers
  BY EmotionConstants DEF EmotionInv
<1>a. AgesWithTheRules
  BY DEF EmotionInv
<1>1. /\ \A p \in Processes : computing[p] = NoAnswer
      /\ cached' = Aged(cached) /\ memory' = [p \in Processes |-> Aged(memory[p])]
      /\ sinceSave' = IF sinceSave > Ttl THEN sinceSave ELSE sinceSave + 1
      /\ UNCHANGED <<computing, market, rules>>
  BY DEF CacheTick, momentVars
<1>2. ASSUME NEW a \in Answers
      PROVE  /\ Aged(a) \in Answers
             /\ Aged(a).left > 0 => Aged(a).rules = a.rules /\ a.left > 0 /\ Aged(a).left = a.left - 1
  <2>1. a.left \in Nat /\ a.left <= Ttl /\ a.rules \in RuleSets
    BY AnswerTyped
  <2>2. CASE a.left <= 1
    BY <1>0, <2>2 DEF Aged, NoAnswer
  <2>3. CASE ~(a.left <= 1)
    <3>1. Aged(a) = [a EXCEPT !.left = a.left - 1]
      BY <2>3 DEF Aged
    <3>2. a.left - 1 \in 1..Ttl /\ a.left > 0
      BY <1>0, <2>1, <2>3
    <3>3. a \in [rules : RuleSets, left : 1..Ttl]
      BY <3>2, AnswerTyped
    <3> QED BY <3>1, <3>2, <3>3 DEF Answers
  <2> QED BY <2>2, <2>3
<1>3. cached' \in Answers /\ memory' \in [Processes -> Answers] /\ sinceSave' \in Nat
  <2>1. sinceSave' \in Nat
    BY ONLY <1>0, <1>1
  <2> QED BY <1>0, <1>1, <1>2, <2>1
<1>4. ASSUME NEW a \in Answers, a.left > 0 /\ a.rules # rules => sinceSave + a.left <= Ttl
      PROVE  Aged(a).left > 0 /\ Aged(a).rules # rules => sinceSave' + Aged(a).left <= Ttl
  <2> SUFFICES ASSUME Aged(a).left > 0, Aged(a).rules # rules PROVE sinceSave' + Aged(a).left <= Ttl
    OBVIOUS
  <2>1. sinceSave + a.left <= Ttl /\ a.left > 0 /\ Aged(a).left = a.left - 1 /\ a.left \in Nat
    BY <1>2, <1>4, AnswerTyped
  <2>2. sinceSave' = sinceSave + 1
    BY <1>0, <1>1, <2>1
  <2> QED BY <1>0, <2>1, <2>2
<1>5. AgesWithTheRules'
  <2>1. \A a \in {cached} \cup {memory[p] : p \in Processes} : a \in Answers /\ (a.left > 0 /\ a.rules # rules => sinceSave + a.left <= Ttl)
    BY <1>0, <1>a DEF AgesWithTheRules
  <2>2. cached'.left > 0 /\ cached'.rules # rules => sinceSave' + cached'.left <= Ttl
    BY <1>1, <1>4, <2>1
  <2>3. \A p \in Processes : memory'[p].left > 0 /\ memory'[p].rules # rules => sinceSave' + memory'[p].left <= Ttl
    BY <1>1, <1>4, <2>1
  <2> QED BY <1>1, <2>2, <2>3 DEF AgesWithTheRules
<1> QED BY <1>0, <1>1, <1>3, <1>5 DEF EmotionInv

LEMMA EmotionInductive == EmotionInv /\ [EmotionNext]_emotionVars => EmotionInv'
<1> SUFFICES ASSUME EmotionInv, [EmotionNext]_emotionVars PROVE EmotionInv'
  OBVIOUS
<1>1. CASE DataMoves \/ RedisMoves \/ UNCHANGED emotionVars
  <2>1. UNCHANGED <<rules, computing, cached, memory, sinceSave>> /\ (market' = market \/ \E d \in Days : market' = d[1])
    BY <1>1 DEF DataMoves, RedisMoves, emotionVars, answerVars
  <2> QED BY <2>1, EmotionConstants DEF EmotionInv, AgesWithTheRules
<1> QED BY <1>1, TickKeeps, ComputeKeeps, SaveKeeps DEF EmotionNext

-----------------------------------------------------------------------------
(* The rules.                                                              *)

LEMMA SubsetCounts ==
    ASSUME NEW S, NEW T, S \subseteq T, T \subseteq Listed
    PROVE  Cardinality(S) \in Nat /\ Cardinality(T) \in Nat /\ Cardinality(S) <= Cardinality(T)
<1>1. IsFiniteSet(Listed)
  BY EmotionConstants
<1>2. IsFiniteSet(S) /\ IsFiniteSet(T)
  BY <1>1, FS_Subset
<1> QED BY <1>2, FS_Subset, FS_CardinalityType

\* A read of as many rows as stocks are listed reads them all.
LEMMA AllRead ==
    ASSUME NEW m \in Quotes, NEW n \in Nat, n >= Cardinality(Listed)
    PROVE  Best(m, n) = Listed
<1>1. ASSUME NEW s \in Listed PROVE Cardinality({t \in Listed : RanksAbove(m, s, t)}) < n
  <2> DEFINE A == {t \in Listed : RanksAbove(m, s, t)}
  <2>1. m[s].cp \in Int /\ s \in Nat
    BY EmotionConstants DEF Quotes
  <2>2. A \subseteq Listed /\ s \notin A
    BY <2>1 DEF RanksAbove
  <2>3. IsFiniteSet(Listed)
    BY EmotionConstants
  <2> HIDE DEF A
  <2>4. Cardinality(A) \in Nat /\ Cardinality(Listed) \in Nat /\ Cardinality(A) < Cardinality(Listed)
    <3>1. A # Listed
      BY <2>2
    <3>2. IsFiniteSet(A) /\ Cardinality(A) <= Cardinality(Listed) /\ Cardinality(A) # Cardinality(Listed)
      BY <2>2, <2>3, <3>1, FS_Subset
    <3> QED BY <2>3, <3>2, FS_CardinalityType
  <2>5. Cardinality(A) < n
    BY <2>4
  <2> QED BY <2>5 DEF A
<1> QED BY <1>1 DEF Best

\* What the ladder leaves of the breadth.
LEMMA LadderKeeps ==
    ASSUME NEW m \in Quotes, NEW l, AllAreRead
    PROVE  LET b == Inputs(m, l, TRUE) IN
           /\ b.limitUp = Cardinality({s \in Listed : m[s].cp >= LimitPct \/ m[s].boards >= 1})
           /\ b.limitDown = Cardinality({s \in Listed : m[s].cp <= -LimitPct})
           /\ b.up = Cardinality({s \in Listed : m[s].cp > 0})
           /\ b.down = Cardinality({s \in Listed : m[s].cp < 0})
           /\ \A o \in Quotes : (\A s \in Listed : o[s].boards = m[s].boards) => b.boards = Inputs(o, l, TRUE).boards
<1>1. \A o \in Quotes : Sample(o) = Listed
  BY AllRead, EmotionConstants DEF AllAreRead, Sample
<1>2. ASSUME NEW o \in Quotes
      PROVE  /\ Inputs(o, l, TRUE).limitUp = Cardinality({s \in Listed : o[s].cp >= LimitPct \/ o[s].boards >= 1})
             /\ Inputs(o, l, TRUE).limitDown = Cardinality({s \in Listed : o[s].cp <= -LimitPct})
             /\ Inputs(o, l, TRUE).up = Cardinality({s \in Listed : o[s].cp > 0})
             /\ Inputs(o, l, TRUE).down = Cardinality({s \in Listed : o[s].cp < 0})
             /\ Inputs(o, l, TRUE).boards = Largest({Largest({o[s].boards : s \in Listed}), l.today.boards})
  BY <1>1 DEF Inputs, WithLadder, Breadth
<1>3. ASSUME NEW o \in Quotes, \A s \in Listed : o[s].boards = m[s].boards
      PROVE  {o[s].boards : s \in Listed} = {m[s].boards : s \in Listed}
  BY <1>3
<1> QED BY <1>2, <1>3

\* The conditions of a recession are seen in the breadth of all stocks.
LEMMA RecessionIsShown ==
    ASSUME EmotionInv, NEW p \in Processes, RawStage(market, ladder, online, rules) = "recession"
    PROVE  NextStage(p) = "recession"
BY DEF NextStage, ShownStage, Kept, Alarms

LEMMA CrashSeen == ASSUME EmotionInv, AllAreRead PROVE CrashIsSeen /\ FallenLeaderIsSeen
<1>1. market \in Quotes
  BY DEF EmotionInv
<1>2. ASSUME online, Cardinality({s \in Listed : market[s].cp <= -LimitPct}) >= rules.recessionDown
      PROVE  RawStage(market, ladder, online, rules) = "recession"
  <2>1. Inputs(market, ladder, TRUE).limitDown >= rules.recessionDown
    BY <1>1, <1>2, LadderKeeps
  <2> QED BY <1>2, <2>1 DEF RawStage, Classified, Recession, Inputs
<1>3. ASSUME online, ladder.before.leader \in Listed, market[ladder.before.leader].cp <= -LimitPct
      PROVE  RawStage(market, ladder, online, rules) = "recession"
  <2>1. Best(market, LeaderPool) = Listed
    BY <1>1, AllRead, EmotionConstants DEF AllAreRead
  <2>2. LeaderFell(market, ladder, online)
    BY <1>3, <2>1, EmotionConstants DEF LeaderFell, NoLeader
  <2> QED BY <1>3, <2>2 DEF RawStage, Classified, Recession
<1>4. CrashIsSeen
  BY <1>2, RecessionIsShown DEF CrashIsSeen
<1>5. FallenLeaderIsSeen
  BY <1>3, RecessionIsShown DEF FallenLeaderIsSeen
<1> QED BY <1>4, <1>5

LEMMA HeldSettles == HeldStageSettles
BY DEF HeldStageSettles, NextStage, ShownStage, NextStable, Kept

\* Fewer stocks up and more of them down do not lift the share.
LEMMA ShareFalls ==
    ASSUME NEW u \in Nat, NEW d \in Nat, NEW v \in Nat, NEW e \in Nat, NEW pct \in Int,
           v > 0, v <= u, d <= e, 100 * u < pct * (u + d)
    PROVE  100 * v < pct * (v + e)
<1>1. pct \in Nat
  <2> SUFFICES ASSUME pct <= 0 PROVE FALSE
    OBVIOUS
  <2>1. pct * (u + d) <= 0
    OBVIOUS
  <2> QED BY <2>1
<1>2. PICK x \in Nat, y \in Nat : u = v + x /\ e = d + y
  <2>1. u - v \in Nat /\ e - d \in Nat /\ u = v + (u - v) /\ e = d + (e - d)
    OBVIOUS
  <2> QED BY <2>1
<1>3. pct * (u + d) = pct * v + pct * x + pct * d /\ pct * (v + e) = pct * v + pct * d + pct * y
  BY <1>1, <1>2
<1>4. pct * y >= 0 /\ pct * d >= 0 /\ pct * x \in Nat /\ pct * v \in Nat
  BY <1>1, <1>2
<1>5. CASE pct <= 100
  <2>1. pct * x <= 100 * x
    BY <1>1, <1>2, <1>5
  <2> QED BY <1>2, <1>3, <1>4, <2>1
<1>6. CASE pct > 100
  <2>1. 100 * v < pct * v
    BY <1>1, <1>6
  <2> QED BY <1>3, <1>4, <2>1
<1> QED BY <1>1, <1>5, <1>6

LEMMA FewerUpNoBetter == ASSUME EmotionInv, AllAreRead PROVE FewerUpIsNoBetter
<1> SUFFICES ASSUME NEW m \in {d[1] : d \in Days}, online,
                    \A s \in Listed : m[s].boards = market[s].boards /\ m[s].cp <= market[s].cp,
                    \A s \in Listed : m[s].cp >= LimitPct <=> market[s].cp >= LimitPct,
                    \E s \in Listed : m[s].cp > 0,
                    RawStage(market, ladder, online, rules) \in Alarms
             PROVE  RawStage(m, ladder, online, rules) \in Alarms
  BY DEF FewerUpIsNoBetter
<1>1. market \in Quotes /\ m \in Quotes /\ rules \in RuleSets
  BY EmotionConstants DEF EmotionInv
<1>2. \A s \in Listed : m[s].cp \in Int /\ market[s].cp \in Int
  BY <1>1 DEF Quotes
<1> DEFINE b == Inputs(market, ladder, TRUE)
           c == Inputs(m, ladder, TRUE)
           U == {s \in Listed : market[s].cp > 0}
           V == {s \in Listed : m[s].cp > 0}
           D == {s \in Listed : market[s].cp < 0}
           E == {s \in Listed : m[s].cp < 0}
           L == {s \in Listed : market[s].cp <= -LimitPct}
           K == {s \in Listed : m[s].cp <= -LimitPct}
<1>3. /\ b.limitDown = Cardinality(L) /\ b.up = Cardinality(U) /\ b.down = Cardinality(D)
      /\ c.limitDown = Cardinality(K) /\ c.up = Cardinality(V) /\ c.down = Cardinality(E)
      /\ c.boards = b.boards
  <2>1. b.limitDown = Cardinality(L) /\ b.up = Cardinality(U) /\ b.down = Cardinality(D)
    BY ONLY <1>1, LadderKeeps, AllAreRead
  <2>2. c.limitDown = Cardinality(K) /\ c.up = Cardinality(V) /\ c.down = Cardinality(E)
    BY ONLY <1>1, LadderKeeps, AllAreRead
  <2>3. \A s \in Listed : m[s].boards = market[s].boards
    OBVIOUS
  <2>4. c.boards = b.boards
    <3>1. \A o \in Quotes : (\A s \in Listed : o[s].boards = market[s].boards)
                                 => Inputs(market, ladder, TRUE).boards = Inputs(o, ladder, TRUE).boards
      BY ONLY <1>1, LadderKeeps, AllAreRead
    <3> QED BY ONLY <1>1, <2>3, <3>1
  <2> QED BY ONLY <2>1, <2>2, <2>4
<1>4. V \subseteq U /\ D \subseteq E /\ L \subseteq K /\ V # {} /\ U \subseteq Listed /\ E \subseteq Listed /\ K \subseteq Listed
  BY <1>2 DEF LimitPct
<1> HIDE DEF U, V, D, E, L, K
<1>5. /\ Cardinality(U) \in Nat /\ Cardinality(V) \in Nat /\ Cardinality(D) \in Nat /\ Cardinality(E) \in Nat
      /\ Cardinality(L) \in Nat /\ Cardinality(K) \in Nat
      /\ Cardinality(V) <= Cardinality(U) /\ Cardinality(D) <= Cardinality(E) /\ Cardinality(L) <= Cardinality(K)
  BY <1>4, SubsetCounts
<1>6. Cardinality(V) > 0
  <2>1. IsFiniteSet(V)
    BY <1>4, EmotionConstants, FS_Subset
  <2> QED BY <1>4, <1>5, <2>1, FS_EmptySet
<1> HIDE DEF b, c
<1>7. ASSUME LeaderFell(market, ladder, online) PROVE LeaderFell(m, ladder, online)
  <2>1. Best(m, LeaderPool) = Listed /\ Best(market, LeaderPool) = Listed
    BY <1>1, AllRead, EmotionConstants DEF AllAreRead
  <2>2. ladder.before.leader \in Listed /\ market[ladder.before.leader].cp <= -LimitPct /\ ladder.before.leader # NoLeader
    BY <1>7, <2>1 DEF LeaderFell
  <2>3. m[ladder.before.leader].cp <= -LimitPct
    BY <1>2, <2>2 DEF LimitPct
  <2> QED BY <2>1, <2>2, <2>3 DEF LeaderFell
<1>8. rules.recessionDown \in Int /\ rules.iceDown \in Int /\ rules.iceUpPct \in Int
  BY <1>1, EmotionConstants
<1>9. ASSUME Recession(b, LeaderFell(market, ladder, online), BoardsBroke(ladder, b.boards, rules), rules)
      PROVE  Recession(c, LeaderFell(m, ladder, online), BoardsBroke(ladder, c.boards, rules), rules)
  <2>1. b.limitDown >= rules.recessionDown => c.limitDown >= rules.recessionDown
    BY <1>3, <1>5, <1>8
  <2> QED BY <1>3, <1>7, <1>9, <2>1 DEF Recession
<1>10. ASSUME Ice(b, rules) PROVE Ice(c, rules)
  <2>1. b.limitDown >= rules.iceDown => c.limitDown >= rules.iceDown
    BY <1>3, <1>5, <1>8
  <2>2. 100 * b.up < rules.iceUpPct * (b.up + b.down)
    BY <1>3, <1>5, <1>6, <1>10 DEF Ice, UpShareBelow
  <2>3. 100 * c.up < rules.iceUpPct * (c.up + c.down)
    BY <1>3, <1>5, <1>6, <1>8, <2>2, ShareFalls
  <2>4. c.up # 0
    BY <1>3, <1>5, <1>6
  <2>5. UpShareBelow(c, rules.iceUpPct)
    BY <2>3, <2>4 DEF UpShareBelow
  <2> QED BY <1>3, <1>10, <2>1, <2>5 DEF Ice
<1>11. /\ RawStage(market, ladder, online, rules) =
             Classified(b, LeaderFell(market, ladder, online), BoardsBroke(ladder, b.boards, rules), rules)
       /\ RawStage(m, ladder, online, rules) =
             Classified(c, LeaderFell(m, ladder, online), BoardsBroke(ladder, c.boards, rules), rules)
  BY DEF RawStage, b, c, Inputs
<1>12. \/ Recession(b, LeaderFell(market, ladder, online), BoardsBroke(ladder, b.boards, rules), rules)
       \/ Ice(b, rules)
  BY <1>11 DEF Classified, Alarms
<1> QED BY <1>9, <1>10, <1>11, <1>12 DEF Classified, Alarms

\* For any market of any number of stocks, any thresholds and processes: if all
\* listed stocks are read, the stage shown is the one that is due
\* (emotion_cycle.py: classify_stage, build_emotion_cycle; emotion_hysteresis.py).
THEOREM StagesAreDue == AllAreRead => (EmotionSpec => []StageIsDue)
<1> SUFFICES ASSUME AllAreRead PROVE EmotionSpec => []StageIsDue
  OBVIOUS
<1>1. EmotionInv => SavedRulesRule
  <2> SUFFICES ASSUME EmotionInv, NEW p \in Processes, Hit(p) # NoAnswer, Hit(p).rules # rules PROVE sinceSave <= Ttl
    BY DEF SavedRulesRule
  <2>1. Hit(p) \in Answers /\ Hit(p) \in {cached} \cup {memory[q] : q \in Processes}
    BY DEF EmotionInv, Hit
  <2>2. Hit(p).left \in Nat /\ Hit(p).left > 0 /\ Ttl \in Nat /\ sinceSave \in Nat
    BY <2>1, AnswerTyped, EmotionConstants DEF EmotionInv
  <2>3. sinceSave + Hit(p).left <= Ttl
    BY <2>1, <2>2 DEF EmotionInv, AgesWithTheRules
  <2> QED BY ONLY <2>2, <2>3
<1>2. EmotionInv => StageIsDue
  BY <1>1, CrashSeen, FewerUpNoBetter, HeldSettles DEF StageIsDue
<1> QED BY EmotionStarts, EmotionInductive, <1>2, PTL DEF EmotionSpec

-----------------------------------------------------------------------------
(* Radar: what the board puts first is the best of what the cards show. The *)
(* cards are those of the last warming as long as nothing moved, and the    *)
(* numbers of a board are numbers (ScoresAreNumbers), so that the points of *)
(* a prediction can be compared.                                            *)

\* A stock's resonance, as the horizon board keeps it.
Resonances == [cards : Nat, score : Nat]

RadarInv ==
    /\ scene \in Scenes /\ DOMAIN snapshot = Cards
    /\ DOMAIN horizon.rows \subseteq RadarStocks /\ \A x \in DOMAIN horizon.rows : horizon.rows[x] \in Resonances
    /\ WarmCardsAreFresh

\* The points of some cards can be counted.
LEMMA WeightCounts ==
    ASSUME NEW w, NEW C, IsFiniteSet(C), \A c \in C : w[c] \in Nat
    PROVE  Weight(w, C) \in Nat
<1> DEFINE Points(c) == {c} \X (1..w[c])
           All == {Points(c) : c \in C}
<1>1. \A c \in C : IsFiniteSet(Points(c))
  <2> SUFFICES ASSUME NEW c \in C PROVE IsFiniteSet(Points(c))
    OBVIOUS
  <2>1. IsFiniteSet({c})
    BY FS_Singleton
  <2>2. IsFiniteSet(1..w[c])
    BY FS_Interval
  <2> QED BY <2>1, <2>2, FS_Product
<1>2. IsFiniteSet(All)
  <2> DEFINE f == [c \in C |-> Points(c)]
  <2>1. f \in [C -> All] /\ \A p \in All : \E c \in C : f[c] = p
    <3> HIDE DEF Points
    <3> QED OBVIOUS
  <2> HIDE DEF f, All
  <2>2. f \in Surjection(C, All)
    BY <2>1 DEF Surjection
  <2> QED BY <2>2, FS_Surjection
<1>3. IsFiniteSet(UNION All)
  <2> HIDE DEF Points
  <2> QED BY <1>1, <1>2, FS_UNION
<1>4. Weight(w, C) = Cardinality(UNION All)
  BY DEF Weight
<1> QED BY <1>3, <1>4, FS_CardinalityType

\* A board has the number of cards and the points of every stock.
LEMMA ScoresAreNumbers ==
    ASSUME NEW w, \A c \in Cards : w[c] \in Nat, NEW snap, NEW s, NEW x \in RadarStocks
    PROVE  /\ Scored(w, snap, s)[x] \in Resonances
           /\ Scored(w, snap, s)[x].cards = Cardinality(Hits(w, snap, s, x))
<1>1. IsFiniteSet(Hits(w, snap, s, x)) /\ Hits(w, snap, s, x) \subseteq Cards
  BY FS_Subset, RadarAssumption DEF Hits
<1>2. Cardinality(Hits(w, snap, s, x)) \in Nat
  BY <1>1, FS_CardinalityType
<1>3. Weight(w, Hits(w, snap, s, x)) \in Nat
  BY <1>1, WeightCounts
<1>4. Scored(w, snap, s)[x] = [cards |-> Cardinality(Hits(w, snap, s, x)), score |-> Weight(w, Hits(w, snap, s, x))]
  BY DEF Scored
<1> QED BY <1>2, <1>3, <1>4 DEF Resonances

LEMMA BoardStarts == RadarInit => RadarInv
BY DEF RadarInit, RadarInv, NoBoard, WarmCardsAreFresh

LEMMA BoardKept == RadarInv /\ [RadarNext]_radarVars => RadarInv'
<1> SUFFICES ASSUME RadarInv, [RadarNext]_radarVars PROVE RadarInv'
  OBVIOUS
<1>1. CASE SceneMoves
  BY <1>1 DEF SceneMoves, RadarInv, WarmCardsAreFresh
<1>2. CASE Warm
  <2>1. \A c \in Cards : scene.cards[c] # NoCard => snapshot'[c] = scene.cards[c]
    BY <1>2 DEF Warm, Warmed
  <2>2. WarmCardsAreFresh'
    BY <1>2, <2>1 DEF WarmCardsAreFresh, Shown, Warm
  <2> QED BY <1>2, <2>2 DEF Warm, Warmed, RadarInv
<1>3. CASE WriteHorizon
  <2> DEFINE r == Scored(CardWeights, snapshot, scene)
  <2>1. UNCHANGED <<scene, snapshot, warmed>> /\ horizon'.rows = [x \in Entries(r) |-> r[x]]
    BY <1>3 DEF WriteHorizon
  <2>2. Entries(r) \subseteq RadarStocks
    BY DEF Entries, Strongest, Resonant
  <2>3. \A x \in RadarStocks : r[x] \in Resonances
    BY ScoresAreNumbers, RadarAssumption
  <2> HIDE DEF r
  <2> QED BY <2>1, <2>2, <2>3 DEF RadarInv, WarmCardsAreFresh, Shown
<1>4. CASE (\E put \in Puts : PutWeights(put)) \/ WritePredict \/ PredictFails \/ UNCHANGED radarVars
  BY <1>4 DEF PutWeights, WritePredict, PredictFails, radarVars, RadarInv, WarmCardsAreFresh, Shown
<1> QED BY <1>1, <1>2, <1>3, <1>4 DEF RadarNext

\* A stock is left off the board only for too few cards, or for TopN others.
LEMMA CutAfterFilter == LeftOffIsWeaker
<1> SUFFICES ASSUME NEW x \in RadarStocks, x \notin Entries(Board(Merged(weights)))
             PROVE  \/ Cardinality(Hits(Merged(weights), snapshot, scene, x)) < MinCards
                    \/ Cardinality({y \in Resonant(Board(Merged(weights))) : Stronger(Board(Merged(weights)), y, x)}) >= TopN
  BY DEF LeftOffIsWeaker
<1>1. PICK w : w = Merged(weights)
  OBVIOUS
<1>2. PICK r : r = Scored(w, snapshot, scene)
  OBVIOUS
<1>3. Board(Merged(weights)) = r
  BY <1>1, <1>2 DEF Board
<1>4. r[x].cards = Cardinality(Hits(w, snapshot, scene, x))
  BY <1>2 DEF Scored
<1>5. Cardinality(Hits(w, snapshot, scene, x)) \in Nat
  <2>1. IsFiniteSet(Hits(w, snapshot, scene, x))
    BY FS_Subset, RadarAssumption DEF Hits
  <2> QED BY <2>1, FS_CardinalityType
<1>6. CASE x \notin Resonant(r)
  BY <1>1, <1>4, <1>5, <1>6, RadarAssumption DEF Resonant
<1>7. CASE x \in Resonant(r)
  <2> DEFINE above == {y \in Resonant(r) : Stronger(r, y, x)}
  <2>1. ~ (Cardinality(above) < TopN)
    BY <1>3, <1>7 DEF Entries, Strongest
  <2>2. above \subseteq RadarStocks
    BY DEF Resonant
  <2>3. Cardinality(above) \in Nat
    <3> HIDE DEF above
    <3> QED BY <2>2, FS_Subset, FS_CardinalityType, RadarAssumption
  <2>4. Cardinality(above) >= TopN
    <3> HIDE DEF above
    <3> QED BY <2>1, <2>3, RadarAssumption
  <2> QED BY <1>3, <2>4
<1> QED BY <1>6, <1>7

LEMMA SilentCards == WeightlessCardsAreSilent
<1> SUFFICES ASSUME NEW x \in Entries(Board(Merged(weights)))
             PROVE  Cardinality({c \in Cards : Merged(weights)[c] > 0 /\ x \in Shown(snapshot, scene, c)}) >= MinCards
  BY DEF WeightlessCardsAreSilent
<1>1. x \in RadarStocks /\ Board(Merged(weights))[x].cards >= MinCards
  BY DEF Entries, Strongest, Resonant
<1>2. Board(Merged(weights))[x].cards = Cardinality(Hits(Merged(weights), snapshot, scene, x))
  BY <1>1 DEF Board, Scored
<1> QED BY <1>1, <1>2 DEF Hits

\* More change, no fewer points; the rest is the same for both.
LEMMA FallsLess == ASSUME RadarInv PROVE FallingPredictsLess
<1> SUFFICES ASSUME NEW x \in DOMAIN horizon.rows, NEW y \in DOMAIN horizon.rows,
                    horizon.rows[x] = horizon.rows[y],
                    x \in scene.sealed <=> y \in scene.sealed, x \in scene.bars <=> y \in scene.bars,
                    scene.change[x] < scene.change[y]
             PROVE  Prediction(horizon.rows, scene, x) <= Prediction(horizon.rows, scene, y)
  BY DEF FallingPredictsLess
<1>1. PICK k \in Resonances : k = horizon.rows[x] /\ k = horizon.rows[y]
  BY DEF RadarInv
<1>2. PICK a \in Int, b \in Int : a = scene.change[x] /\ b = scene.change[y]
  BY RadarAssumption DEF RadarInv
<1>3. PICK p \in Int : p = (IF x \in scene.sealed THEN 6 ELSE 0)
  OBVIOUS
<1>4. p = (IF y \in scene.sealed THEN 6 ELSE 0)
  BY <1>3
<1>5. PICK q \in Int : q = (IF x \in scene.bars THEN 3 ELSE 0)
  OBVIOUS
<1>6. q = (IF y \in scene.bars THEN 3 ELSE 0)
  BY <1>5
<1>7. ChangePoints(a) \in Int /\ ChangePoints(b) \in Int /\ ChangePoints(a) <= ChangePoints(b)
  BY <1>2 DEF ChangePoints
<1>8. PICK i \in Int, j \in Int : i = ChangePoints(a) /\ j = ChangePoints(b) /\ i <= j
  BY <1>7
<1>9. PICK base \in Int : base = k.score + CardPoints(k.cards)
  BY <1>1 DEF Resonances, CardPoints
<1>10. Prediction(horizon.rows, scene, x) = base + i + p + q /\ Prediction(horizon.rows, scene, y) = base + j + p + q
  BY <1>1, <1>2, <1>3, <1>4, <1>5, <1>6, <1>8, <1>9 DEF Prediction
<1> QED BY <1>8, <1>10

\* What the radar puts first is the best of what its cards show (BoardIsTheBest:
\* list_radar_cards, compute_resonance, score_predict_rows), for every set of
\* cards, stocks, weights and scenes.
THEOREM BoardHolds == RadarSpec => []BoardIsTheBest
<1>1. RadarInv => BoardIsTheBest
  BY CutAfterFilter, SilentCards, FallsLess DEF RadarInv, BoardIsTheBest
<1> QED BY <1>1, BoardStarts, BoardKept, PTL DEF RadarSpec

-----------------------------------------------------------------------------
(* TeamScoring: a fact that moves for the better never lowers the weighted  *)
(* score, for any numbers. Each group of points is compared on its own, and *)
(* the score of the facts that stay is left out. The drawdown is a          *)
(* recursive function: that there is one, and what it has seen up to each   *)
(* close, follows from the least close at which it would not (PassExists,   *)
(* PassSees).                                                               *)

\* The facts are numbers where they are known and numbers are meant.
FactsTyped ==
  /\ DOMAIN facts = Financial \cup Risk \cup Strategy
  /\ facts = [f \in DOMAIN facts |-> facts[f]]
  /\ \A f \in NumericFacts : Known(f) => facts[f] \in Int
  /\ closes \in Seq(Nat)

LEMMA FactsStart == FactsInit => FactsTyped
<1> SUFFICES ASSUME FactsInit PROVE FactsTyped
  OBVIOUS
<1>1. facts = [f \in Financial \cup Risk \cup Strategy |-> Unknown] /\ closes = <<>>
  BY DEF FactsInit
<1>2. NumericFacts \subseteq Financial \cup Risk \cup Strategy
  BY DEF NumericFacts, Financial, Risk, Strategy
<1> QED BY <1>1, <1>2 DEF FactsTyped, Known

LEMMA FactsKeep == FactsTyped /\ [FactsNext]_teamFacts => FactsTyped'
<1> SUFFICES ASSUME FactsTyped, [FactsNext]_teamFacts PROVE FactsTyped'
  OBVIOUS
<1>1. ASSUME NEW f \in DOMAIN facts, FactMoves(f) PROVE FactsTyped'
  <2>1. PICK v \in FactValues[f] \cup {Unknown} : facts' = [facts EXCEPT ![f] = v]
    BY <1>1 DEF FactMoves
  <2>2. \A g \in NumericFacts : FactValues[g] \subseteq Int
    BY FactsAssumption
  <2>3. closes' = closes
    BY <1>1 DEF FactMoves
  <2>4. \A g \in NumericFacts : facts'[g] # Unknown => facts'[g] \in Int
    <3> SUFFICES ASSUME NEW g \in NumericFacts, facts'[g] # Unknown PROVE facts'[g] \in Int
      OBVIOUS
    <3>1. g \in DOMAIN facts
      BY DEF FactsTyped, NumericFacts, Financial, Risk, Strategy
    <3>2. CASE g = f
      BY <2>1, <2>2, <3>1, <3>2
    <3>3. CASE g # f
      BY <2>1, <3>1, <3>3 DEF FactsTyped, Known
    <3> QED BY <3>2, <3>3
  <2> QED BY <2>1, <2>3, <2>4 DEF FactsTyped, Known
<1>2. CASE NewClose
  BY <1>2, FactsAssumption DEF NewClose, FactsTyped, Known
<1>3. CASE UNCHANGED teamFacts
  BY <1>3 DEF teamFacts, FactsTyped, Known
<1> QED BY <1>1, <1>2, <1>3 DEF FactsNext

----------------------------------------------------------------------------
(* The scores.                                                             *)

\* More points never make a score less.
LEMMA ClampKeepsOrder ==
  ASSUME NEW x \in Int, NEW y \in Int, x <= y
  PROVE  Clamp(x) <= Clamp(y) /\ Clamp(x) \in Int
BY DEF Clamp

\* The points of the valuation, whatever they come from.
FinancialOf(pe, pb, mv) == IF ~(pe # 0 \/ pb < 0 \/ mv # 0) THEN 50 ELSE Clamp(50 + pe + pb + mv)

\* A block that stops being "limited data" does not lose by it.
LEMMA FinancialKeepsOrder ==
  ASSUME NEW pe \in {-10, 0, 12}, NEW pb \in {-5, 0, 5}, NEW mv \in {-5, 0, 5},
         NEW pe2 \in {-10, 0, 12}, NEW pb2 \in {-5, 0, 5}, NEW mv2 \in {-5, 0, 5},
         pe <= pe2, pb <= pb2, mv <= mv2
  PROVE  FinancialOf(pe, pb, mv) <= FinancialOf(pe2, pb2, mv2) /\ FinancialOf(pe, pb, mv) \in Int
BY DEF FinancialOf, Clamp

\* One fact moves for the better.
Improves(f, v) ==
  /\ FactsTyped /\ facts' = [facts EXCEPT ![f] = v]
  /\ BetterFact(f, facts[f], v)

LEMMA OnlyOneMoves ==
  ASSUME NEW f, NEW v, f \in Financial \cup Risk \cup Strategy, Improves(f, v)
  PROVE  /\ facts'[f] = v /\ facts[f] # Unknown /\ v # Unknown
         /\ \A g \in Financial \cup Risk \cup Strategy : g # f => facts'[g] = facts[g]
BY DEF Improves, FactsTyped, BetterFact

\* The order of the numeric facts.
LEMMA NumbersImprove ==
  ASSUME NEW f \in NumericFacts, NEW v, Improves(f, v), v \in Int
  PROVE  /\ facts[f] \in Int
         /\ f \in LessIsBetter => v < facts[f]
         /\ f \notin LessIsBetter => v > facts[f]
<1>1. facts[f] \in Int
  BY DEF Improves, FactsTyped, BetterFact, Known
<1>2. f \notin DOMAIN Ranked
  BY DEF Ranked, NumericFacts
<1> QED BY <1>1, <1>2 DEF Improves, BetterFact

LEMMA FinancialFollows ==
  ASSUME NEW f \in Financial, NEW v, Improves(f, v), f \in NumericFacts => v \in Int
  PROVE  /\ FinancialScore' >= FinancialScore /\ FinancialScore \in Int
<1>0. f \in {"pe", "pb", "mv"} /\ f \in NumericFacts
  BY DEF Improves, BetterFact, Financial, NumericFacts
<1>1. /\ facts'[f] = v /\ facts[f] # Unknown /\ v # Unknown /\ v \in Int /\ facts[f] \in Int
      /\ \A g \in Financial \cup Risk \cup Strategy : g # f => facts'[g] = facts[g]
      /\ f \in LessIsBetter => v < facts[f]
      /\ f \notin LessIsBetter => v > facts[f]
  BY <1>0, OnlyOneMoves, NumbersImprove
<1>2. facts'["financialError"] = facts["financialError"]
  BY <1>0, <1>1 DEF Financial
<1>t. /\ Known("pe") => facts["pe"] \in Int
      /\ Known("pb") => facts["pb"] \in Int
      /\ Known("mv") => facts["mv"] \in Int
  BY DEF Improves, FactsTyped, NumericFacts
<1>3. /\ PePoints \in {-10, 0, 12} /\ PbPoints \in {-5, 0, 5} /\ MvPoints \in {-5, 0, 5}
  BY <1>t DEF PePoints, PbPoints, MvPoints, If
<1>4. PePoints' \in {-10, 0, 12} /\ PePoints <= PePoints'
  <2>1. CASE f = "pe"
    BY <1>1, <2>1 DEF PePoints, If, Known, LessIsBetter
  <2>2. CASE f # "pe"
    <3>1. facts'["pe"] = facts["pe"]
      BY <1>1, <2>2 DEF Financial
    <3> QED BY <1>3, <3>1 DEF PePoints, Known
  <2> QED BY <2>1, <2>2
<1>5. PbPoints' \in {-5, 0, 5} /\ PbPoints <= PbPoints'
  <2>1. CASE f = "pb"
    BY <1>1, <2>1 DEF PbPoints, If, Known, LessIsBetter
  <2>2. CASE f # "pb"
    <3>1. facts'["pb"] = facts["pb"]
      BY <1>1, <2>2 DEF Financial
    <3> QED BY <1>3, <3>1 DEF PbPoints, Known
  <2> QED BY <2>1, <2>2
<1>6. MvPoints' \in {-5, 0, 5} /\ MvPoints <= MvPoints'
  <2>1. CASE f = "mv"
    BY <1>1, <2>1 DEF MvPoints, If, Known, LessIsBetter
  <2>2. CASE f # "mv"
    <3>1. facts'["mv"] = facts["mv"]
      BY <1>1, <2>2 DEF Financial
    <3> QED BY <1>3, <3>1 DEF MvPoints, Known
  <2> QED BY <2>1, <2>2
<1>7. FinancialScore = IF facts["financialError"] = TRUE THEN 40 ELSE FinancialOf(PePoints, PbPoints, MvPoints)
  BY DEF FinancialScore, FinancialRemarks, FinancialOf
<1>8. FinancialScore' = IF facts'["financialError"] = TRUE THEN 40 ELSE FinancialOf(PePoints', PbPoints', MvPoints')
  BY DEF FinancialScore, FinancialRemarks, FinancialOf, Clamp
<1>9. /\ FinancialOf(PePoints, PbPoints, MvPoints) <= FinancialOf(PePoints', PbPoints', MvPoints')
      /\ FinancialOf(PePoints, PbPoints, MvPoints) \in Int
  BY <1>3, <1>4, <1>5, <1>6, FinancialKeepsOrder
<1> HIDE DEF FinancialScore
<1>10. CASE facts["financialError"] = TRUE
  BY <1>2, <1>7, <1>8, <1>10
<1>11. CASE facts["financialError"] # TRUE
  BY <1>2, <1>7, <1>8, <1>9, <1>11
<1> QED BY <1>10, <1>11

LEMMA RiskFollows ==
  ASSUME NEW f \in Risk, NEW v, Improves(f, v), f \in NumericFacts => v \in Int
  PROVE  /\ RiskScore' >= RiskScore /\ RiskScore \in Int
<1>0. f \in {"vol", "dd", "ret60", "fearGreed"} /\ f \in NumericFacts
  BY DEF Improves, BetterFact, Risk, NumericFacts
<1>1. /\ facts'[f] = v /\ facts[f] # Unknown /\ v # Unknown /\ v \in Int /\ facts[f] \in Int
      /\ \A g \in Financial \cup Risk \cup Strategy : g # f => facts'[g] = facts[g]
      /\ f \in LessIsBetter => v < facts[f]
      /\ f \notin LessIsBetter => v > facts[f]
  BY <1>0, OnlyOneMoves, NumbersImprove
<1>2. facts'["riskError"] = facts["riskError"]
  BY <1>0, <1>1 DEF Risk
<1>t. /\ Known("vol") => facts["vol"] \in Int
      /\ Known("dd") => facts["dd"] \in Int
      /\ Known("ret60") => facts["ret60"] \in Int
      /\ Known("fearGreed") => facts["fearGreed"] \in Int
  BY DEF Improves, FactsTyped, NumericFacts
<1>3. {VolPoints, DrawdownPoints, ReturnPoints, MoodPoints} \subseteq Int
  BY <1>t DEF VolPoints, DrawdownPoints, ReturnPoints, MoodPoints, If
<1>4. VolPoints' \in Int /\ VolPoints <= VolPoints'
  <2>1. CASE f = "vol"
    BY <1>1, <2>1 DEF VolPoints, If, Known, LessIsBetter
  <2>2. CASE f # "vol"
    <3>1. facts'["vol"] = facts["vol"]
      BY <1>1, <2>2 DEF Risk
    <3> QED BY <1>3, <3>1 DEF VolPoints, Known
  <2> QED BY <2>1, <2>2
<1>5. DrawdownPoints' \in Int /\ DrawdownPoints <= DrawdownPoints'
  <2>1. CASE f = "dd"
    BY <1>1, <2>1 DEF DrawdownPoints, If, Known, LessIsBetter
  <2>2. CASE f # "dd"
    <3>1. facts'["dd"] = facts["dd"]
      BY <1>1, <2>2 DEF Risk
    <3> QED BY <1>3, <3>1 DEF DrawdownPoints, Known
  <2> QED BY <2>1, <2>2
<1>6. ReturnPoints' \in Int /\ ReturnPoints <= ReturnPoints'
  <2>1. CASE f = "ret60"
    BY <1>1, <2>1 DEF ReturnPoints, If, Known, LessIsBetter
  <2>2. CASE f # "ret60"
    <3>1. facts'["ret60"] = facts["ret60"]
      BY <1>1, <2>2 DEF Risk
    <3> QED BY <1>3, <3>1 DEF ReturnPoints, Known
  <2> QED BY <2>1, <2>2
<1>7. MoodPoints' \in Int /\ MoodPoints <= MoodPoints'
  <2>1. CASE f = "fearGreed"
    BY <1>1, <2>1 DEF MoodPoints, If, Known, LessIsBetter
  <2>2. CASE f # "fearGreed"
    <3>1. facts'["fearGreed"] = facts["fearGreed"]
      BY <1>1, <2>2 DEF Risk
    <3> QED BY <1>3, <3>1 DEF MoodPoints, Known
  <2> QED BY <2>1, <2>2
<1>8. /\ Clamp(60 + VolPoints + DrawdownPoints + ReturnPoints + MoodPoints)
         <= Clamp(60 + VolPoints' + DrawdownPoints' + ReturnPoints' + MoodPoints')
      /\ Clamp(60 + VolPoints + DrawdownPoints + ReturnPoints + MoodPoints) \in Int
  BY <1>3, <1>4, <1>5, <1>6, <1>7, ClampKeepsOrder
<1>9. CASE facts["riskError"] = TRUE
  BY <1>2, <1>9 DEF RiskScore
<1>10. CASE facts["riskError"] # TRUE
  <2>1. RiskScore = Clamp(60 + VolPoints + DrawdownPoints + ReturnPoints + MoodPoints)
    BY <1>10 DEF RiskScore
  <2>2. RiskScore' = Clamp(60 + VolPoints' + DrawdownPoints' + ReturnPoints' + MoodPoints')
    BY <1>2, <1>10 DEF RiskScore, Clamp
  <2> QED BY <1>8, <2>1, <2>2
<1> QED BY <1>9, <1>10

LEMMA StrategyFollows ==
  ASSUME NEW f \in Strategy, NEW v, Improves(f, v), f \in NumericFacts => v \in Int
  PROVE  /\ StrategyScore' >= StrategyScore /\ StrategyScore \in Int
<1>1. /\ facts'[f] = v /\ facts[f] # Unknown /\ v # Unknown
      /\ \A g \in Financial \cup Risk \cup Strategy : g # f => facts'[g] = facts[g]
      /\ f = "period" => v \in Int /\ facts[f] \in Int /\ v > facts[f]
  <2>1. f = "period" => f \in NumericFacts /\ f \notin LessIsBetter
    BY DEF NumericFacts, LessIsBetter
  <2> QED BY <2>1, OnlyOneMoves, NumbersImprove
<1>2. BetterFact(f, facts[f], v)
  BY DEF Improves
<1>t. Known("period") => facts["period"] \in Int
  BY DEF Improves, FactsTyped, NumericFacts
<1>3. {AlignmentPoints, SignalPoints, PeriodPoints, StagePoints, HoldBackPoints} \subseteq Int
  BY DEF AlignmentPoints, SignalPoints, PeriodPoints, StagePoints, HoldBackPoints, If
<1>4. AlignmentPoints' \in Int /\ AlignmentPoints <= AlignmentPoints'
  <2>1. CASE f = "alignment"
    <3>1. \/ v = "mixed" /\ facts[f] = "bear"
          \/ v = "bull" /\ facts[f] \in {"bear", "mixed"}
      BY <1>2, <2>1 DEF BetterFact, Ranked
    <3> QED BY <1>1, <2>1, <3>1 DEF AlignmentPoints, If
  <2>2. CASE f # "alignment"
    <3>1. facts'["alignment"] = facts["alignment"]
      BY <1>1, <2>2 DEF Strategy
    <3> QED BY <1>3, <3>1 DEF AlignmentPoints
  <2> QED BY <2>1, <2>2
<1>5. SignalPoints' \in Int /\ SignalPoints <= SignalPoints'
  <2>1. CASE f = "signal"
    <3>1. \/ v = "hold" /\ facts[f] = "sell"
          \/ v = "buy" /\ facts[f] \in {"sell", "hold"}
      BY <1>2, <2>1 DEF BetterFact, Ranked
    <3> QED BY <1>1, <2>1, <3>1 DEF SignalPoints, If
  <2>2. CASE f # "signal"
    <3>1. facts'["signal"] = facts["signal"]
      BY <1>1, <2>2 DEF Strategy
    <3> QED BY <1>3, <3>1 DEF SignalPoints
  <2> QED BY <2>1, <2>2
<1>6. PeriodPoints' \in Int /\ PeriodPoints <= PeriodPoints'
  <2>1. CASE f = "period"
    BY <1>1, <2>1 DEF PeriodPoints, If, Known
  <2>2. CASE f # "period"
    <3>1. facts'["period"] = facts["period"]
      BY <1>1, <2>2 DEF Strategy
    <3> QED BY <1>3, <3>1 DEF PeriodPoints, Known
  <2> QED BY <2>1, <2>2
<1>7. StagePoints' \in Int /\ StagePoints <= StagePoints'
  <2>1. CASE f = "stage"
    <3>1. \/ v = "ice" /\ facts[f] = "recession"
          \/ v = "chaos" /\ facts[f] \in {"recession", "ice"}
          \/ v = "startup" /\ facts[f] \in {"recession", "ice", "chaos"}
      BY <1>2, <2>1 DEF BetterFact, Ranked
    <3> QED BY <1>1, <2>1, <3>1 DEF StagePoints, If
  <2>2. CASE f # "stage"
    <3>1. facts'["stage"] = facts["stage"]
      BY <1>1, <2>2 DEF Strategy
    <3> QED BY <1>3, <3>1 DEF StagePoints
  <2> QED BY <2>1, <2>2
<1>8. HoldBackPoints' \in Int /\ HoldBackPoints' <= HoldBackPoints
  <2>1. CASE f = "allowNew"
    <3>1. ~(facts'["allowNew"] = FALSE)
      <4> DEFINE flags == <<FALSE, TRUE>>
      <4>1. PICK i \in DOMAIN Ranked[f], j \in DOMAIN Ranked[f] : i < j /\ Ranked[f][j] = v
        BY <1>2, <2>1 DEF BetterFact, Ranked
      <4>2. Ranked[f] = flags
        BY <2>1 DEF Ranked
      <4>3. DOMAIN flags = 1..2 /\ flags[2]
        OBVIOUS
      <4> HIDE DEF flags
      <4>4. j = 2
        BY <4>1, <4>2, <4>3
      <4>5. v = flags[2]
        BY <4>1, <4>2, <4>4
      <4> QED BY <1>1, <2>1, <4>3, <4>5, Zenon
    <3>2. HoldBackPoints' = 0
      BY <3>1, Zenon DEF HoldBackPoints, If
    <3>3. HoldBackPoints >= 0
      BY DEF HoldBackPoints, If
    <3> QED BY <3>2, <3>3
  <2>2. CASE f # "allowNew"
    <3>1. facts'["allowNew"] = facts["allowNew"]
      BY <1>1, <2>2 DEF Strategy
    <3> QED BY <1>3, <3>1 DEF HoldBackPoints
  <2> QED BY <2>1, <2>2
<1>9. /\ Clamp(50 + AlignmentPoints + SignalPoints + PeriodPoints + StagePoints - HoldBackPoints)
         <= Clamp(50 + AlignmentPoints' + SignalPoints' + PeriodPoints' + StagePoints' - HoldBackPoints')
      /\ Clamp(50 + AlignmentPoints + SignalPoints + PeriodPoints + StagePoints - HoldBackPoints) \in Int
  BY <1>3, <1>4, <1>5, <1>6, <1>7, <1>8, ClampKeepsOrder
<1> QED BY <1>9 DEF StrategyScore, Clamp

\* The scores of the other analysts do not move.
LEMMA OthersStay ==
  /\ (\A g \in Financial : facts'[g] = facts[g]) => FinancialScore' = FinancialScore
  /\ (\A g \in Risk : facts'[g] = facts[g]) => RiskScore' = RiskScore
  /\ (\A g \in Strategy : facts'[g] = facts[g]) => StrategyScore' = StrategyScore
<1>1. (\A g \in Financial : facts'[g] = facts[g]) => FinancialScore' = FinancialScore
  BY DEF Financial, FinancialScore, FinancialRemarks, PePoints, PbPoints, MvPoints, Known, If, Clamp
<1>2. (\A g \in Risk : facts'[g] = facts[g]) => RiskScore' = RiskScore
  BY DEF Risk, RiskScore, VolPoints, DrawdownPoints, ReturnPoints, MoodPoints, Known, If, Clamp
<1>3. (\A g \in Strategy : facts'[g] = facts[g]) => StrategyScore' = StrategyScore
  BY DEF Strategy, StrategyScore, AlignmentPoints, SignalPoints, PeriodPoints, StagePoints, HoldBackPoints, Known, If, Clamp
<1> QED BY <1>1, <1>2, <1>3

LEMMA RuleScoresAreNumbers == {FinancialScore, RiskScore, StrategyScore} \subseteq Int
<1>1. \A x \in Int : Clamp(x) \in Int
  BY DEF Clamp
<1>2. /\ PePoints \in Int /\ PbPoints \in Int /\ MvPoints \in Int
      /\ VolPoints \in Int /\ DrawdownPoints \in Int /\ ReturnPoints \in Int /\ MoodPoints \in Int
      /\ AlignmentPoints \in Int /\ SignalPoints \in Int /\ PeriodPoints \in Int
      /\ StagePoints \in Int /\ HoldBackPoints \in Int
  BY DEF PePoints, PbPoints, MvPoints, VolPoints, DrawdownPoints, ReturnPoints, MoodPoints,
         AlignmentPoints, SignalPoints, PeriodPoints, StagePoints, HoldBackPoints, If
<1>3. FinancialScore \in Int
  BY <1>1, <1>2 DEF FinancialScore
<1>4. RiskScore \in Int
  BY <1>1, <1>2 DEF RiskScore
<1>5. StrategyScore \in Int
  BY <1>1, <1>2 DEF StrategyScore
<1> QED BY <1>3, <1>4, <1>5

LEMMA RuleScoresStayNumbers == ({FinancialScore, RiskScore, StrategyScore} \subseteq Int)'
BY RuleScoresAreNumbers, PTL

\* What has not moved has not moved for the better.
LEMMA StillIsNoBetter ==
  ASSUME FactsTyped, NEW f \in Financial \cup Risk \cup Strategy
  PROVE  ~BetterFact(f, facts[f], facts[f])
<1> SUFFICES ASSUME BetterFact(f, facts[f], facts[f]) PROVE FALSE
  OBVIOUS
<1>1. CASE f \in NumericFacts
  <2>1. facts[f] \in Int /\ f \notin DOMAIN Ranked
    BY <1>1 DEF BetterFact, FactsTyped, Known, Ranked, NumericFacts
  <2> QED BY <2>1 DEF BetterFact
<1>2. CASE f \in {"alignment", "signal", "stage"}
  BY <1>2 DEF BetterFact, Ranked
<1>3. CASE f = "allowNew"
  <2>1. PICK i \in DOMAIN Ranked[f], j \in DOMAIN Ranked[f] : i < j /\ Ranked[f][i] = facts[f] /\ Ranked[f][j] = facts[f]
    BY <1>3 DEF BetterFact, Ranked
  <2> DEFINE flags == <<FALSE, TRUE>>
  <2>2. Ranked[f] = flags
    BY <1>3 DEF Ranked
  <2>3. DOMAIN flags = 1..2 /\ flags[2] /\ ~flags[1]
    OBVIOUS
  <2> HIDE DEF flags
  <2>4. i = 1 /\ j = 2
    BY <2>1, <2>2, <2>3
  <2>5. flags[1] = flags[2]
    BY <2>1, <2>2, <2>4
  <2> QED BY <2>3, <2>5, Zenon
<1> QED BY <1>1, <1>2, <1>3 DEF BetterFact, Financial, Risk, Strategy, NumericFacts

\* A step that moves a fact for the better does not lower the weighted score.
LEMMA BetterScores ==
  ASSUME FactsTyped, FactsTyped', [FactsNext]_teamFacts,
         NEW f \in DOMAIN facts, BetterFact(f, facts[f], facts'[f])
  PROVE  Weighted' >= Weighted
<1>0. f \in Financial \cup Risk \cup Strategy
  BY DEF FactsTyped
<1>1. facts' # facts
  BY <1>0, StillIsNoBetter
<1>2a. PICK g \in DOMAIN facts : \E v \in FactValues[g] \cup {Unknown} : facts' = [facts EXCEPT ![g] = v]
  BY <1>1 DEF FactsNext, FactMoves, NewClose, teamFacts
<1>2. PICK v \in FactValues[g] \cup {Unknown} : facts' = [facts EXCEPT ![g] = v]
  BY <1>2a
<1>3. f = g
  <2>1. CASE f # g
    <3>1. facts'[f] = facts[f]
      BY <1>2, <2>1 DEF FactsTyped
    <3> QED BY <1>0, <3>1, StillIsNoBetter
  <2> QED BY <2>1
<1>4. facts'[f] = v
  BY <1>2, <1>3 DEF FactsTyped
<1>5. Improves(f, v)
  BY <1>2, <1>3, <1>4 DEF Improves
<1>6. f \in NumericFacts => v \in Int
  BY <1>4 DEF BetterFact, FactsTyped, Known
<1>7. \A h \in Financial \cup Risk \cup Strategy : h # f => facts'[h] = facts[h]
  BY <1>0, <1>5, OnlyOneMoves
<1>8. {FinancialScore, RiskScore, StrategyScore} \subseteq Int /\ {FinancialScore', RiskScore', StrategyScore'} \subseteq Int
  BY RuleScoresAreNumbers, RuleScoresStayNumbers
<1>9. /\ FinancialScore' >= FinancialScore
      /\ RiskScore' >= RiskScore
      /\ StrategyScore' >= StrategyScore
  <2>1. CASE f \in Financial
    <3>1. f \notin Risk /\ f \notin Strategy
      BY <2>1 DEF Financial, Risk, Strategy
    <3>2. RiskScore' = RiskScore /\ StrategyScore' = StrategyScore
      BY <1>7, <3>1, OthersStay
    <3> QED BY <1>5, <1>6, <1>8, <2>1, <3>2, FinancialFollows
  <2>2. CASE f \in Risk
    <3>1. f \notin Financial /\ f \notin Strategy
      BY <2>2 DEF Financial, Risk, Strategy
    <3>2. FinancialScore' = FinancialScore /\ StrategyScore' = StrategyScore
      BY <1>7, <3>1, OthersStay
    <3> QED BY <1>5, <1>6, <1>8, <2>2, <3>2, RiskFollows
  <2>3. CASE f \in Strategy
    <3>1. f \notin Financial /\ f \notin Risk
      BY <2>3 DEF Financial, Risk, Strategy
    <3>2. FinancialScore' = FinancialScore /\ RiskScore' = RiskScore
      BY <1>7, <3>1, OthersStay
    <3> QED BY <1>5, <1>6, <1>8, <2>3, <3>2, StrategyFollows
  <2> QED BY <1>0, <2>1, <2>2, <2>3
<1> QED BY <1>8, <1>9 DEF Weighted

----------------------------------------------------------------------------
(* The drawdown.                                                           *)

\* What floors: the quotient is the greatest number that many times the divisor fits.
LEMMA Quotient ==
  ASSUME NEW x \in Int, NEW p \in Nat, p > 0
  PROVE  /\ x \div p \in Int
         /\ p * (x \div p) <= x /\ x < p * (x \div p) + p
OBVIOUS

\* A product grows with its factor.
LEMMA TimesKeepsOrder ==
  ASSUME NEW a \in Int, NEW b \in Int, NEW p \in Nat, a <= b
  PROVE  p * a <= p * b
<1> DEFINE d == b - a
<1>1. d \in Nat
  OBVIOUS
<1>2. p * d \in Nat
  BY <1>1
<1>3. p * b = p * a + p * d
  OBVIOUS
<1> QED BY <1>2, <1>3

LEMMA FallIsNumber ==
  ASSUME NEW p \in Nat, NEW c \in Nat
  PROVE  /\ Fall(p, c) \in Int
         /\ c <= p => Fall(p, c) \in Nat
         /\ c >= p => Fall(p, c) <= 0
<1>1. CASE p = 0
  BY <1>1 DEF Fall
<1>2. CASE p > 0
  <2> DEFINE x == (p - c) * 10000
             q == x \div p
  <2>1. Fall(p, c) = q /\ x \in Int
    BY <1>2 DEF Fall
  <2>2. x >= 0 <=> c <= p
    OBVIOUS
  <2>3. x <= 0 <=> c >= p
    OBVIOUS
  <2>4. q \in Int /\ p * q <= x /\ x < p * q + p
    <3> HIDE DEF x
    <3> QED BY <1>2, <2>1, Quotient
  <2> HIDE DEF q, x
  <2>5. CASE q >= 1
    <3>1. p * 1 <= p * q
      BY <2>4, <2>5, TimesKeepsOrder
    <3>2. x > 0
      BY <1>2, <2>1, <2>4, <3>1
    <3> QED BY <2>1, <2>3, <2>4, <2>5, <3>2
  <2>6. CASE q <= -1
    <3>1. p * q <= p * (-1)
      BY <2>4, <2>6, TimesKeepsOrder
    <3>2. x < 0
      BY <1>2, <2>1, <2>4, <3>1
    <3> QED BY <2>1, <2>2, <2>4, <2>6, <3>2
  <2> QED BY <2>1, <2>4, <2>5, <2>6
<1> QED BY <1>1, <1>2

\* From a higher peak the fall to the same close is no smaller.
LEMMA FallGrowsWithPeak ==
  ASSUME NEW p \in Nat, NEW r \in Nat, NEW c \in Nat, p <= r, c <= r
  PROVE  Fall(p, c) <= Fall(r, c)
<1>1. CASE p = 0
  <2>1. Fall(p, c) = 0
    BY <1>1 DEF Fall
  <2> QED BY <2>1, FallIsNumber
<1>2. CASE p > 0
  <2> DEFINE x == (p - c) * 10000
             y == (r - c) * 10000
             a == x \div p
             b == y \div r
  <2>1. Fall(p, c) = a /\ Fall(r, c) = b
    BY <1>2 DEF Fall
  <2>2. a \in Int /\ p * a <= x
    <3>1. x \in Int
      OBVIOUS
    <3> HIDE DEF x
    <3> QED BY <1>2, <3>1, Quotient
  <2>3. b \in Int /\ y < r * b + r
    <3>1. y \in Int /\ r > 0
      BY <1>2
    <3> HIDE DEF y
    <3> QED BY <3>1, Quotient
  <2> HIDE DEF a, b
  <2>4. a <= 10000
    <3>1. CASE a > 10000
      <4>1. p * 10001 <= p * a
        BY <2>2, <3>1, TimesKeepsOrder
      <4> QED BY <1>2, <2>2, <4>1
    <3> QED BY <2>2, <3>1
  <2>5. r * a <= y
    <3> DEFINE d == r - p
    <3>1. d \in Nat /\ r = p + d
      OBVIOUS
    <3>2. d * a <= d * 10000
      <4> HIDE DEF d
      <4> QED BY <2>2, <2>4, <3>1, TimesKeepsOrder
    <3>3. r * a = p * a + d * a
      BY <2>2
    <3>4. y = x + d * 10000
      OBVIOUS
    <3>5. p * a \in Int /\ d * a \in Int /\ r * a \in Int /\ x \in Int
      BY <2>2
    <3> QED BY <2>2, <3>2, <3>3, <3>4, <3>5
  <2>6. CASE a > b
    <3>1. r * (b + 1) <= r * a
      BY <2>2, <2>3, <2>6, TimesKeepsOrder
    <3>2. r * (b + 1) = r * b + r
      BY <2>3
    <3>3. r * a \in Int /\ r * b \in Int /\ y \in Int
      BY <2>2, <2>3
    <3> HIDE DEF y
    <3> QED BY <2>3, <2>5, <3>1, <3>2, <3>3
  <2> QED BY <2>1, <2>2, <2>3, <2>6
<1> QED BY <1>1, <1>2

\* What the pass over the closes has seen up to each of them.
Start(seq) == [peak |-> seq[1], worst |-> 0]
Passed(seq, n, run) == [i \in 0..n |-> IF i = 0 THEN Start(seq) ELSE Seen(run[i-1], seq[i])]
PassOf(seq) == CHOOSE run : run = Passed(seq, Len(seq), run)

LEMMA DrawdownIsPassed == \A seq : Drawdown(seq) = PassOf(seq)[Len(seq)].worst
BY DEF Drawdown, PassOf, Passed, Start

\* There is such a function: the least length without one would extend the one before it.
LEMMA PassExists ==
  ASSUME NEW seq, NEW len \in Nat
  PROVE  \E run : run = Passed(seq, len, run)
<1> DEFINE Bad == {n \in Nat : ~ \E run : run = Passed(seq, n, run)}
<1>1. Bad = {}
  <2> SUFFICES ASSUME Bad # {} PROVE FALSE
    OBVIOUS
  <2>1. PICK n \in Bad : \A m \in Bad : n <= m
    <3>1. Bad \subseteq Nat
      OBVIOUS
    <3> HIDE DEF Bad
    <3> QED BY <3>1, LeastNumber
  <2>2. CASE n = 0
    <3> DEFINE run == [i \in 0..0 |-> Start(seq)]
    <3>1. run = Passed(seq, 0, run)
      BY DEF Passed
    <3> QED BY <2>1, <2>2, <3>1
  <2>3. CASE n # 0
    <3>1. n \in Nat /\ n-1 \in Nat /\ n-1 \notin Bad
      BY <2>1, <2>3
    <3>2. PICK before : before = Passed(seq, n-1, before)
      BY <3>1
    <3> DEFINE run == [i \in 0..n |-> IF i = n THEN Seen(before[n-1], seq[n]) ELSE before[i]]
    <3>3. ASSUME NEW i \in 0..n PROVE run[i] = IF i = 0 THEN Start(seq) ELSE Seen(run[i-1], seq[i])
      <4>1. CASE i = n
        BY <2>3, <3>1, <4>1
      <4>2. CASE i # n
        <5>1. i \in 0..(n-1) /\ (i # 0 => i-1 \in 0..n /\ i-1 # n)
          BY <3>1, <4>2
        <5>2. before[i] = IF i = 0 THEN Start(seq) ELSE Seen(before[i-1], seq[i])
          BY <3>2, <5>1 DEF Passed
        <5>3. run[i] = before[i] /\ (i # 0 => run[i-1] = before[i-1])
          BY <4>2, <5>1
        <5> QED BY <5>2, <5>3
      <4> QED BY <4>1, <4>2
    <3>4. run = Passed(seq, n, run)
      <4>1. run = [i \in 0..n |-> run[i]]
        OBVIOUS
      <4> HIDE DEF run
      <4> QED BY <3>3, <4>1 DEF Passed
    <3> QED BY <2>1, <3>4
  <2> QED BY <2>2, <2>3
<1> QED BY <1>1

\* What the pass has seen of the closes up to i.
SeenUpTo(seq, at, i) ==
  /\ at.peak \in Nat /\ at.worst \in Nat
  /\ \A j \in 1..i : seq[j] <= at.peak
  /\ \E k \in 1..Len(seq) : at.peak = seq[k] /\ (k <= i \/ k = 1)
  /\ \A j, k \in 1..i : j <= k => Fall(seq[j], seq[k]) <= at.worst
  /\ at.worst = 0 \/ \E j, k \in 1..i : j < k /\ at.worst = Fall(seq[j], seq[k])

LEMMA SeesOneMore ==
  ASSUME NEW seq \in Seq(Nat), NEW i \in 1..Len(seq), NEW at, SeenUpTo(seq, at, i-1)
  PROVE  SeenUpTo(seq, Seen(at, seq[i]), i)
<1> DEFINE c == seq[i]
           peak == IF c > at.peak THEN c ELSE at.peak
           fall == Fall(peak, c)
           worst == IF fall > at.worst THEN fall ELSE at.worst
<1>1. Seen(at, seq[i]).peak = peak /\ Seen(at, seq[i]).worst = worst
  BY DEF Seen
<1>2. /\ i \in Nat /\ i >= 1 /\ i-1 \in Nat /\ Len(seq) \in Nat
      /\ \A j \in 1..i : seq[j] \in Nat
      /\ \A j \in 1..i : j = i \/ j \in 1..(i-1)
      /\ \A j \in 1..(i-1) : j \in 1..i
  OBVIOUS
<1>3. /\ at.peak \in Nat /\ at.worst \in Nat
      /\ \A j \in 1..(i-1) : seq[j] <= at.peak
      /\ \A j, k \in 1..(i-1) : j <= k => Fall(seq[j], seq[k]) <= at.worst
  BY DEF SeenUpTo
<1>4. PICK top \in 1..Len(seq) : at.peak = seq[top] /\ (top <= i-1 \/ top = 1)
  BY DEF SeenUpTo
<1>5. c \in Nat /\ peak \in Nat /\ c <= peak /\ at.peak <= peak
  BY <1>2, <1>3
<1>6. fall \in Nat
  <2> HIDE DEF c, peak
  <2> QED BY <1>5, FallIsNumber
<1>7. worst \in Nat /\ worst >= fall /\ worst >= at.worst
  <2> HIDE DEF fall
  <2> QED BY <1>3, <1>6
<1>8. \A j \in 1..i : seq[j] <= peak
  <2> SUFFICES ASSUME NEW j \in 1..i PROVE seq[j] <= peak
    OBVIOUS
  <2>1. CASE j = i
    BY <1>5, <2>1
  <2>2. CASE j \in 1..(i-1)
    <3>1. seq[j] <= at.peak /\ seq[j] \in Nat
      BY <1>2, <1>3, <2>2
    <3> HIDE DEF peak
    <3> QED BY <1>3, <1>5, <3>1
  <2> QED BY <1>2, <2>1, <2>2
<1>9. \E k \in 1..Len(seq) : peak = seq[k] /\ (k <= i \/ k = 1)
  <2>1. CASE c > at.peak
    BY <1>2, <2>1
  <2>2. CASE ~(c > at.peak)
    BY <1>2, <1>4, <2>2
  <2> QED BY <2>1, <2>2
<1>10. \A j, k \in 1..i : j <= k => Fall(seq[j], seq[k]) <= worst
  <2> SUFFICES ASSUME NEW j \in 1..i, NEW k \in 1..i, j <= k PROVE Fall(seq[j], seq[k]) <= worst
    OBVIOUS
  <2>0. Fall(seq[j], seq[k]) \in Int
    BY <1>2, FallIsNumber
  <2>1. CASE k = i
    <3>1. Fall(seq[j], c) <= fall
      <4>1. seq[j] \in Nat /\ seq[j] <= peak
        BY <1>2, <1>8
      <4> HIDE DEF c, peak
      <4> QED BY <1>5, <4>1, FallGrowsWithPeak
    <3>2. Fall(seq[j], c) \in Int
      BY <2>0, <2>1
    <3> HIDE DEF fall, worst
    <3> QED BY <1>6, <1>7, <2>1, <3>1, <3>2
  <2>2. CASE k \in 1..(i-1)
    <3>1. j \in 1..(i-1)
      BY <1>2, <2>2
    <3>2. Fall(seq[j], seq[k]) <= at.worst
      BY <1>3, <2>2, <3>1
    <3> HIDE DEF worst
    <3> QED BY <1>3, <1>7, <2>0, <3>2
  <2> QED BY <1>2, <2>1, <2>2
<1>11. worst = 0 \/ \E j, k \in 1..i : j < k /\ worst = Fall(seq[j], seq[k])
  <2>1. CASE fall > at.worst
    <3>1. fall > 0 /\ worst = fall
      <4> HIDE DEF fall
      <4> QED BY <1>3, <1>6, <2>1
    <3>2. ~(c >= peak)
      <4> HIDE DEF c, peak
      <4> QED BY <1>5, <1>6, <3>1, FallIsNumber
    <3>3. peak = at.peak
      BY <1>3, <1>5, <3>2
    <3>4. top # i
      BY <1>4, <1>5, <3>2, <3>3
    <3>5. top \in 1..i /\ top < i
      BY <1>2, <1>4, <3>4
    <3>6. worst = Fall(seq[top], seq[i])
      BY <1>4, <3>1, <3>3
    <3> HIDE DEF worst
    <3> QED BY <1>2, <3>5, <3>6
  <2>2. CASE ~(fall > at.worst)
    <3>1. worst = at.worst
      BY <2>2
    <3>2. at.worst = 0 \/ \E j, k \in 1..(i-1) : j < k /\ at.worst = Fall(seq[j], seq[k])
      BY DEF SeenUpTo
    <3> HIDE DEF worst
    <3> QED BY <1>2, <3>1, <3>2
  <2> QED BY <2>1, <2>2
<1> HIDE DEF c, peak, fall, worst
<1> QED BY <1>1, <1>5, <1>7, <1>8, <1>9, <1>10, <1>11 DEF SeenUpTo

\* The pass has seen the worst fall.
LEMMA PassSees ==
  ASSUME NEW seq \in Seq(Nat), Len(seq) > 0
  PROVE  SeenUpTo(seq, PassOf(seq)[Len(seq)], Len(seq))
<1> DEFINE run == PassOf(seq)
           Bad == {i \in 0..Len(seq) : ~SeenUpTo(seq, run[i], i)}
<1>1. Len(seq) \in Nat
  OBVIOUS
<1>2. run = Passed(seq, Len(seq), run)
  BY <1>1, PassExists DEF PassOf
<1>3. run[0] = Start(seq) /\ \A i \in 1..Len(seq) : run[i] = Seen(run[i-1], seq[i])
  <2> HIDE DEF run
  <2> QED BY <1>1, <1>2 DEF Passed
<1> HIDE DEF run
<1>4. SeenUpTo(seq, run[0], 0)
  <2>1. seq[1] \in Nat /\ 1 \in 1..Len(seq) /\ 1..0 = {}
    OBVIOUS
  <2>2. run[0].peak = seq[1] /\ run[0].worst = 0
    BY <1>3 DEF Start
  <2> QED BY <2>1, <2>2 DEF SeenUpTo
<1>5. Bad = {}
  <2> SUFFICES ASSUME Bad # {} PROVE FALSE
    OBVIOUS
  <2>1. PICK n \in Bad : \A m \in Bad : n <= m
    <3>1. Bad \subseteq Nat
      OBVIOUS
    <3> HIDE DEF Bad
    <3> QED BY <3>1, LeastNumber
  <2>2. n \in 1..Len(seq) /\ n-1 \in 0..Len(seq) /\ n-1 \notin Bad
    BY <1>1, <1>4, <2>1
  <2>3. SeenUpTo(seq, run[n-1], n-1)
    BY <2>2
  <2>4. SeenUpTo(seq, run[n], n)
    BY <1>3, <2>2, <2>3, SeesOneMore
  <2> QED BY <2>1, <2>4
<1>6. Len(seq) \in 0..Len(seq) /\ Len(seq) \notin Bad
  BY <1>1, <1>5
<1> QED BY <1>6 DEF run

LEMMA DrawdownHolds == FactsTyped => DrawdownIsWorstFall
<1> SUFFICES ASSUME FactsTyped, Len(closes) >= FewestCloses PROVE DrawdownIsWorstFall
  BY DEF DrawdownIsWorstFall
<1>1. closes \in Seq(Nat) /\ Len(closes) > 0 /\ DOMAIN closes = 1..Len(closes)
  BY DEF FactsTyped, FewestCloses
<1>2. SeenUpTo(closes, PassOf(closes)[Len(closes)], Len(closes))
  BY <1>1, PassSees
<1>3. Drawdown(closes) = PassOf(closes)[Len(closes)].worst
  BY DrawdownIsPassed
<1> HIDE DEF FewestCloses
<1> QED BY <1>1, <1>2, <1>3 DEF SeenUpTo, DrawdownIsWorstFall

\* A fact that moves for the better never lowers a score, and the drawdown the
\* scores are computed from is the worst fall of the closes
\* (services/team/team_scoring.py, team_prefetch.py), whatever the facts are.
THEOREM ScoresFollow == FactsSpec => ScoresFollowTheFacts
<1>1. FactsTyped /\ FactsTyped' /\ [FactsNext]_teamFacts
        => [\A f \in DOMAIN facts : BetterFact(f, facts[f], facts'[f]) => Weighted' >= Weighted]_teamFacts
  BY BetterScores
<1> QED BY <1>1, FactsStart, FactsKeep, DrawdownHolds, PTL DEF FactsSpec, ScoresFollowTheFacts, BetterFactsScoreNoLess

-----------------------------------------------------------------------------
(* PeerRules: the peers shown are the closest. No score falls when a stock  *)
(* comes closer, so neither does their weighted mean; the ranking is the    *)
(* listing of what passes the filters (ListingIsSorted), so what it leaves  *)
(* out comes after what it shows.                                           *)

(* The condition of the theorem: no request gives a factor a negative weight. *)
NoNegativeWeight == \A w \in WeightSets : \A k \in DOMAIN w : w[k] >= 0

----------------------------------------------------------------------------
(* Numbers.                                                                *)

\* A quotient grows with what is divided.
LEMMA QuotientGrows ==
  ASSUME NEW x \in Int, NEW y \in Int, NEW p \in Nat, p > 0, x <= y
  PROVE  x \div p \in Int /\ y \div p \in Int /\ x \div p <= y \div p
<1> DEFINE a == x \div p
           b == y \div p
<1>1. a \in Int /\ p * a <= x
  OBVIOUS
<1>2. b \in Int /\ y < p * b + p
  OBVIOUS
<1> HIDE DEF a, b
<1>3. CASE a > b
  <2>1. a - (b + 1) \in Nat
    BY <1>1, <1>2, <1>3
  <2>2. p * (a - (b + 1)) \in Nat
    BY <2>1
  <2>3. p * (a - (b + 1)) = p * a - p * b - p
    BY <1>1, <1>2
  <2>4. p * a \in Int /\ p * b \in Int
    BY <1>1, <1>2
  <2> QED BY <1>1, <1>2, <2>2, <2>3, <2>4
<1>4. a <= b
  BY <1>1, <1>2, <1>3
<1> QED BY <1>1, <1>2, <1>4 DEF a, b

\* A weight keeps the order of what it weighs.
LEMMA WeightKeepsOrder ==
  ASSUME NEW w \in Nat, NEW x \in Int, NEW y \in Int, x <= y
  PROVE  w * x \in Int /\ w * y \in Int /\ w * x <= w * y
<1>1. w * (y - x) \in Nat
  OBVIOUS
<1>2. w * (y - x) = w * y - w * x
  OBVIOUS
<1> QED BY <1>1, <1>2

\* What is further scores no more, and nothing more than what is near.
LEMMA FurtherScoresLess ==
  ASSUME NEW d \in Nat, NEW e \in Nat, d <= e
  PROVE  /\ 1000 - AtMost(d, 4000) \div 4 \in Int
         /\ 1000 - AtMost(e, 4000) \div 4 <= 1000 - AtMost(d, 4000) \div 4
         /\ 1000 - AtMost(e, 4000) \div 4 <= 1000
BY DEF AtMost

LEMMA DistanceIsNumber ==
  ASSUME NEW a \in Int, NEW b \in Int
  PROVE  Distance(a, b) \in Nat /\ Distance(a, b) = Distance(b, a) /\ Distance(a, a) = 0
BY DEF Distance

----------------------------------------------------------------------------
(* The change over some days.                                              *)

\* What a yuan is worth after each of the days.
Worths(days, n, worth) == [i \in 0..n |-> IF i = 0 THEN Whole ELSE Compounded(worth[i-1], days[i])]

\* There is such a function: the least number of days without one would extend the one before it.
LEMMA WorthsExist ==
  ASSUME NEW days, NEW n \in Nat
  PROVE  \E worth : worth = Worths(days, n, worth)
<1> DEFINE Bad == {m \in Nat : ~ \E worth : worth = Worths(days, m, worth)}
<1>1. Bad = {}
  <2> SUFFICES ASSUME Bad # {} PROVE FALSE
    OBVIOUS
  <2>1. PICK m \in Bad : \A k \in Bad : m <= k
    <3>1. Bad \subseteq Nat
      OBVIOUS
    <3> HIDE DEF Bad
    <3> QED BY <3>1, LeastNumber
  <2>2. CASE m = 0
    <3> DEFINE worth == [i \in 0..0 |-> Whole]
    <3>1. worth = Worths(days, 0, worth)
      BY DEF Worths
    <3> QED BY <2>1, <2>2, <3>1
  <2>3. CASE m # 0
    <3>1. m \in Nat /\ m-1 \in Nat /\ m-1 \notin Bad
      BY <2>1, <2>3
    <3>2. PICK before : before = Worths(days, m-1, before)
      BY <3>1
    <3> DEFINE worth == [i \in 0..m |-> IF i = m THEN Compounded(before[m-1], days[m]) ELSE before[i]]
    <3>3. ASSUME NEW i \in 0..m PROVE worth[i] = IF i = 0 THEN Whole ELSE Compounded(worth[i-1], days[i])
      <4>1. CASE i = m
        BY <2>3, <3>1, <4>1
      <4>2. CASE i # m
        <5>1. i \in 0..(m-1) /\ (i # 0 => i-1 \in 0..m /\ i-1 # m)
          BY <3>1, <4>2
        <5>2. before[i] = IF i = 0 THEN Whole ELSE Compounded(before[i-1], days[i])
          BY <3>2, <5>1 DEF Worths
        <5>3. worth[i] = before[i] /\ (i # 0 => worth[i-1] = before[i-1])
          BY <4>2, <5>1
        <5> QED BY <5>2, <5>3
      <4> QED BY <4>1, <4>2
    <3>4. worth = Worths(days, m, worth)
      <4>1. worth = [i \in 0..m |-> worth[i]]
        OBVIOUS
      <4> HIDE DEF worth
      <4>2. worth = [i \in 0..m |-> IF i = 0 THEN Whole ELSE Compounded(worth[i-1], days[i])]
        BY <3>3, <4>1
      <4> QED BY <4>2 DEF Worths
    <3> QED BY <2>1, <3>4
  <2> QED BY <2>2, <2>3
<1> QED BY <1>1

LEMMA ReturnIsNumber ==
  ASSUME NEW q, q.days \in Seq(Int), NEW n \in Nat
  PROVE  CumulativeReturn(q, n) \in Int
<1> DEFINE days == q.days
           len == AtMost(Len(days), n)
           all == CHOOSE worth : worth = Worths(days, len, worth)
           Bad == {i \in 0..len : all[i] \notin Int}
<1>1. len \in Nat /\ len <= Len(days)
  BY DEF AtMost
<1>2. CumulativeReturn(q, n) = all[len] - Whole
  BY DEF CumulativeReturn, Worths
<1>3. all = Worths(days, len, all)
  <2> HIDE DEF len
  <2> QED BY <1>1, WorthsExist
<1>4. all[0] = Whole /\ \A i \in 1..len : all[i] = Compounded(all[i-1], days[i])
  <2> HIDE DEF all, len
  <2> QED BY <1>1, <1>3 DEF Worths
<1>5. \A i \in 1..len : days[i] \in Int
  <2> HIDE DEF len
  <2> QED BY <1>1
<1> HIDE DEF all, days, len
<1>6. Bad = {}
  <2> SUFFICES ASSUME Bad # {} PROVE FALSE
    OBVIOUS
  <2>1. PICK i \in Bad : \A j \in Bad : i <= j
    <3>1. Bad \subseteq Nat
      BY <1>1
    <3> HIDE DEF Bad
    <3> QED BY <3>1, LeastNumber
  <2>2. i \in 1..len /\ i-1 \in 0..len /\ i-1 \notin Bad
    BY <1>1, <1>4, <2>1 DEF Whole
  <2>3. all[i-1] \in Int /\ days[i] \in Int
    BY <1>5, <2>2
  <2>4. all[i] \in Int
    BY <1>4, <2>2, <2>3 DEF Compounded
  <2> QED BY <2>1, <2>4
<1>7. len \in 0..len /\ len \notin Bad
  BY <1>1, <1>6
<1> QED BY <1>2, <1>7 DEF Whole

----------------------------------------------------------------------------
(* The scores.                                                             *)

IsFigure(q) == {q.pe, q.size, q.turnover} \subseteq Int /\ q.days \in Seq(Int)

LEMMA ValuationIsNumber ==
  ASSUME NEW q, NEW ref, IsFigure(q), IsFigure(ref)
  PROVE  /\ ValuationScore(q, ref) \in Int /\ ValuationScore(q, ref) <= 1000
         /\ Apart("pe", q, ref) \in Nat /\ Apart("size", q, ref) \in Nat
<1>1. Distance(q["pe"], ref["pe"]) \in Nat /\ Distance(q["size"], ref["size"]) \in Nat
  BY DistanceIsNumber DEF IsFigure
<1>2. Apart("pe", q, ref) \in Nat /\ Apart("size", q, ref) \in Nat
  BY <1>1 DEF Apart, AtMost
<1> QED BY <1>2 DEF ValuationScore

LEMMA NearnessIsNumber ==
  ASSUME NEW q, NEW ref, IsFigure(q), IsFigure(ref)
  PROVE  \A k \in Factors : Nearness(q, ref)[k] \in Int /\ Nearness(q, ref)[k] <= 1000
<1>1. ASSUME NEW n \in Nat PROVE MomentumScore(q, ref, n) \in Int /\ MomentumScore(q, ref, n) <= 1000
  <2>1. Distance(CumulativeReturn(q, n), CumulativeReturn(ref, n)) \in Nat
    BY ReturnIsNumber, DistanceIsNumber DEF IsFigure
  <2> QED BY <2>1, FurtherScoresLess DEF MomentumScore
<1>2. TurnoverScore(q, ref) \in Int /\ TurnoverScore(q, ref) <= 1000
  <2>1. Distance(q.turnover, ref.turnover) \in Nat
    BY DistanceIsNumber DEF IsFigure
  <2> QED BY <2>1 DEF TurnoverScore, AtMost
<1>3. ValuationScore(q, ref) \in Int /\ ValuationScore(q, ref) <= 1000
  BY ValuationIsNumber
<1>4. PeerDays.short \in Nat /\ PeerDays.long \in Nat
  BY PeerAssumption
<1> QED BY <1>1, <1>2, <1>3, <1>4 DEF Nearness, Factors

\* A twin of the reference is as near as can be.
LEMMA TwinIsNearest ==
  ASSUME NEW q, NEW t, NEW ref, IsFigure(q), IsFigure(t), IsFigure(ref),
         t.pe = ref.pe, t.size = ref.size, t.turnover = ref.turnover, t.days = ref.days
  PROVE  \A k \in Factors : Nearness(q, ref)[k] <= Nearness(t, ref)[k]
<1>1. \A k \in Factors : Nearness(q, ref)[k] \in Int /\ Nearness(q, ref)[k] <= 1000
  BY NearnessIsNumber
<1>2. ValuationScore(q, ref) <= ValuationScore(t, ref)
  <2>1. Apart("pe", t, ref) = 0 /\ Apart("size", t, ref) = 0
    <3>1. ref["pe"] \in Int /\ ref["size"] \in Int /\ t["pe"] = ref["pe"] /\ t["size"] = ref["size"]
      BY DEF IsFigure
    <3>2. Distance(t["pe"], ref["pe"]) = 0 /\ Distance(t["size"], ref["size"]) = 0
      BY <3>1, DistanceIsNumber
    <3> QED BY <3>2 DEF Apart, AtMost
  <2>2. ValuationScore(t, ref) = IF ref.pe > 0 \/ ref.size > 0 THEN 1000 ELSE 500
    BY <2>1 DEF ValuationScore, BothHave
  <2>3. CASE ref.pe > 0 \/ ref.size > 0
    BY <2>2, <2>3, ValuationIsNumber
  <2>4. CASE ~(ref.pe > 0 \/ ref.size > 0)
    <3>1. ValuationScore(q, ref) = 500
      BY <2>4 DEF ValuationScore, BothHave
    <3> QED BY <2>2, <2>4, <3>1
  <2> QED BY <2>3, <2>4
<1>3. ASSUME NEW n \in Nat PROVE MomentumScore(t, ref, n) = 1000
  <2>1. CumulativeReturn(t, n) = CumulativeReturn(ref, n)
    BY DEF CumulativeReturn
  <2>2. Distance(CumulativeReturn(t, n), CumulativeReturn(ref, n)) = 0
    BY <2>1, ReturnIsNumber, DistanceIsNumber DEF IsFigure
  <2> QED BY <2>2 DEF MomentumScore, AtMost
<1>4. TurnoverScore(q, ref) <= TurnoverScore(t, ref)
  <2>1. Distance(t.turnover, ref.turnover) = 0 /\ Distance(q.turnover, ref.turnover) \in Nat
    BY DistanceIsNumber DEF IsFigure
  <2> QED BY <2>1 DEF TurnoverScore, AtMost, IsFigure
<1>5. PeerDays.short \in Nat /\ PeerDays.long \in Nat
  BY PeerAssumption
<1>6. /\ Nearness(t, ref)["industry"] = 1000
      /\ Nearness(t, ref)["short"] = 1000 /\ Nearness(t, ref)["long"] = 1000
  BY <1>3, <1>5 DEF Nearness, Factors
<1>7. /\ Nearness(q, ref)["valuation"] <= Nearness(t, ref)["valuation"]
      /\ Nearness(q, ref)["turnover"] <= Nearness(t, ref)["turnover"]
  BY <1>2, <1>4 DEF Nearness, Factors
<1> QED BY <1>1, <1>6, <1>7 DEF Factors

\* What is no further in any figure is no less near.
LEMMA CloserIsNearer ==
  ASSUME NEW q, NEW r, NEW ref, IsFigure(q), IsFigure(r), IsFigure(ref),
         \A k \in {"pe", "size", "turnover"} :
             q[k] > 0 /\ r[k] > 0 /\ ref[k] > 0 /\ Distance(q[k], ref[k]) <= Distance(r[k], ref[k]),
         \A n \in {PeerDays.short, PeerDays.long} :
             Distance(CumulativeReturn(q, n), CumulativeReturn(ref, n))
                 <= Distance(CumulativeReturn(r, n), CumulativeReturn(ref, n))
  PROVE  \A k \in Factors : Nearness(r, ref)[k] <= Nearness(q, ref)[k]
<1>1. /\ Distance(q["pe"], ref["pe"]) \in Nat /\ Distance(r["pe"], ref["pe"]) \in Nat
      /\ Distance(q["size"], ref["size"]) \in Nat /\ Distance(r["size"], ref["size"]) \in Nat
      /\ Distance(q["turnover"], ref["turnover"]) \in Nat /\ Distance(r["turnover"], ref["turnover"]) \in Nat
  BY DistanceIsNumber DEF IsFigure
<1>2. ValuationScore(r, ref) <= ValuationScore(q, ref)
  <2>1. /\ Apart("pe", q, ref) \in Nat /\ Apart("pe", r, ref) \in Nat /\ Apart("pe", q, ref) <= Apart("pe", r, ref)
    BY <1>1 DEF Apart, AtMost
  <2>2. /\ Apart("size", q, ref) \in Nat /\ Apart("size", r, ref) \in Nat /\ Apart("size", q, ref) <= Apart("size", r, ref)
    BY <1>1 DEF Apart, AtMost
  <2>3. /\ BothHave("pe", q, ref) /\ BothHave("size", q, ref)
        /\ BothHave("pe", r, ref) /\ BothHave("size", r, ref)
    BY DEF BothHave
  <2> QED BY <2>1, <2>2, <2>3 DEF ValuationScore
<1>3. ASSUME NEW n \in {PeerDays.short, PeerDays.long}
      PROVE  MomentumScore(r, ref, n) <= MomentumScore(q, ref, n)
  <2>1. n \in Nat
    BY PeerAssumption
  <2>2. /\ Distance(CumulativeReturn(q, n), CumulativeReturn(ref, n)) \in Nat
        /\ Distance(CumulativeReturn(r, n), CumulativeReturn(ref, n)) \in Nat
    BY <2>1, ReturnIsNumber, DistanceIsNumber DEF IsFigure
  <2> QED BY <2>2, FurtherScoresLess DEF MomentumScore
<1>4. TurnoverScore(r, ref) <= TurnoverScore(q, ref)
  <2>1. ~(q.turnover <= 0 \/ ref.turnover <= 0) /\ ~(r.turnover <= 0 \/ ref.turnover <= 0)
    BY DEF IsFigure
  <2>2. Distance(q.turnover, ref.turnover) <= Distance(r.turnover, ref.turnover)
    OBVIOUS
  <2> QED BY <1>1, <2>1, <2>2 DEF TurnoverScore, AtMost
<1> QED BY <1>2, <1>3, <1>4 DEF Nearness, Factors

----------------------------------------------------------------------------
(* The ranking.                                                            *)

PeersTyped == figures \in [Peers \cup {0} -> Figures] /\ override \in WeightSets

LEMMA FiguresAreNumbers == PeersTyped => \A p \in Peers \cup {0} : IsFigure(figures[p])
BY PeerAssumption DEF PeersTyped, IsFigure

LEMMA WeightsAreNumbers ==
  ASSUME PeersTyped, NoNegativeWeight
  PROVE  (\A k \in Factors : Weights[k] \in Nat) /\ TotalWeight \in Nat /\ TotalWeight > 0
<1> DEFINE merged == [k \in Factors |-> IF k \in DOMAIN override THEN override[k] ELSE DefaultWeights[k]]
<1>1. \A k \in Factors : DefaultWeights[k] \in Nat /\ DefaultWeights[k] > 0
  BY DEF DefaultWeights, Factors
<1>2. \A k \in Factors : merged[k] \in Nat
  <2>1. \A k \in DOMAIN override : override[k] \in Nat
    BY PeerAssumption DEF PeersTyped, NoNegativeWeight
  <2> QED BY <1>1, <2>1
<1>3. Weights = IF OverFactors(merged) > 0 THEN merged ELSE DefaultWeights
  BY DEF Weights
<1> HIDE DEF merged
<1>4. CASE OverFactors(merged) > 0
  BY <1>2, <1>3, <1>4 DEF TotalWeight, OverFactors, Factors
<1>5. CASE ~(OverFactors(merged) > 0)
  BY <1>1, <1>3, <1>5 DEF TotalWeight, OverFactors, Factors
<1> QED BY <1>4, <1>5

LEMMA SimilarityIsNumber ==
  ASSUME PeersTyped, NoNegativeWeight, NEW q, IsFigure(q)
  PROVE  Similarity(q) \in Int
<1>1. IsFigure(figures[0])
  BY FiguresAreNumbers
<1> DEFINE near == Nearness(q, figures[0])
<1>2. \A k \in Factors : near[k] \in Int /\ Weights[k] \in Nat
  BY <1>1, NearnessIsNumber, WeightsAreNumbers
<1>3. Similarity(q) = OverFactors([k \in Factors |-> Weights[k] * near[k]]) \div TotalWeight
  BY DEF Similarity
<1> HIDE DEF near
<1>4. OverFactors([k \in Factors |-> Weights[k] * near[k]]) \in Int
  BY <1>2 DEF OverFactors, Factors
<1> HIDE DEF OverFactors
<1> QED BY <1>3, <1>4, WeightsAreNumbers, QuotientGrows

LEMMA NearerIsMoreSimilar ==
  ASSUME PeersTyped, NoNegativeWeight, NEW q, NEW r, IsFigure(q), IsFigure(r),
         \A k \in Factors : Nearness(q, figures[0])[k] <= Nearness(r, figures[0])[k]
  PROVE  Similarity(q) <= Similarity(r)
<1>1. IsFigure(figures[0])
  BY FiguresAreNumbers
<1> DEFINE a == Nearness(q, figures[0])
           b == Nearness(r, figures[0])
           x == OverFactors([k \in Factors |-> Weights[k] * a[k]])
           y == OverFactors([k \in Factors |-> Weights[k] * b[k]])
<1>2. \A k \in Factors : a[k] \in Int /\ b[k] \in Int /\ a[k] <= b[k] /\ Weights[k] \in Nat
  BY <1>1, NearnessIsNumber, WeightsAreNumbers
<1>3. Similarity(q) = x \div TotalWeight /\ Similarity(r) = y \div TotalWeight
  BY DEF Similarity
<1> HIDE DEF a, b
<1>4. \A k \in Factors : Weights[k] * a[k] \in Int /\ Weights[k] * b[k] \in Int /\ Weights[k] * a[k] <= Weights[k] * b[k]
  BY <1>2, WeightKeepsOrder
<1>5. x \in Int /\ y \in Int /\ x <= y
  BY <1>4 DEF OverFactors, Factors
<1> HIDE DEF x, y
<1> QED BY <1>3, <1>5, WeightsAreNumbers, QuotientGrows

Passing == {p \in Candidates : PeerPasses(p)}

LEMMA AheadIsOrder ==
  ASSUME PeersTyped, NoNegativeWeight
  PROVE  IsOrder(Ahead, Passing) /\ IsFiniteSet(Passing)
<1>1. \A p \in Candidates : Similarity(figures[p]) \in Int /\ p \in Nat
  BY FiguresAreNumbers, SimilarityIsNumber, PeerAssumption DEF Candidates
<1>2. Passing \subseteq Candidates /\ Passing \subseteq Peers
  BY DEF Passing, Candidates
<1>3. IsFiniteSet(Passing)
  BY <1>2, PeerAssumption, FS_Subset
<1>4. \A p, r \in Passing : <<p, r>> \in Ahead <=> Better(p, r)
  BY <1>2 DEF Ahead
<1>5. \A p \in Passing : Similarity(figures[p]) \in Int /\ p \in Nat
  BY <1>1, <1>2
<1>6. \A p \in Passing : ~Better(p, p)
  BY <1>5 DEF Better
<1>7. \A p, r, t \in Passing : Better(p, r) /\ Better(r, t) => Better(p, t)
  BY <1>5 DEF Better
<1>8. \A p, r \in Passing : p # r => Better(p, r) \/ Better(r, p)
  BY <1>5 DEF Better
<1> QED BY <1>3, <1>4, <1>6, <1>7, <1>8 DEF IsOrder

\* What the ranking shows passes the filters, and is before whatever passes and is not shown.
LEMMA RankingIsBest ==
  ASSUME PeersTyped, NoNegativeWeight
  PROVE  /\ Range(Ranking) \subseteq Passing
         /\ \A p \in Range(Ranking), t \in Passing \ Range(Ranking) :
               Similarity(figures[t]) <= Similarity(figures[p])
         /\ \A p \in Passing, r \in Range(Ranking) :
               Similarity(figures[p]) > Similarity(figures[r]) =>
                   \E i, j \in DOMAIN Ranking : Ranking[i] = p /\ Ranking[j] = r /\ i < j
<1> DEFINE L == Listing(Passing, Ahead)
           c == Cardinality(Passing)
           n == AtMost(c, PeerTop)
<1>1. /\ L \in [1..c -> Passing]
      /\ \A p \in Passing : \E k \in 1..c : L[k] = p
      /\ \A j, k \in 1..c : j < k => <<L[j], L[k]>> \in Ahead
  BY AheadIsOrder, ListingIsSorted
<1>2. c \in Nat /\ n \in Nat /\ n <= c
  BY AheadIsOrder, FS_CardinalityType, PeerAssumption DEF AtMost
<1>3. Ranking = [k \in 1..n |-> L[k]]
  BY DEF Ranking, Passing
<1> HIDE DEF L, c, n
<1>4. Range(Ranking) = {L[k] : k \in 1..n}
  BY <1>3 DEF Range
<1>5. \A k \in 1..n : k \in 1..c
  BY <1>2
<1>6. \A p \in Passing : Similarity(figures[p]) \in Int
  <2>1. Passing \subseteq Peers
    BY DEF Passing, Candidates
  <2> QED BY <2>1, FiguresAreNumbers, SimilarityIsNumber
<1>7. \A p, r : <<p, r>> \in Ahead => Better(p, r)
  BY DEF Ahead
<1>8. \A p, r \in Passing : <<p, r>> \in Ahead => Similarity(figures[r]) <= Similarity(figures[p])
  BY <1>6, <1>7 DEF Better
<1>9. Range(Ranking) \subseteq Passing
  BY <1>1, <1>4, <1>5
<1>10. ASSUME NEW p \in Range(Ranking), NEW t \in Passing \ Range(Ranking)
       PROVE  Similarity(figures[t]) <= Similarity(figures[p])
  <2>1. PICK i \in 1..n : L[i] = p
    BY <1>4
  <2>2. PICK k \in 1..c : L[k] = t
    BY <1>1
  <2>3. k \notin 1..n
    BY <1>4, <1>10, <2>2
  <2>4. i < k /\ i \in 1..c
    BY <1>2, <1>5, <2>3
  <2>5. <<p, t>> \in Ahead
    BY <1>1, <2>1, <2>2, <2>4
  <2> QED BY <1>8, <1>9, <1>10, <2>5
<1>11. ASSUME NEW p \in Passing, NEW r \in Range(Ranking), Similarity(figures[p]) > Similarity(figures[r])
       PROVE  \E i, j \in DOMAIN Ranking : Ranking[i] = p /\ Ranking[j] = r /\ i < j
  <2>1. PICK j \in 1..n : L[j] = r
    BY <1>4
  <2>2. PICK i \in 1..c : L[i] = p
    BY <1>1
  <2>3. r \in Passing /\ j \in 1..c
    BY <1>5, <1>9
  <2>4. ~(j < i)
    <3> SUFFICES ASSUME j < i PROVE FALSE
      OBVIOUS
    <3>1. <<r, p>> \in Ahead
      BY <1>1, <2>1, <2>2, <2>3
    <3> QED BY <1>6, <1>8, <1>11, <2>3, <3>1
  <2>5. i # j
    BY <1>6, <1>11, <2>1, <2>2, <2>3
  <2>6. i \in 1..n /\ i < j
    BY <1>2, <2>4, <2>5
  <2> QED BY <1>3, <2>1, <2>2, <2>6
<1> QED BY <1>9, <1>10, <1>11

----------------------------------------------------------------------------
(* The screen.                                                             *)

PeersInv ==
  /\ PeersTyped
  /\ Ran => peerRun.rows = Ranking
  /\ ~Ran => peerRun.rows = <<>>

LEMMA PeersStart == PeerInit => PeersInv
<1> SUFFICES ASSUME PeerInit PROVE PeersInv
  OBVIOUS
<1>1. peerRun.state = "not run" /\ peerRun.rows = <<>>
  BY DEF PeerInit, NotRun
<1>2. PeersTyped
  BY DEF PeerInit, PeersTyped
<1> QED BY <1>1, <1>2 DEF PeersInv, Ran

LEMMA PeersStay == PeersInv /\ [RunReferencePeer]_peerVars => PeersInv'
<1> SUFFICES ASSUME PeersInv, [RunReferencePeer]_peerVars PROVE PeersInv'
  OBVIOUS
<1>1. figures' = figures /\ override' = override
  BY DEF RunReferencePeer, peerVars
<1>2. Ranking' = Ranking
  BY <1>1 DEF Ranking, Ahead, Better, Candidates, RefIndustry, PeerPasses, Similarity, Nearness,
     Weights, TotalWeight, Listing, Earlier, OverFactors, DefaultWeights
<1>3. PeersTyped'
  BY <1>1 DEF PeersInv, PeersTyped
<1>4. CASE RunReferencePeer
  <2>1. \/ peerRun' = [NotRun EXCEPT !.state = "refused"]
        \/ peerRun' = [NotRun EXCEPT !.state = "no peers"]
        \/ peerRun' = [state |-> "run", rows |-> Ranking]
    BY <1>4 DEF RunReferencePeer
  <2>2. \/ peerRun'.state \in {"refused", "no peers"} /\ peerRun'.rows = <<>>
        \/ peerRun'.state = "run" /\ peerRun'.rows = Ranking
    <3> DEFINE ranking == Ranking
    <3>1. \/ peerRun' = [NotRun EXCEPT !.state = "refused"]
          \/ peerRun' = [NotRun EXCEPT !.state = "no peers"]
          \/ peerRun' = [state |-> "run", rows |-> ranking]
      BY <2>1
    <3> HIDE DEF ranking
    <3>2. \/ peerRun'.state \in {"refused", "no peers"} /\ peerRun'.rows = <<>>
          \/ peerRun'.state = "run" /\ peerRun'.rows = ranking
      <4>1. CASE peerRun' = [NotRun EXCEPT !.state = "refused"]
        BY <4>1 DEF NotRun
      <4>2. CASE peerRun' = [NotRun EXCEPT !.state = "no peers"]
        BY <4>2 DEF NotRun
      <4>3. CASE peerRun' = [state |-> "run", rows |-> ranking]
        BY <4>3
      <4> QED BY <3>1, <4>1, <4>2, <4>3
    <3> QED BY <3>2 DEF ranking
  <2>3. Ran' <=> peerRun'.state = "run"
    BY DEF Ran
  <2> QED BY <1>2, <1>3, <2>2, <2>3 DEF PeersInv
<1>5. CASE UNCHANGED peerVars
  BY <1>2, <1>3, <1>5 DEF PeersInv, Ran, peerVars
<1> QED BY <1>4, <1>5

LEMMA PeersAreRight ==
  ASSUME PeersInv, NoNegativeWeight
  PROVE  PeersAreTheClosest
<1>1. PeersTyped /\ \A p \in Peers \cup {0} : IsFigure(figures[p])
  BY FiguresAreNumbers DEF PeersInv
<1>2. Candidates \subseteq Peers /\ Passing = {p \in Candidates : PeerPasses(p)}
  BY DEF Candidates, Passing
<1>3. Ran => OnList = Range(Ranking)
  BY DEF PeersInv, OnList
<1>4. /\ Range(Ranking) \subseteq Passing
      /\ \A p \in Range(Ranking), t \in Passing \ Range(Ranking) :
            Similarity(figures[t]) <= Similarity(figures[p])
      /\ \A p \in Passing, r \in Range(Ranking) :
            Similarity(figures[p]) > Similarity(figures[r]) =>
                \E i, j \in DOMAIN Ranking : Ranking[i] = p /\ Ranking[j] = r /\ i < j
  BY <1>1, RankingIsBest
<1>5. \A p \in Peers : Similarity(figures[p]) \in Int
  BY <1>1, SimilarityIsNumber
<1>6. PeerTypeOK
  <2>1. Range(peerRun.rows) \subseteq Peers
    <3>1. CASE Ran
      BY <1>2, <1>3, <1>4, <3>1 DEF OnList
    <3>2. CASE ~Ran
      BY <3>2 DEF PeersInv, Range
    <3> QED BY <3>1, <3>2
  <2> QED BY <1>1, <2>1 DEF PeerTypeOK, PeersTyped
<1>7. TwinIsNeverBeaten
  <2> SUFFICES ASSUME Ran, NEW t \in Candidates, Twin(t), NEW p \in OnList
               PROVE  /\ Similarity(figures[p]) <= Similarity(figures[t])
                      /\ PeerPasses(t) /\ t \notin OnList => Similarity(figures[p]) = Similarity(figures[t])
    BY DEF TwinIsNeverBeaten
  <2>1. p \in Peers /\ t \in Peers
    BY <1>2, <1>3, <1>4
  <2>2. Similarity(figures[p]) <= Similarity(figures[t])
    <3>1. /\ figures[t].pe = figures[0].pe /\ figures[t].size = figures[0].size
          /\ figures[t].turnover = figures[0].turnover /\ figures[t].days = figures[0].days
      BY DEF Twin
    <3>2. \A k \in Factors : Nearness(figures[p], figures[0])[k] <= Nearness(figures[t], figures[0])[k]
      BY <1>1, <2>1, <3>1, TwinIsNearest
    <3> QED BY <1>1, <2>1, <3>2, NearerIsMoreSimilar
  <2>3. PeerPasses(t) /\ t \notin OnList => Similarity(figures[t]) <= Similarity(figures[p])
    BY <1>2, <1>3, <1>4
  <2> QED BY <1>5, <2>1, <2>2, <2>3
<1>8. CloserComesFirst
  <2> SUFFICES ASSUME Ran, NEW p \in Candidates, NEW r \in Candidates,
                      Complete(0), Complete(p), Complete(r), Closer(p, r), PeerPasses(p), r \in OnList,
                      Similarity(figures[p]) # Similarity(figures[r])
               PROVE  \E i, j \in DOMAIN peerRun.rows : peerRun.rows[i] = p /\ peerRun.rows[j] = r /\ i < j
    BY DEF CloserComesFirst
  <2>1. p \in Peers /\ r \in Peers
    BY <1>2
  <2>2. Similarity(figures[r]) <= Similarity(figures[p])
    <3>1. /\ \A k \in {"pe", "size", "turnover"} :
                 /\ figures[p][k] > 0 /\ figures[r][k] > 0 /\ figures[0][k] > 0
                 /\ Distance(figures[p][k], figures[0][k]) <= Distance(figures[r][k], figures[0][k])
          /\ \A n \in {PeerDays.short, PeerDays.long} :
                 Distance(CumulativeReturn(figures[p], n), CumulativeReturn(figures[0], n))
                     <= Distance(CumulativeReturn(figures[r], n), CumulativeReturn(figures[0], n))
      BY DEF Complete, Closer
    <3>2. \A k \in Factors : Nearness(figures[r], figures[0])[k] <= Nearness(figures[p], figures[0])[k]
      BY <1>1, <2>1, <3>1, CloserIsNearer
    <3> QED BY <1>1, <2>1, <3>2, NearerIsMoreSimilar
  <2>3. Similarity(figures[p]) > Similarity(figures[r])
    BY <1>5, <2>1, <2>2
  <2>4. p \in Passing /\ r \in Range(Ranking)
    BY <1>2, <1>3
  <2> QED BY <1>4, <2>3, <2>4 DEF PeersInv
<1> QED BY <1>6, <1>7, <1>8 DEF PeersAreTheClosest

\* A stock with the reference's own figures is never beaten and of two stocks the
\* closer comes first (run_reference_peer), for any rows, figures and weights, if no
\* weight of a request is negative.
THEOREM PeersHold == NoNegativeWeight => (PeerSpec => []PeersAreTheClosest)
<1> SUFFICES ASSUME NoNegativeWeight PROVE PeerSpec => []PeersAreTheClosest
  OBVIOUS
<1>1. PeersInv => PeersAreTheClosest
  BY PeersAreRight
<1> QED BY <1>1, PeersStart, PeersStay, PTL DEF PeerSpec
=============================================================================
