--------------------------- MODULE EmotionCycle ---------------------------
(* The emotion cycle of the market: breadth from the quotes in Redis, the  *)
(* ladder of consecutive limit-ups from Postgres, the classification in     *)
(* five stages, the hysteresis each process keeps in a global variable, the *)
(* adjustable thresholds and the short cache in front of it all             *)
(* (domains/emotion).                                                       *)
(*                                                                          *)
(* A market is a function from stocks (natural numbers, the order of their  *)
(* names) to [cp |-> change in percent, boards |-> consecutive limit-ups].  *)
EXTENDS Integers, FiniteSets

CONSTANTS
    Listed,         \* the stocks of the universe
    Days,           \* pairs of a market and the two latest rows of the ladder
    RuleSets,       \* thresholds a user may save
    DefaultRules,   \* DEFAULT_THRESHOLDS
    Hold,           \* the _HOLD_* deltas
    Processes,      \* API and worker processes
    Pool,           \* stocks read for the breadth (4000)
    LeaderPool,     \* stocks read for the leader's change (200)
    Ttl             \* lifetime of a cached answer, in ticks

Stages == {"ice", "startup", "climax", "divergence", "recession"}
Alarms == {"recession", "ice"}
NoStage == "none"
LimitPct == 10
NoLeader == 0

ASSUME EmotionAssumption ==
    /\ Listed \subseteq Nat \ {0}
    /\ IsFiniteSet(Listed)
    /\ DefaultRules \in RuleSets
    /\ \A d \in Days : d[1] \in [Listed -> [cp : Int, boards : Nat]]
    /\ \A r \in RuleSets : {r.recessionDown, r.iceDown, r.iceUpPct} \subseteq Int
    /\ Pool \in Nat /\ LeaderPool \in Nat /\ Ttl \in Nat \ {0}

VARIABLES
    market, ladder,   \* the data of the moment
    online,           \* Redis answers
    rules,            \* the thresholds in app.meta
    stable,           \* _STABLE_STAGE of each process
    computing,        \* answers computed but not yet cached
    cached,           \* the answer in Redis
    memory,           \* the answer in each process
    sinceSave         \* ticks since the thresholds were last changed (history)

emotionVars == <<market, ladder, online, rules, stable, computing, cached, memory, sinceSave>>
answerVars == <<stable, computing, cached, memory>>
momentVars == <<market, ladder, online, rules>>

NoAnswer == [rules |-> DefaultRules, left |-> 0]

-----------------------------------------------------------------------------
(* Breadth and ladder.                                                     *)

Largest(S) == IF S = {} THEN 0 ELSE CHOOSE x \in S : \A y \in S : y <= x
Count(P(_)) == Cardinality({s \in Listed : P(s)})

\* ZREVRANGE of the change rank: the n best, ties by name.
RanksAbove(m, s, t) == m[t].cp > m[s].cp \/ (m[t].cp = m[s].cp /\ t > s)
Best(m, n) == {s \in Listed : Cardinality({t \in Listed : RanksAbove(m, s, t)}) < n}
Sample(m) == Best(m, Pool)

Breadth(m) ==
    LET seen == Sample(m)
        boards == {m[s].boards : s \in seen}
    IN  [limitUp   |-> Cardinality({s \in seen : m[s].cp >= LimitPct \/ m[s].boards >= 1}),
         limitDown |-> Cardinality({s \in seen : m[s].cp <= -LimitPct}),
         up        |-> Cardinality({s \in seen : m[s].cp > 0}),
         down      |-> Cardinality({s \in seen : m[s].cp < 0}),
         boards    |-> Largest(boards),
         depth     |-> Cardinality({b \in boards : b >= 2})]

NoBreadth == [limitUp |-> 0, limitDown |-> 0, up |-> 0, down |-> 0, boards |-> 0, depth |-> 0]

\* The ladder of the day can only raise what the quotes showed.
WithLadder(b, l) ==
    LET mx == l.today.boards
    IN  [b EXCEPT !.boards = Largest({@, mx}),
                  !.depth = IF mx < 2 THEN @
                            ELSE Largest({@, IF mx >= 3 THEN mx - 1 ELSE 1})]

\* Yesterday's highest board, if it is among the quotes that were read.
LeaderFell(m, l, on) ==
    /\ on /\ l.before.leader # NoLeader
    /\ l.before.leader \in Best(m, LeaderPool)
    /\ m[l.before.leader].cp <= -LimitPct

\* _approx_break_rate reaches the threshold, a ratio [num, den].
BoardsBroke(l, boards, r) ==
    LET drop == Largest({0, l.before.boards - boards})
    IN  /\ l.before.boards > 0
        /\ drop * r.breakDen >= r.breakNum * l.before.boards

-----------------------------------------------------------------------------
(* classify_stage: the first stage whose condition holds.                  *)

Recession(b, fell, broke, r) == b.limitDown >= r.recessionDown \/ fell \/ broke

\* A share of zero reads as one half (`get("up_ratio") or 0.5`).
UpShareBelow(b, pct) ==
    IF b.up = 0 THEN 50 < pct ELSE 100 * b.up < pct * (b.up + b.down)
Ice(b, r) ==
    /\ b.boards <= r.iceBoards /\ b.limitDown >= r.iceDown
    /\ UpShareBelow(b, r.iceUpPct)
Climax(b, r) == b.depth >= r.climaxDepth /\ b.limitUp >= r.climaxUp
Divergence(b, r) ==
    /\ b.limitUp >= r.divergenceUp
    /\ b.limitUp - b.limitDown \in -r.spread..r.spread
Startup(b, r) == b.boards >= r.startupBoards \/ b.limitUp >= r.startupUp

Classified(b, fell, broke, r) ==
    IF Recession(b, fell, broke, r) THEN "recession"
    ELSE IF Ice(b, r) THEN "ice"
    ELSE IF Climax(b, r) THEN "climax"
    ELSE IF Divergence(b, r) THEN "divergence"
    ELSE IF Startup(b, r) THEN "startup"
    ELSE "divergence"

\* Without quotes the height of the ladder decides.
FromLadder(mx) ==
    CASE mx <= 0 -> "ice"
      [] mx \in {1, 2} -> "startup"
      [] mx \in {3, 4} -> "divergence"
      [] OTHER -> "climax"

Inputs(m, l, on) == WithLadder(IF on THEN Breadth(m) ELSE NoBreadth, l)
RawStage(m, l, on, r) ==
    LET b == Inputs(m, l, on)
    IN  IF on THEN Classified(b, LeaderFell(m, l, on), BoardsBroke(l, b.boards, r), r)
        ELSE FromLadder(l.today.boards)

-----------------------------------------------------------------------------
(* apply_stage_hysteresis.                                                 *)

\* _hold_stage: the thresholds of the stage, relaxed.
Holds(stage, b, r) ==
    CASE stage = "startup" -> b.limitUp >= r.startupUp - Hold.startupUp \/ b.boards >= r.startupBoards
      [] stage = "climax" -> /\ b.limitUp >= r.climaxUp - Hold.climaxUp
                             /\ b.depth >= Largest({0, r.climaxDepth - Hold.climaxDepth})
      [] stage = "divergence" -> b.limitUp >= r.divergenceUp - Hold.divergenceUp
      [] OTHER -> FALSE

Kept(old, raw, b, r) == old # NoStage /\ raw \notin Alarms /\ old \notin Alarms /\ Holds(old, b, r)

ShownStage(old, raw, b, r) == IF r.hysteresis /\ Kept(old, raw, b, r) THEN old ELSE raw

\* The global is set to the stage that is returned.
NextStableRaw(shownStage, raw) == raw
NextStable(shownStage, raw) == shownStage

-----------------------------------------------------------------------------
(* The handlers.                                                           *)

EmotionInit ==
    /\ \E d \in Days : market = d[1] /\ ladder = d[2]
    /\ online = TRUE /\ rules = DefaultRules
    /\ stable = [p \in Processes |-> NoStage]
    /\ computing = [p \in Processes |-> NoAnswer]
    /\ cached = NoAnswer
    /\ memory = [p \in Processes |-> NoAnswer]
    /\ sinceSave = 0

\* Environment: a round of quotes or a day's ladder, Redis going and coming.
DataMoves ==
    /\ \E d \in Days : market' = d[1] /\ ladder' = d[2]
    /\ UNCHANGED <<answerVars, online, rules, sinceSave>>

RedisMoves == online' = ~online /\ UNCHANGED <<answerVars, market, ladder, rules, sinceSave>>

\* cache_get, what a reader is given without computing: Redis when it answers, the process otherwise.
Hit(p) == IF online THEN cached ELSE memory[p]

\* build_emotion_cycle after a miss, or forced by the warming job.
Compute(p, force) ==
    /\ force \/ Hit(p) = NoAnswer
    /\ computing[p] = NoAnswer
    /\ LET b == Inputs(market, ladder, online)
           raw == RawStage(market, ladder, online, rules)
           stage == ShownStage(stable[p], raw, b, rules)
       IN  /\ stable' = [stable EXCEPT ![p] = NextStable(stage, raw)]
           /\ computing' = [computing EXCEPT ![p] = [rules |-> rules, left |-> Ttl]]
    /\ UNCHANGED <<cached, memory, momentVars, sinceSave>>

\* cache_set and the answer.
Finish(p) ==
    /\ computing[p] # NoAnswer
    /\ IF online THEN cached' = computing[p] /\ UNCHANGED memory
       ELSE memory' = [memory EXCEPT ![p] = computing[p]] /\ UNCHANGED cached
    /\ computing' = [computing EXCEPT ![p] = NoAnswer]
    /\ UNCHANGED <<stable, momentVars, sinceSave>>

\* save_thresholds and reset_thresholds: the caches the process can reach.
SaveRules(p, r) ==
    /\ rules' = r /\ sinceSave' = 0
    /\ cached' = IF online THEN NoAnswer ELSE cached
    /\ memory' = [memory EXCEPT ![p] = NoAnswer]
    /\ UNCHANGED <<stable, computing, market, ladder, online>>

Aged(a) == IF a.left <= 1 THEN NoAnswer ELSE [a EXCEPT !.left = @ - 1]

\* Computing an answer takes less than a tick.
CacheTick ==
    /\ \A p \in Processes : computing[p] = NoAnswer
    /\ cached' = Aged(cached)
    /\ memory' = [p \in Processes |-> Aged(memory[p])]
    /\ sinceSave' = IF sinceSave > Ttl THEN sinceSave ELSE sinceSave + 1
    /\ UNCHANGED <<stable, computing, momentVars>>

EmotionNext ==
    \/ DataMoves \/ RedisMoves \/ CacheTick
    \/ \E p \in Processes : (\E force \in BOOLEAN : Compute(p, force)) \/ Finish(p)
    \/ \E p \in Processes, r \in RuleSets : SaveRules(p, r)

EmotionSpec == EmotionInit /\ [][EmotionNext]_emotionVars

-----------------------------------------------------------------------------
NextStage(p) ==
    ShownStage(stable[p], RawStage(market, ladder, online, rules),
               Inputs(market, ladder, online), rules)

\* A market with as many limit-downs as the thresholds call a recession is
\* shown as one by every process, whatever it showed before: neither the
\* sample of the ranking nor the hysteresis hides it.
CrashIsSeen ==
    online /\ Cardinality({s \in Listed : market[s].cp <= -LimitPct}) >= rules.recessionDown
        => \A p \in Processes : NextStage(p) = "recession"

\* Yesterday's leader at its lower limit is a recession too.
FallenLeaderIsSeen ==
    online /\ ladder.before.leader \in Listed
    /\ market[ladder.before.leader].cp <= -LimitPct
        => \A p \in Processes : NextStage(p) = "recession"

\* Asking twice about the same market gives the same stage: the hysteresis
\* settles at once.
HeldStageSettles == \A p \in Processes :
    LET raw == RawStage(market, ladder, online, rules)
        once == NextStage(p)
    IN  ShownStage(NextStable(once, raw), raw, Inputs(market, ladder, online), rules) = once

\* Thresholds a user saved rule every answer once the lifetime of a cached
\* one has passed, in every process and with Redis up or down.
SavedRulesRule == \A p \in Processes :
    Hit(p) # NoAnswer /\ Hit(p).rules # rules => sinceSave <= Ttl

\* A market that is ice or worse does not look better because stocks that
\* were up turn down, as long as one is still up.
FewerUpIsNoBetter == \A m \in {d[1] : d \in Days} :
    /\ online /\ market # m
    /\ \A s \in Listed : m[s].boards = market[s].boards /\ m[s].cp <= market[s].cp
    /\ \A s \in Listed : m[s].cp >= LimitPct <=> market[s].cp >= LimitPct
    /\ \E s \in Listed : m[s].cp > 0
    /\ RawStage(market, ladder, online, rules) \in Alarms
    => RawStage(m, ladder, online, rules) \in Alarms

\* The stage shown is the one that is due, in every process, although each has
\* a stable stage and an answer of its own: a recession is always shown, a market
\* that gets worse never looks better, the hysteresis settles, and an old answer
\* is not kept over new rules (build_emotion_cycle, apply_stage_hysteresis).
StageIsDue ==
    /\ CrashIsSeen /\ FallenLeaderIsSeen /\ FewerUpIsNoBetter
    /\ HeldStageSettles /\ SavedRulesRule
=============================================================================
