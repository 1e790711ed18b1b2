------------------------------ MODULE MC_Pages ------------------------------
(* What the pages of the browser read and change: proposals (Proposals), the  *)
(* records a handler writes back whole (UserRecords), the radar (Radar), the  *)
(* emotion cycle (EmotionCycle), the scores of a team analysis (TeamScoring) *)
(* and the screen for the peers of a stock (PeerRules): six instances with   *)
(* no variable in common, checked in one run.                                *)
EXTENDS Proposals, UserRecords, Radar, EmotionCycle, TeamScoring, PeerRules, TLC

VARIABLE part   \* the instance this behaviour is about

Perms == Permutations(Ids) \cup Permutations(Users) \cup Permutations(Requests)

\* The changes of UserRecords.
Panel(verb, what) == [kind |-> "panel", on |-> "panel", verb |-> verb, who |-> "u", what |-> what]
Blob(kind, verb, what) == [kind |-> kind, on |-> kind, verb |-> verb, who |-> "u", what |-> what]
Memo(user, what) == [kind |-> "row", on |-> "memo", verb |-> "write", who |-> user, what |-> what]

MCAsked == <<
    Panel("add", "a"), Panel("remove", "a"), Panel("replace", <<"b", "b", "c", "a">>),
    Blob("config", "set", <<"j1", "on">>), Blob("config", "set", <<"j2", "off">>),
    Blob("weights", "set", <<"r1", "w">>), Blob("weights", "reset", "r1"),
    Memo("u", "x"), Memo("v", "z") >>
MCChanges == DOMAIN MCAsked

\* Weights and scenes of Radar: the cards' stocks, their changes, what is sealed
\* and what has bars.
MCWeights == "lead" :> 15 @@ "ladder" :> 14 @@ "surge" :> 10 @@ "sector" :> 0
OnCards(lead, ladr, surge, sector) == "lead" :> lead @@ "ladder" :> ladr @@ "surge" :> surge @@ "sector" :> sector
Scene(cards, changes, sealed, withBars) == [cards |-> cards, change |-> changes, sealed |-> sealed, bars |-> withBars]

MCScenes == {
    Scene(OnCards({1, 2}, {1, 2, 3}, {3}, {}),       <<8, -2, 1>>,  {1}, {1, 2}),
    Scene(OnCards({1, 2, 3}, {1, 2}, {1, 2, 3}, {}), <<-2, 3, -1>>, {},  {}),
    Scene(OnCards({1, 2}, {3}, NoCard, {1}),         <<8, 0, 1>>,   {2}, {1, 2, 3}) }
MCPuts == {<<>>, "lead" :> 0, "surge" :> 20 @@ "ladder" :> 0, "ladder" :> 14, "lead" :> 45, "sector" :> 5}

\* Facts of TeamScoring, around the thresholds of the rules.
MCFactValues ==
    [pe |-> {19, 20, 50, 51}, pb |-> {1, 2, 8, 9}, mv |-> {29, 30, 199, 200},
     vol |-> {24, 25, 40, 41}, dd |-> {19, 20, 35, 36}, ret60 |-> {-15, -14, 9, 10}, fearGreed |-> {25, 26, 74, 75},
     alignment |-> {"bear", "mixed", "bull"}, signal |-> {"sell", "hold", "buy"}, period |-> {4, 5},
     stage |-> {"recession", "ice", "chaos", "startup", "climax"}, allowNew |-> BOOLEAN,
     financialError |-> BOOLEAN, riskError |-> BOOLEAN]

\* Figures of PeerRules: a bank, its twin, near and far, with figures missing, and
\* a stock the filters refuse; a momentum of one and of two days.
Figure(pe, size, turnover, days) ==
    [industry |-> "bank", redis |-> "", pe |-> pe, size |-> size, turnover |-> turnover, days |-> days,
     st |-> FALSE, suspended |-> FALSE]
MCFigures == {
    Figure(180, 900, 3, <<1, 2>>), Figure(200, 860, 6, <<0, 2>>), Figure(200, 860, 6, <<9, 2>>),
    Figure(0, 900, 3, <<1, 2>>), Figure(0, 0, 0, <<-3, 0>>),
    [Figure(180, 900, 3, <<1, 2>>) EXCEPT !.st = TRUE],
    [Figure(185, 890, 4, <<1, 2>>) EXCEPT !.industry = "", !.redis = "bank"] }
MCWeightSets == {<<>>, [k \in {"valuation"} |-> 0], [k \in {"industry", "turnover"} |-> 90]}
MCPeerDays == [short |-> 1, long |-> 2]
FirstFigures == [p \in Peers \cup {0} |-> CHOOSE f \in MCFigures : TRUE]

\* Days of EmotionCycle: change and boards of five stocks, two rows of the ladder.
Quote(change, boards) == [cp |-> change, boards |-> boards]
Down == Quote(-2, 0)
Up == Quote(3, 0)
LimitDown == Quote(-10, 0)
LimitUp == Quote(10, 1)
Ladder(today, before, leader) == [today |-> [boards |-> today], before |-> [boards |-> before, leader |-> leader]]

MCDays == {
    << <<Quote(10, 2), Quote(10, 3), Up, Down, Down>>, Ladder(3, 2, 4) >>,
    << <<Up, Down, Down, Down, LimitDown>>,            Ladder(0, 1, 2) >>,
    << <<Up, Up, Down, Down, LimitDown>>,              Ladder(1, 1, 3) >>,
    << <<Up, Up, Up, LimitDown, LimitDown>>,           Ladder(0, 0, 0) >>,
    << <<LimitUp, LimitUp, Up, Up, Down>>,             Ladder(5, 5, 1) >>,
    << <<LimitUp, Up, Down, Down, LimitDown>>,         Ladder(0, 1, 5) >> }

MCDefault ==
    [recessionDown |-> 2, iceBoards |-> 1, iceDown |-> 1, iceUpPct |-> 45, climaxDepth |-> 2, climaxUp |-> 2,
     divergenceUp |-> 1, spread |-> 0, startupBoards |-> 2, startupUp |-> 2, breakNum |-> 1, breakDen |-> 2,
     hysteresis |-> TRUE]
MCRules == {MCDefault, [MCDefault EXCEPT !.hysteresis = FALSE, !.startupUp = 1]}
MCHold == [startupUp |-> 1, climaxUp |-> 1, climaxDepth |-> 1, divergenceUp |-> 1]

FirstDay == CHOOSE d \in MCDays : TRUE

FirstScene == CHOOSE s \in MCScenes : TRUE

MCInit ==
    /\ part \in {"proposals", "records", "radar", "emotion", "scores", "peers"}
    /\ Init /\ RecordsInit /\ RadarInit /\ EmotionInit /\ FactsInit /\ PeerInit
    /\ part /= "scores" => block = "bars"
    /\ part /= "radar" => scene = FirstScene
    /\ part /= "emotion" => market = FirstDay[1] /\ ladder = FirstDay[2]
    /\ part /= "peers" => figures = FirstFigures /\ override = <<>>

MCNext ==
    \/ part = "proposals" /\ Next /\ UNCHANGED <<recordVars, radarVars, emotionVars, teamFacts, peerVars, part>>
    \/ part = "records" /\ RecordsNext /\ UNCHANGED <<vars, radarVars, emotionVars, teamFacts, peerVars, part>>
    \/ part = "radar" /\ RadarNext /\ UNCHANGED <<vars, recordVars, emotionVars, teamFacts, peerVars, part>>
    \/ part = "emotion" /\ EmotionNext /\ UNCHANGED <<vars, recordVars, radarVars, teamFacts, peerVars, part>>
    \/ part = "scores" /\ FactsNext /\ UNCHANGED <<vars, recordVars, radarVars, emotionVars, peerVars, part>>
    \/ part = "peers" /\ RunReferencePeer /\ UNCHANGED <<vars, recordVars, radarVars, emotionVars, teamFacts, part>>

MCSpec == MCInit /\ [][MCNext]_<<vars, recordVars, radarVars, emotionVars, teamFacts, peerVars, part>>

=============================================================================
