CONSTANTS
  Ids = {p1, p2}
  Users = {u1}
  Requests = {q1}
  Nothing = Nothing
  TTL = 1
  MaxClock = 3
  MaxWrites = 2
  LateErrors = FALSE
  Changes <- MCChanges
  Asked <- MCAsked
  PanelMax = 2
  OneEditor = TRUE
  Cards = {"lead", "ladder", "surge", "sector"}
  RadarStocks = {1, 2, 3}
  CardWeights <- MCWeights
  WeightMax = 50
  Scenes <- MCScenes
  Puts <- MCPuts
  MinCards = 2
  TopN = 2
  FactValues <- MCFactValues
  Unknown = Unknown
  Prices = {0, 8, 9, 10}
  MaxCloses = 5
  Peers = {1, 2, 3}
  Figures <- MCFigures
  WeightSets <- MCWeightSets
  PeerDays <- MCPeerDays
  MinSize = 400
  PeerTop = 2
  Listed = {1, 2, 3, 4, 5}
  Days <- MCDays
  RuleSets <- MCRules
  DefaultRules <- MCDefault
  Hold <- MCHold
  Processes = {e1, e2}
  Pool = 5
  LeaderPool = 5
  Ttl = 1
SPECIFICATION MCSpec
SYMMETRY Perms
INVARIANTS DecidedOnce BoardIsTheBest PeersAreTheClosest 
PROPERTIES  ScoresFollowTheFacts
CHECK_DEADLOCK FALSE
