CONSTANTS
  Ids = {p1}
  Users = {u1, u2}
  Requests = {q1, q2}
  Nothing = Nothing
  TTL = 1
  MaxClock = 4
  MaxWrites = 2
  LateErrors = TRUE
  ChatUsers = {v1, v2}
  ChatSessions = {s1}
  ChatRequests = {r1, r2}
  NoOwner = NoOwner
  HistoryLimit = 2
  MaxToolRounds = 2
  MaxMessages = 4
  Analysts = {fundamental, technical}
  NoText = NoText
  MaxPieces = 1
  BtStocks <- MCStocks
  BarsHeld <- MCHeld
  Grid <- MCGrid
  Scores <- MCScores
  Fraction = 15
  NoScore = NoScore
  ReadLimit = 8
  MaxAttempts = 2
  MaxCombos = 2
  NumJobs = 2
  IndexMax = 1
  JobTries <- MCTries
  ResultsVanish = FALSE
  Callers = {k1, k2}
  CallTries = 2
  MaxCalls = 1
SPECIFICATION MCSpec
INVARIANTS ConfirmedIsWritten  ReportIsShown  SuccessIsOnRecord AnswersAreTrue
PROPERTIES WriteIsAuthorised RunsAreTold WhatIsAskedEnds
CHECK_DEADLOCK FALSE
