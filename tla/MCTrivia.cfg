CONSTANTS
  s1 = s1
  s2 = s2
  s3 = s3
  Session = {s1, s2, s3}
  Nobody = Nobody
  Accounts <- MCAccounts
  TotalRounds = 2
  MaxPlayers = 2
  MaxSpectators = 1
  MaxRestarts = 1
SPECIFICATION TriviaSpec
INVARIANTS TriviaTypeOK PhaseHasWayOut AnswersBalance OneScorePerRound PlayersInOrder
PROPERTIES FinishedIsFinal GameEnds
CHECK_DEADLOCK FALSE
