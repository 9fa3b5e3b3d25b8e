SPECIFICATION CSpec
CONSTANTS
  MaxSteps = 2
  MaxRetries = 1
  MaxOverflows = 1
  MaxFailures = 1
  MaxTurns = 2
  MaxTail = 2
  MaxMessages = 2
  MaxCompacts = 1
  MaxReopens = 1
INVARIANTS AnswersWhatItSaw RequestsAreWhole HistoryIsKept
PROPERTY TurnsEnd
CHECK_DEADLOCK FALSE
