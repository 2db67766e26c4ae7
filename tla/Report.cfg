SPECIFICATION FairSpec
CONSTANTS
  Requests = {q1, q2}
  MaxReports = 2
  MaxStamps = 3
INVARIANTS PointerIsNewest OneLiveReport LowScoreIsRejected
PROPERTIES StatusMovesOn RequestsEnd
