SPECIFICATION InTurnSpec
CONSTANTS
  q1 = q1  q2 = q2  r1 = r1 
  NoConn = NoConn  NoTask = NoTask
  Queries <- TwoQueries
  Resetters <- OneResetter
  DOWN_FOR = 1
  MaxResets = 1
  MaxClock = 1
INVARIANTS ResetsHold
PROPERTIES QueriesEnd
\* Queries that have ended stay ended.
CHECK_DEADLOCK FALSE
