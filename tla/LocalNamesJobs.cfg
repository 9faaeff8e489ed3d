SPECIFICATION FairSpec
CONSTANTS
  q1 = q1  q2 = q2  q3 = q3  q4 = q4
  nas = nas  box = box  wifi = wifi
  NoInterface = NoInterface
  Queries <- FourQueries
  Question <- Asks
  Networks <- OneNetwork
  LOCAL_PENDING = 1
  LOCAL_JOBS_PER_LOOKUP = 2
  MayStop = TRUE
  MaxBatch = 2
  MaxGeneration = 1
INVARIANTS EachQueryOnce KeptArrivedHere
PROPERTIES QueriesAnswered
\* Once every query is answered nothing need happen.
CHECK_DEADLOCK FALSE
