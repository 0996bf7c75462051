SPECIFICATION FairSpec
CONSTANTS
  Keys = {k1, k2}
  Requests = {r1, r2}
  TTL <- MCTTL
  SweepInterval = 2
  MaxTime = 3
INVARIANTS TypeOK AnswersAreFresh SweptClean
PROPERTIES KeepsBudget EveryRequestReturns
