SPECIFICATION FairSpec
CONSTANTS
  c1 = c1
  c2 = c2
  Clients <- OneClient
  Operations <- Both
  Workers = 1
  MaxAttempts = 2
  RequestWindow = 1
  ResponseWindow = 2
  Outputs <- MCOutputs
CHECK_DEADLOCK FALSE
INVARIANTS
  ExecutedAtMostOnce
  SuccessIsComplete
PROPERTIES
  SessionsEnd
