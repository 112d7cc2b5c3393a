SPECIFICATION Spec
CONSTANTS
  c1 = c1
  c2 = c2
  Clients <- TwoClients
  Operations <- Both
  Workers = 2
  MaxAttempts = 1
  RequestWindow = 1
  ResponseWindow = 2
  Outputs <- OneOutput
CHECK_DEADLOCK FALSE
SYMMETRY Symmetry
INVARIANTS
  OneBanner
  RejectionIsHeard
