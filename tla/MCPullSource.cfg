SPECIFICATION Spec
CONSTANTS
  Order <- MCOrder
  Name = "s-"
  Uncanonical = {"CON"}
  MaxEntries = 3
  MaxFile = 2
  MaxTotal = 3
  Inodes = {1, 2, 3, 4, 5}
  Units = {"x", "y"}
  MaxFileUnits = 1
  Trees <- AllTrees
  None = None
INVARIANTS
  VerifiedIsSnapshot
  RestingTreeIsPulled
  PlanIsAccepted
  HandlesAreClosed
PROPERTIES
  ImplementsSnapshot
CHECK_DEADLOCK FALSE
