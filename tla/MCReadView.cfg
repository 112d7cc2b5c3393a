SPECIFICATION MCSpec
CONSTANTS
  Reads = {r1, r2, r3}
  Files = {f1}
  MaxRead = 3
  MaxSlots = 2
  MaxSize = 2
  MaxEdits = 1
  top = top
  inner = inner
  dir = dir
  Paths = {top, inner}
  Above <- MCAbove
  MaxOverlay = 3
  MaxEntries = 2
  MaxFile = 2
  MaxChanges = 2
SYMMETRY MCSymmetry
INVARIANTS
  BudgetIsAccounted
  ContentIsWhole
  ResourcesAreReturned
  BooksAgree
  MemoryIsCharged
PROPERTIES
  RefusalReachesVerdict
CHECK_DEADLOCK FALSE
