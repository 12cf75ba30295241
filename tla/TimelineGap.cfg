SPECIFICATION Spec
CONSTANTS
  Own = {}
  Words = {}
  None = None
  PageSize = 2
  MaxAsks = 1
  Budget = 4
INVARIANTS NoHiddenGap
