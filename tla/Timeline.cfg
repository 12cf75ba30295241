SPECIFICATION Spec
CONSTANTS
  Own = {o1}
  Words = {w1}
  None = None
  PageSize = 2
  MaxAsks = 2
  Budget = 4
INVARIANTS TypeOK NoGapUnlessUnproved QuietIsCurrent ComposerIsExact
PROPERTY DeliveredStands
