\* A post and two replies, four requests that may come late, twice or never.
SPECIFICATION Spec
CONSTANTS
  alice = alice
  bob = bob
  p1 = p1
  r1 = r1
  r2 = r2
  Members = {alice, bob}
  Posts = {p1}
  Replies = {r1, r2}
  On <- OnThePost
  Ids <- OwnIds
  Texts = {t1, t2}
  NoText = NoText
  NoItem = NoItem
  ReplyLimit = 1
  MaxSends = 4
SYMMETRY Symmetry
INVARIANTS
  TypeOK
  ConfirmedIsStored
  LateRequestsUndoNothing
PROPERTIES
  DraftsAreNotLost
