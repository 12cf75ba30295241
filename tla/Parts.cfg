\* Every part of the app's screens and two of the service's, one in each behaviour.
SPECIFICATION Spec
CONSTANTS
  None = None
  PageSize = 2
  MaxPosts = 3
  MaxAsks = 2
  FeedBudget = 2
  Own = {o1}
  Others = {t1}
  MaxReads = 2
  ThreadBudget = 3
  MaxPolls = 2
  ReactionTaps = 2
  OthersChanges = 1
  Hosts = {h1}
  MaxFace = 2
  BatchSize = 1
  MaxIdle = 0
  FaceChanges = 3
  Paths = {p1, p2, p3}
  ThumbnailLimit = 2
  MaxSaves = 2
  ThumbnailAsks = 3
  MaxEffects = 2
  FullTaps = 2
  MaxItems = 2
  Peers = {p1}
  Groups = {g1}
  ChatBudget = 2
  Members = {m1, m2}
  GroupBudget = 2
  Windows = {w1, w2}
  Drafts = {d1, d2}
  Legacy = {d2}
  DraftTaps = 2
  MaxWrites = 4
  JoinTaps = 2
  Owner = {r1, r2}
  Pollers = {p1, p2}
  Errands = {e1}
  MaxOwner = 3
  MaxHides = 2
  Objects = {i1, i2}
  Skew = 1
  InvitationLimit = 1
  MaxSent = 2
  MaxTime = 3
  MaxUnread = 1
  MaxVersion = 2
  BadgeBudget = 1
  h1 = h1
  w1 = w1
  p1 = p1
  q1 = q1
  q2 = q2
INVARIANTS TypeOK NewestWordStands ScreensAreCurrent NothingIsForgotten
PROPERTIES NothingSlipsAway GoesByChoice OwnerGoesFirst BoardSettles NobodyWaits
CHECK_DEADLOCK FALSE
