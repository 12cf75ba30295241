\* One member invited twice, two requests of its owner at once; and one that keeps trying.
SPECIFICATION PairSpec
CONSTANTS
  a = a
  b = b
  x1 = x1
  x2 = x2
  r1 = r1
  Host = host
  None = None
  Members = {a}
  Messages = {x1, x2}
  Author <- AuthorMixed
  Requests = {r1, r2}
  MaxInvites = 2
  MaxFaults = 2
INVARIANTS
  TypeOK
  MembershipIsMutual
  PostsReachMembers
PROPERTIES
  NothingIsUndone
  TryingHelps
