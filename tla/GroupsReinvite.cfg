\* The notice of a refusal is lost and the host keeps inviting.
SPECIFICATION FairSpec
CONSTANTS
  a = a
  b = b
  x1 = x1
  x2 = x2
  Host = host
  None = None
  Members = {a}
  Messages = {x1}
  Author <- AuthorMember
  Requests = {r1}
  MaxInvites = 2
  MaxFaults = 1
PROPERTIES
  DeclinedCanBeInvited
