\* The owner and a member edit, one joins by code or invitation, leaves and is revoked.
SPECIFICATION Spec
CONSTANTS
  a = a
  b = b
  e1 = e1
  e2 = e2
  Host = host
  Peers = {a}
  Edits = {e1, e2}
  By <- EditedByBoth
  Codes = {k1}
  Public = public
  Private = {p1}
  MaxVersion = 3
  MaxChanges = 3
  MaxFaults = 1
CHECK_DEADLOCK FALSE
INVARIANTS
  TypeOK
  SoundUnlessOverlapped
PROPERTIES
  OnlyEditorsWrite
