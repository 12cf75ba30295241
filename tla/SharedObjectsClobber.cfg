\* The owner and a member write at the same time.
SPECIFICATION Spec
CONSTANTS
  a = a
  b = b
  e1 = e1
  e2 = e2
  Host = host
  Peers = {a}
  Edits = {e1, e2}
  By <- EditedByBoth
  Codes = {k1}
  Public = public
  Private = {p1}
  MaxVersion = 3
  MaxChanges = 1
  MaxFaults = 0
CHECK_DEADLOCK FALSE
INVARIANTS
  AcknowledgedIsKept
