\* One message, two texts competing for its id, two requests at once; or a dialogue of three.
SPECIFICATION PairSpec
CONSTANTS
  a = a
  b = b
  m1 = m1
  m2 = m2
  m3 = m3
  t1 = t1
  r1 = r1
  Hosts = {a, b}
  Messages = {m1, m2, m3}
  Author <- AuthorBoth
  NoText = NoText
  Texts = {t1, t2}
  Requests = {r1, r2}
  MaxFaults = 2
INVARIANTS
  TypeOK
  DeliveredIsStored
  OneAttemptAtATime
  ConsentIsKept
PROPERTIES
  NothingIsUndone
  SavedIsDelivered
