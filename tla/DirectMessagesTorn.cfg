\* The process that stores a message dies before it writes the conversation.
SPECIFICATION Spec
CONSTANTS
  a = a
  b = b
  m1 = m1
  Hosts = {a, b}
  Messages = {m1}
  Author <- AuthorA
  Texts = {t1}
  NoText = NoText
  Requests = {r1}
  MaxFaults = 1
INVARIANTS
  DeliveredIsListed
