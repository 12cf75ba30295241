\* Two conversations of two messages that share the version counter and the covered run.
SPECIFICATION Spec
CONSTANTS
  Conversations = {c1, c2}
  Messages = {m1, m2}
  MaxVersion = 3
  MaxWrites = 1
INVARIANTS
  TypeOK
  SkipIsSound
  DifferencesAreExplained
PROPERTY
  ImplementsSavedHistory
