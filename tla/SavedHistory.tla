--------------------------- MODULE SavedHistory ---------------------------
(* What the history of a conversation promises (docs/chat-foundation.md,     *)
(* "Direct and group messages"): messages are saved one at a time, and a page *)
(* put in front of a reader is the conversation as it is saved at that        *)
(* moment. There is no index, no version and no marker here: MessageHistory   *)
(* implements this module with them.                                          *)
EXTENDS Naturals

CONSTANTS Conversations, Messages

VARIABLES files, page

Empty == [m \in Messages |-> 0]

Init ==
  /\ files = [c \in Conversations |-> Empty]
  /\ page = [c \in Conversations |-> Empty]

\* A message is created or rewritten; the page is not touched.
Save(c, m) ==
  /\ files' = [files EXCEPT ![c][m] = @ + 1]
  /\ UNCHANGED page

\* The page becomes exactly what is saved.
Show(c) ==
  /\ page' = [page EXCEPT ![c] = files[c]]
  /\ UNCHANGED files

Next == \E c \in Conversations : Show(c) \/ \E m \in Messages : Save(c, m)

Spec == Init /\ [][Next]_<<files, page>>
============================================================================
