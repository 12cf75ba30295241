-------------------------- MODULE MCSharedObjects --------------------------
(* SharedObjects with an edit of the host's own app and one of peer a.          *)
EXTENDS SharedObjects

CONSTANTS a, b, e1, e2

EditedByBoth == [e \in Edits |-> IF e = e1 THEN Host ELSE a]
============================================================================
