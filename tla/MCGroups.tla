----------------------------- MODULE MCGroups -----------------------------
(* Groups with members a and b.                                                *)
EXTENDS Groups

CONSTANTS a, b, x1, x2

\* Both messages are a member's own.
AuthorMember == [x \in Messages |-> a]
\* The host writes one, a member the other.
AuthorMixed == [x \in Messages |-> IF x = x1 THEN Host ELSE a]
============================================================================
