------------------------- MODULE MCDirectMessages -------------------------
(* DirectMessages between hosts a and b.                                       *)
EXTENDS DirectMessages

CONSTANTS a, b, m1

\* Everything is written by a.
AuthorA == [m \in Messages |-> a]
============================================================================
