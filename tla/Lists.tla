-------------------------------- MODULE Lists --------------------------------
(* The operators on sequences that the parts of the app's screens need. They mean what    *)
(* those of SequencesExt with these names do; an instance of all of that module in each   *)
(* part would put its definitions, five times over, before every obligation of the proofs. *)
EXTENDS Naturals, Sequences, FiniteSets, Functions

ToSet(s) == {s[k] : k \in DOMAIN s}

(* Without the element at k; without e, which is in the sequence once at most.            *)
RemoveAt(s, k) == SubSeq(s, 1, k - 1) \o SubSeq(s, k + 1, Len(s))
RemoveFirst(s, e) ==
  IF e \in ToSet(s) THEN RemoveAt(s, CHOOSE k \in DOMAIN s : s[k] = e) ELSE s

(* The elements of a set, in every order.                                                 *)
SetToSeqs(S) == {s \in [1..Cardinality(S) -> S] : IsInjective(s)}
=============================================================================
