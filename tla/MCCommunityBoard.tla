------------------------- MODULE MCCommunityBoard -------------------------
(* One author's post and the replies of another member. *)
EXTENDS CommunityBoard, TLC

CONSTANTS alice, bob, p1, r1, r2

OnThePost == [r \in Replies |-> p1]
OwnIds == [m \in Members |-> IF m = alice THEN Posts ELSE Replies]
Symmetry == Permutations(Texts) \cup Permutations(Replies)
===========================================================================
