----------------------------- MODULE MCGroupsPair -----------------------------
(* Two instances of Groups, of which a behaviour runs one: a member invited twice      *)
(* whose owner has two requests under way, and one whose owner keeps trying.           *)
EXTENDS MCGroups

CONSTANTS r1

VARIABLES which, group2, roster2, posts2, meta2, copy2, request2, wire2, faults2,
          consented2, audience2, stale2
vars2 == <<group2, roster2, posts2, meta2, copy2, request2, wire2, faults2,
           consented2, audience2, stale2>>
Persistent == INSTANCE Groups WITH
  Messages <- {x1}, Author <- [x \in {x1} |-> a], Requests <- {r1},
  group <- group2, roster <- roster2, posts <- posts2, meta <- meta2, copy <- copy2,
  request <- request2, wire <- wire2, faults <- faults2,
  consented <- consented2, audience <- audience2, stale <- stale2

PairInit == which \in {"member", "persistent"} /\ Init /\ Persistent!Init
PairNext ==
  \/ which = "member" /\ Next /\ UNCHANGED <<which, vars2>>
  \/ which = "persistent" /\ Persistent!Next /\ UNCHANGED <<which, vars>>
PairSpec == PairInit /\ [][PairNext]_<<which, vars, vars2>> /\ Persistent!Fairness

(* An owner who keeps accepting joins and one who keeps retrying posts, unless the group is   *)
(* closed: no lost answer or replaced invitation is in the way (accept_group_invitation).   *)
TryingHelps == Persistent!AcceptanceSettles /\ Persistent!FailedIsDelivered
============================================================================
