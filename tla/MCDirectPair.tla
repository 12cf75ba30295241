----------------------------- MODULE MCDirectPair -----------------------------
(* Two scenarios of DirectMessages, of which a behaviour plays one: one message that *)
(* two requests compete for, and messages in both directions, one request at a time. *)
EXTENDS MCDirectMessages

CONSTANTS m2, m3, t1, r1

AuthorBoth == [m \in Messages |-> IF m = m3 THEN b ELSE a]

VARIABLE scenario

Contest == \A r \in Requests : request'[r].step # "idle" => request'[r].msg = m1
Dialogue ==
  /\ \A r \in Requests :
       request'[r].step # "idle" => r = r1 /\ request'[r].text \in {t1, NoText}
  /\ faults' <= 1

PairInit == scenario \in {"contest", "dialogue"} /\ Init
PairNext ==
  /\ Next
  /\ \/ scenario = "contest" /\ Contest
     \/ scenario = "dialogue" /\ Dialogue
  /\ UNCHANGED scenario
PairSpec == PairInit /\ [][PairNext]_<<scenario, vars>> /\ Fairness
============================================================================
