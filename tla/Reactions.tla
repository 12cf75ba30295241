------------------------------ MODULE Reactions ------------------------------
(* The owner's reaction to one post or reply: useBoardReactions of                *)
(* ui/ReactionControls.jsx over the counts of reconciliation.js.                   *)
(*                                                                                *)
(* A tap is shown at once in place of the row that polls keep bringing, then the    *)
(* host's answer is, and only a refresh of the tap's own makes way for the row       *)
(* again. The host toggles: it does not know which state the owner saw.             *)
EXTENDS Integers, Sequences, FiniteSets, Lists

CONSTANTS
  None,
  MaxPolls,  \* bound on the polls under way
  Taps,      \* bound on the taps
  Changes    \* bound on what others do

ReactionsAssumption ==
  {MaxPolls, Taps, Changes} \subseteq Nat /\ None \notin [mine : BOOLEAN, count : Nat]

VARIABLES
  mine, others,  \* at the host
  row,           \* the reactions in the feed or in the open thread
  over,          \* overrides[key]
  tap,           \* inFlight, and what it is waiting for
  polls,         \* the pages that are on their way
  taps, changes,
  stuck          \* history: a tap or its refresh failed, and none has succeeded since

vars == <<mine, others, row, over, tap, polls, taps, changes, stuck>>

Reaction(m, n) == [mine |-> m, count |-> n]
AtHost == Reaction(mine, others + (IF mine THEN 1 ELSE 0))
NoTap == [is |-> "none", before |-> Reaction(FALSE, 0), answer |-> Reaction(FALSE, 0), agreed |-> FALSE]

Init ==
  /\ mine \in BOOLEAN /\ others \in 0..1 /\ row = AtHost /\ over = None
  /\ tap = NoTap /\ polls = <<>> /\ taps = 0 /\ changes = 0 /\ stuck = FALSE

---------------------------------------------------------------------------
(* reactionState *)
Shown == IF over # None THEN over ELSE row

(* optimisticReactionChange *)
Toggled(r) == Reaction(~r.mine, IF ~r.mine THEN r.count + 1 ELSE IF r.count > 0 THEN r.count - 1 ELSE 0)

(* toggle: one at a time for each target.                                           *)
Tap ==
  /\ tap.is = "none" /\ taps < Taps /\ taps' = taps + 1
  /\ tap' = [NoTap EXCEPT !.is = "sent", !.before = Shown, !.agreed = Shown.mine = mine]
  /\ over' = Toggled(Shown)
  /\ UNCHANGED <<mine, others, row, polls, changes, stuck>>

(* The host: toggle_reaction, and what the others do.                               *)
Store ==
  /\ tap.is = "sent" /\ mine' = ~mine
  /\ UNCHANGED <<others, row, over, polls, taps, changes, stuck>>
  /\ tap' = [tap EXCEPT !.is = "stored", !.answer = AtHost']
Other(n) ==
  /\ changes < Changes /\ changes' = changes + 1 /\ n # others /\ others' = n
  /\ UNCHANGED <<mine, row, over, tap, polls, taps, stuck>>

(* reactToPost throws, the reaction stored or not.                                  *)
TapFails ==
  /\ tap.is \in {"sent", "stored"} /\ tap' = NoTap
  /\ over' = tap.before /\ stuck' = TRUE
  /\ UNCHANGED <<mine, others, row, polls, taps, changes>>

TapAnswered ==
  /\ tap.is = "stored" /\ tap' = [tap EXCEPT !.is = "confirmed"]
  /\ over' = tap.answer
  /\ UNCHANGED <<mine, others, row, polls, taps, changes, stuck>>

(* refreshTarget: read anew, after the write.                                       *)
Refreshes ==
  /\ tap.is = "confirmed" /\ tap' = [tap EXCEPT !.is = "read", !.answer = AtHost]
  /\ UNCHANGED <<mine, others, row, over, polls, taps, changes, stuck>>

\* Mutant: the confirmed reaction stays in place of the refreshed row.
MakesWay_Never(refreshed) == FALSE

MakesWay(refreshed) == refreshed
Refreshed(ok) ==
  /\ tap.is = "read" \/ (tap.is = "confirmed" /\ ~ok)
  /\ row' = IF ok THEN tap.answer ELSE row
  /\ over' = IF MakesWay(ok) THEN None ELSE over
  /\ tap' = NoTap /\ stuck' = ~ok
  /\ UNCHANGED <<mine, others, polls, taps, changes>>

---------------------------------------------------------------------------
\* Mutant: a poll erases a tap that is under way.
Erases_All(r) == None

(* acceptFeed, loadReplies: the override is left alone.                              *)
Erases(r) == over
Poll ==
  /\ Len(polls) < MaxPolls /\ polls' = Append(polls, AtHost)
  /\ UNCHANGED <<mine, others, row, over, tap, taps, changes, stuck>>
Polled(k) ==
  /\ row' = polls[k] /\ over' = Erases(polls[k]) /\ polls' = RemoveAt(polls, k)
  /\ UNCHANGED <<mine, others, tap, taps, changes, stuck>>
PollFails(k) ==
  /\ polls' = RemoveAt(polls, k)
  /\ UNCHANGED <<mine, others, row, over, tap, taps, changes, stuck>>

Next ==
  \/ Tap \/ Store \/ TapFails \/ TapAnswered \/ Refreshes \/ Poll
  \/ \E ok \in BOOLEAN : Refreshed(ok)
  \/ \E n \in 0..2 : Other(n)
  \/ \E k \in DOMAIN polls : Polled(k) \/ PollFails(k)

(* A request ends, the board on screen is polled, and not every poll fails.          *)
Ends == TapFails \/ TapAnswered \/ Refreshes \/ \E ok \in BOOLEAN : Refreshed(ok)
Arrives == \E k \in DOMAIN polls : Polled(k)
Fairness ==
  /\ WF_vars(Ends) /\ WF_vars(Poll) /\ SF_vars(Arrives)
Spec == Init /\ [][Next]_vars /\ Fairness

---------------------------------------------------------------------------
TypeOK ==
  /\ row.count \in 0..3 /\ (over # None => over.count \in 0..3)
  /\ tap.is \in {"none", "sent", "stored", "confirmed", "read"}
  /\ Len(polls) <= MaxPolls /\ taps \in 0..Taps /\ changes \in 0..Changes

(* useBoardReactions: "Polling can keep running without erasing an in-flight tap". A   *)
(* tap made on the state that the host had is what the owner sees until the tap and its *)
(* refresh have ended. A poll from before the tap may bring the old row back after that. *)
TapStands ==
  tap.is # "none" /\ tap.agreed => Shown.mine = ~tap.before.mine

(* What is shown settles on what the host has, once taps and their refreshes go well.    *)
(* After a refresh that fails the override stays, although ReactionControls.jsx:42 says    *)
(* "next poll reconciles": no poll takes it away (see Erases, MakesWay).                   *)
Agrees == Shown = AtHost
SettlesUnlessStuck == <>[]~stuck => <>[]Agrees
=============================================================================
