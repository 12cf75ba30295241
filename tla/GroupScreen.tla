---------------------------- MODULE GroupScreen ----------------------------
(* One group on screen: GroupThread.jsx with its invitation panel, GroupDetails.jsx     *)
(* with its two forms, and the reads of the group's record that the timeline makes       *)
(* with every refresh.                                                               *)
(*                                                                                *)
(* The record reaches the screen three ways: by the newest refresh, by the answer to an   *)
(* invitation the owner sends, and by the read that follows an acceptance.               *)
EXTENDS Integers

CONSTANTS Others, None, Budget  \* Budget: bound on changes, openings and faults

Record == [status : {"pending", "accepted", "declined"}, members : SUBSET Others, closed : BOOLEAN]
Read == [at : {"asked", "read"}, got : Record \union {None}]

GroupScreenAssumption == Budget \in Nat /\ None \notin Others /\ None \notin Read

VARIABLES
  mine,     \* the owner created the group
  group,    \* the record at the service
  due,      \* it changed, and no new version was announced yet
  behind,   \* a version was announced that the window has not heard of
  open,     \* the thread is on screen
  shown,    \* currentGroup
  refresh,  \* the newest refresh's read of the record, or None
  failed,   \* the newest refresh failed
  decision, \* decideInvitation under way
  sheet,    \* GroupDetails: its mode, whom it invites, and what was answered
  acked,    \* ghost: members the owner was told are invited, and still are
  older,    \* ghost: an answer older than the record was put on screen
  spent

service == <<mine, group, due>>
screen == <<open, shown, refresh, failed>>
vars == <<service, behind, screen, decision, sheet, acked, older, spent>>

Asked == [at |-> "asked", got |-> None]
Undecided == [act |-> "no", at |-> "idle", got |-> None]
NoSheet == [mode |-> "closed", at |-> "idle", who |-> None, got |-> None]

Init ==
  /\ mine \in BOOLEAN
  /\ \E ms \in SUBSET Others :
       group = [status |-> IF mine THEN "accepted" ELSE "pending", members |-> ms, closed |-> FALSE]
  /\ due = FALSE /\ behind = FALSE /\ open = FALSE /\ shown = group /\ refresh = None /\ failed = FALSE
  /\ decision = Undecided /\ sheet = NoSheet /\ acked = {} /\ older = FALSE /\ spent = 0

Spend == spent < Budget /\ spent' = spent + 1

---------------------------------------------------------------------------
(* The service: others join, refuse or are invited in another window, the creator       *)
(* closes the group, and the owner decides elsewhere.                                  *)
Change(g) == /\ group' = g /\ due' = (due \/ g # group) /\ acked' = acked \intersect g.members
Elsewhere ==
  /\ Spend
  /\ \/ \E ms \in SUBSET Others : Change([group EXCEPT !.members = ms])
     \/ ~group.closed /\ Change([group EXCEPT !.closed = TRUE])
     \/ group.status = "pending" /\ \E s \in {"accepted", "declined"} : Change([group EXCEPT !.status = s])
  /\ UNCHANGED <<mine, behind, screen, decision, sheet, older>>
Announce ==
  /\ due /\ due' = FALSE /\ behind' = TRUE
  /\ UNCHANGED <<mine, group, screen, decision, sheet, acked, older, spent>>

---------------------------------------------------------------------------
(* The thread opens with the record the list holds, which may be an older one, and        *)
(* useMessageTimeline refreshes at once.                                               *)
Open ==
  /\ ~open /\ open' = TRUE /\ Spend /\ shown' \in {shown, group} /\ refresh' = Asked /\ failed' = FALSE
  /\ older' = FALSE /\ acked' = {} /\ decision' = Undecided /\ sheet' = NoSheet
  /\ UNCHANGED <<service, behind>>
(* What a closed thread had asked for is answered to nobody.                            *)
Gone == open' = FALSE /\ refresh' = None /\ decision' = Undecided /\ sheet' = NoSheet
Leave ==
  /\ open /\ Gone /\ UNCHANGED <<service, behind, shown, failed, acked, older, spent>>

\* Mutant: a refresh under way is taken to cover the new version.
Begun_Joins == IF refresh = None THEN Asked ELSE refresh
(* refresh: the newest one replaces those under way.                                   *)
Begun == Asked
Notice ==
  /\ behind /\ behind' = FALSE
  /\ refresh' = IF open THEN Begun ELSE refresh
  /\ UNCHANGED <<service, open, shown, failed, decision, sheet, acked, older, spent>>
TryAgain ==
  /\ open /\ failed /\ refresh = None /\ refresh' = Begun
  /\ UNCHANGED <<service, behind, open, shown, failed, decision, sheet, acked, older, spent>>

(* refreshExtra reads the record; onRefreshed puts it on screen.                        *)
ReadRecord ==
  /\ refresh = Asked /\ refresh' = [at |-> "read", got |-> group]
  /\ UNCHANGED <<service, behind, open, shown, failed, decision, sheet, acked, older, spent>>
Refreshed ==
  /\ refresh # None /\ refresh' = None
  /\ \/ refresh.at = "read" /\ shown' = refresh.got /\ failed' = FALSE /\ older' = FALSE /\ UNCHANGED spent
     \/ failed' = TRUE /\ Spend /\ UNCHANGED <<shown, older>>
  /\ UNCHANGED <<service, behind, open, decision, sheet, acked>>

---------------------------------------------------------------------------
(* decideInvitation: a refusal closes the thread, an acceptance is read back.           *)
Decide(act) ==
  /\ open /\ shown.status = "pending" /\ decision = Undecided
  /\ decision' = [Undecided EXCEPT !.act = act, !.at = "asked"]
  /\ UNCHANGED <<service, behind, screen, sheet, acked, older, spent>>
Goes(s, act) == s = "pending" \/ s = act
DecisionServed ==
  /\ decision.at = "asked" /\ Goes(group.status, decision.act)
  /\ Change([group EXCEPT !.status = decision.act])
  /\ decision' = [decision EXCEPT !.at = "served"]
  /\ UNCHANGED <<mine, behind, screen, sheet, older, spent>>
DecisionFails ==
  /\ decision.at # "idle"
  /\ \/ decision.at = "asked" /\ ~Goes(group.status, decision.act) /\ UNCHANGED spent
     \/ Spend
  /\ decision' = Undecided /\ UNCHANGED <<service, behind, screen, sheet, acked, older>>
Declined ==
  /\ decision.at = "served" /\ decision.act = "declined" /\ Gone
  /\ UNCHANGED <<service, behind, shown, failed, acked, older, spent>>
ReadAccepted ==
  /\ decision.at = "served" /\ decision.act = "accepted"
  /\ decision' = [decision EXCEPT !.at = "read", !.got = group]
  /\ UNCHANGED <<service, behind, screen, sheet, acked, older, spent>>
Put(g) == shown' = g /\ older' = (g # group)
Accepted ==
  /\ decision.at = "read" /\ Put(decision.got) /\ decision' = Undecided
  /\ UNCHANGED <<service, behind, open, refresh, failed, sheet, acked, spent>>

---------------------------------------------------------------------------
(* GroupDetails: canManage, changeMode, invite and remove.                             *)
CanManage == mine /\ shown.status = "accepted" /\ ~shown.closed
Show(mode) ==
  /\ open /\ sheet.at \in {"idle", "partly"} /\ sheet.mode # "deleted"
  /\ mode \in {"invite", "delete"} => CanManage
  /\ sheet' = [NoSheet EXCEPT !.mode = mode]
  /\ UNCHANGED <<service, behind, screen, decision, acked, older, spent>>
Submit ==
  /\ open /\ sheet.at \in {"idle", "partly"}
  /\ \/ sheet.mode = "invite" /\ \E m \in Others : sheet' = [sheet EXCEPT !.at = "asked", !.who = m, !.got = shown]
     \/ sheet.mode \in {"delete", "deleted"} /\ sheet' = [sheet EXCEPT !.at = "asked"]
  /\ UNCHANGED <<service, behind, screen, decision, acked, older, spent>>

(* addGroupMember and deleteGroup: the service's answer has the roster it saved, and       *)
(* whom it could not reach.                                                          *)
Serve ==
  /\ sheet.at = "asked"
  /\ \/ /\ sheet.mode = "invite" /\ ~group.closed
        /\ Change([group EXCEPT !.members = @ \union {sheet.who}])
        /\ sheet' = [sheet EXCEPT !.at = "served", !.got.members = group.members \union {sheet.who}]
     \/ /\ sheet.mode # "invite" /\ Change([group EXCEPT !.closed = TRUE])
        /\ sheet' = [sheet EXCEPT !.at = "served"]
  /\ UNCHANGED <<mine, behind, screen, decision, older, spent>>
SubmitFails ==
  /\ sheet.at \in {"asked", "served"}
  /\ \/ sheet.at = "asked" /\ sheet.mode = "invite" /\ group.closed /\ UNCHANGED spent
     \/ Spend
  /\ sheet' = [sheet EXCEPT !.at = "idle", !.who = None, !.got = None]
  /\ UNCHANGED <<service, behind, screen, decision, acked, older>>

\* Mutant: the refresh under way is left to answer.
Cancelled_Kept == refresh
(* cancelRefresh: a record read before the invitation must not be shown after it.         *)
Cancelled == None
(* onUpdated. The notices the service could not deliver leave the form open.             *)
Invited ==
  /\ sheet.at = "served" /\ sheet.mode = "invite"
  /\ refresh' = Cancelled /\ Put(sheet.got) /\ acked' = acked \union ({sheet.who} \intersect group.members)
  /\ \E at \in {"idle", "partly"} : sheet' = [NoSheet EXCEPT !.mode = "invite", !.at = at]
  /\ UNCHANGED <<service, behind, open, failed, decision, spent>>
(* onDeleted, at once or when the owner gives up on the members not reached.             *)
Deleted ==
  /\ sheet.at = "served" /\ sheet.mode # "invite"
  /\ \/ Gone
     \/ sheet' = [NoSheet EXCEPT !.mode = "deleted", !.at = "partly"] /\ UNCHANGED <<open, refresh, decision>>
  /\ UNCHANGED <<service, behind, shown, failed, acked, older, spent>>
Close ==
  /\ open /\ sheet.mode # "closed" /\ sheet.at \in {"idle", "partly"}
  /\ \/ sheet.mode = "deleted" /\ Gone
     \/ sheet.mode # "deleted" /\ sheet' = NoSheet /\ UNCHANGED <<open, refresh, decision>>
  /\ UNCHANGED <<service, behind, shown, failed, acked, older, spent>>

---------------------------------------------------------------------------
Decides == (\E act \in {"accepted", "declined"} : Decide(act))
           \/ DecisionServed \/ DecisionFails \/ Declined \/ ReadAccepted \/ Accepted
Manages == (\E mode \in {"details", "invite", "delete"} : Show(mode))
           \/ Submit \/ Serve \/ SubmitFails \/ Invited \/ Deleted \/ Close
Next == Elsewhere \/ Announce \/ Open \/ Leave \/ Notice \/ TryAgain \/ ReadRecord \/ Refreshed \/ Decides \/ Manages
Spec == Init /\ [][Next]_vars

---------------------------------------------------------------------------
(* Only its creator's window manages a group, and nobody's manages one it was invited to.  *)
TypeOK ==
  /\ mine \in BOOLEAN /\ group \in Record /\ shown \in Record /\ {due, behind, open, failed, older} \subseteq BOOLEAN
  /\ refresh \in Read \union {None}
  /\ decision.at \in {"idle", "asked", "served", "read"} /\ sheet.at \in {"idle", "asked", "served", "partly"}
  /\ acked \subseteq Others /\ spent \in 0..Budget
  /\ sheet.mode \in {"invite", "delete", "deleted"} => mine /\ decision = Undecided

(* A member the owner was told is invited is not taken off the screen by a refresh that    *)
(* read the roster before.                                                            *)
InvitedIsShown == open => acked \subseteq shown.members

(* When nothing is under way, the group on screen is the service's, unless an answer to    *)
(* the owner's own request was the older of the two to be read and came last.             *)
ShownIsCurrent ==
  open /\ refresh = None /\ ~failed /\ ~due /\ ~behind /\ ~older => shown = group
=============================================================================
