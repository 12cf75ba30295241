--------------------------- MODULE Conversations ---------------------------
(* The list of conversations and the thread on screen: loadConversations, the version   *)
(* poll, notification taps and navigation of index.jsx, Thread.jsx, and the group       *)
(* sheet of Messages.jsx.                                                             *)
(*                                                                                *)
(* The service changes a conversation's record first and its change counter after. The   *)
(* window polls the counter, lists the directories, and then reads each record on its     *)
(* own: other changes come in between. Answers of loads a newer one replaced are          *)
(* dropped, so a load replaced is a load forgotten.                                    *)
EXTENDS Integers, FiniteSets

CONSTANTS Peers, Groups, None, Budget  \* Budget: bound on arrivals, taps and faults

Convs == Peers \union Groups
Absent == [status |-> "none", unread |-> FALSE]
Record == [status : {"none", "pending", "accepted", "declined"}, unread : BOOLEAN]
Thread == [conv : Convs, asks : BOOLEAN]
Load == [listed : BOOLEAN, todo : SUBSET Convs, got : [Convs -> Record], old : BOOLEAN]

ConversationsAssumption ==
  Budget \in Nat /\ Peers \intersect Groups = {} /\ None \notin Convs /\ None \notin Thread /\ None \notin Load

VARIABLES
  rec,       \* at the service: each conversation's status and whether it is unread
  due,       \* a record changed, the change counter not yet
  behind,    \* the counter moved since the window last read it
  access,    \* hasPrivateAccess
  list,      \* conversations and groups
  state,     \* messagesState
  load,      \* the load conversationLoad counts as the latest, or None
  thread,    \* the thread on screen, or None; asks: it shows the request panel
  foreground,
  clears,    \* read receipts under way
  decisions, \* per conversation: an answer to its request under way
  tap,       \* the conversation of a tapped notification being read, or None
  making,    \* the group sheet
  stale,     \* ghost: the list holds a record the device answered for
  lost,      \* ghost: conversations whose last read receipt failed
  spent

service == <<rec, due>>
screen == <<access, list, state, load, thread, foreground, stale>>
asked == <<clears, decisions, tap, making, lost>>
vars == <<service, behind, screen, asked, spent>>

Fresh == [listed |-> FALSE, todo |-> {}, got |-> [c \in Convs |-> Absent], old |-> FALSE]
Undecided == [act |-> "no", at |-> "idle", mounted |-> FALSE]

Init ==
  /\ rec \in [Convs -> {Absent, [Absent EXCEPT !.status = "accepted"]}] /\ due = FALSE
  /\ behind = FALSE /\ access = TRUE /\ list = [c \in Convs |-> Absent] /\ state = "loading"
  /\ load = Fresh /\ thread = None /\ foreground = TRUE
  /\ clears = {} /\ decisions = [c \in Convs |-> Undecided] /\ tap = None /\ making = "closed"
  /\ stale = FALSE /\ lost = {} /\ spent = 0

Spend == spent < Budget /\ spent' = spent + 1

---------------------------------------------------------------------------
(* The service: what peers send, and the counter that follows each change.             *)
Incoming(r) == IF r.status = "none" THEN [r EXCEPT !.status = "pending"]
               ELSE IF r.status = "accepted" THEN [r EXCEPT !.unread = TRUE] ELSE r
Write(c, r) == rec' = [rec EXCEPT ![c] = r] /\ due' = (due \/ r # rec[c])
Arrive(c) ==
  /\ Spend /\ Write(c, Incoming(rec[c])) /\ UNCHANGED <<behind, screen, asked>>
Bump ==
  /\ due /\ due' = FALSE /\ behind' = TRUE /\ UNCHANGED <<rec, screen, asked, spent>>

---------------------------------------------------------------------------
(* Effects of what is on screen.                                                    *)
On(c) == thread # None /\ thread.conv = c
Reads(th, front) == IF th # None /\ front /\ ~th.asks THEN {th.conv} ELSE {}
(* Changing the thread unmounts the old one; the new one sends its read receipt.        *)
Display(th) ==
  /\ thread' = th
  /\ clears' = clears \union Reads(th, foreground) /\ lost' = lost \ Reads(th, foreground)
Unmounted == [c \in Convs |-> [decisions[c] EXCEPT !.mounted = FALSE]]

(* loadConversations *)
Reload == load' = Fresh

\* Mutant: a load under way is taken to cover the change.
Heard_Joins == load' = (IF load = None THEN Fresh ELSE load)
(* The list is loaded again for every new version.                                   *)
Heard == Reload

\* Mutant: the read receipt does not follow the version.
Receipts_Once == {}
(* Thread.jsx and GroupThread.jsx send a read receipt for every new version.            *)
Receipts == Reads(thread, foreground)

(* subscribe and pollWhileVisible: a new version reloads the list.                      *)
Notice ==
  /\ behind /\ foreground /\ behind' = FALSE
  /\ IF access THEN Heard ELSE UNCHANGED load
  /\ clears' = clears \union Receipts /\ lost' = lost \ Receipts
  /\ UNCHANGED <<service, access, list, state, thread, foreground, stale, decisions, tap, making, spent>>

(* The frame-visibility message.                                                    *)
Foreground ==
  /\ Spend /\ foreground' = ~foreground
  /\ clears' = clears \union Reads(thread, ~foreground) /\ lost' = lost \ Reads(thread, ~foreground)
  /\ UNCHANGED <<service, behind, access, list, state, load, thread, stale, decisions, tap, making>>

(* The effect of hasPrivateAccess: lost access empties the lists.                       *)
AccessChanges ==
  /\ Spend /\ access' = ~access
  /\ \/ ~access /\ Reload /\ UNCHANGED <<list, state, thread, decisions, stale>>
     \/ /\ access /\ load' = None /\ list' = [c \in Convs |-> Absent] /\ state' = "loading"
        /\ thread' = None /\ decisions' = Unmounted /\ stale' = FALSE
  /\ UNCHANGED <<service, behind, foreground, clears, tap, making, lost>>

---------------------------------------------------------------------------
(* listMetadata: the directories, then every record, from the service or, when it does   *)
(* not answer, from the device, which holds what was last shown.                       *)
ListAll ==
  /\ load # None /\ ~load.listed
  /\ load' = [load EXCEPT !.listed = TRUE, !.todo = {c \in Convs : rec[c] # Absent}]
  /\ UNCHANGED <<service, behind, access, list, state, thread, foreground, stale, asked, spent>>
Read(c) ==
  /\ load # None /\ c \in load.todo
  /\ \/ load' = [load EXCEPT !.todo = @ \ {c}, !.got[c] = rec[c]] /\ UNCHANGED spent
     \/ Spend /\ load' = [load EXCEPT !.todo = @ \ {c}, !.got[c] = list[c], !.old = TRUE]
  /\ UNCHANGED <<service, behind, access, list, state, thread, foreground, stale, asked>>
Loaded ==
  /\ load # None /\ load.listed /\ load.todo = {}
  /\ list' = load.got /\ state' = "ready" /\ stale' = load.old /\ load' = None
  /\ UNCHANGED <<service, behind, access, thread, foreground, asked, spent>>
LoadFails ==
  /\ load # None /\ ~load.listed /\ Spend /\ state' = "error" /\ load' = None
  /\ UNCHANGED <<service, behind, access, list, thread, foreground, stale, asked>>
RetryLoad ==
  /\ state = "error" /\ access /\ thread = None /\ load = None /\ Spend /\ Reload
  /\ UNCHANGED <<service, behind, access, list, state, thread, foreground, stale, asked>>

---------------------------------------------------------------------------
(* openAnyThread from a row, from People or a post, or from a tapped notification.      *)
OpenRow(c) ==
  /\ access /\ thread = None /\ Spend /\ list[c].status \in {"accepted", "pending"}
  /\ Display([conv |-> c, asks |-> list[c].status = "pending"])
  /\ UNCHANGED <<service, behind, access, list, state, load, foreground, stale, decisions, tap, making>>
OpenPerson(p) ==
  /\ access /\ thread = None /\ Spend /\ Display([conv |-> p, asks |-> FALSE])
  /\ UNCHANGED <<service, behind, access, list, state, load, foreground, stale, decisions, tap, making>>
(* A thread that is on screen already stays the one it is (its key in index.jsx).         *)
Shows(th) == IF On(th.conv) THEN UNCHANGED <<thread, clears, lost, decisions>>
             ELSE Display(th) /\ decisions' = Unmounted
(* The newest tap is followed here; an older one still under way would open as well.     *)
Tap(c) ==
  /\ access /\ Spend /\ tap' = c
  /\ UNCHANGED <<service, behind, screen, clears, decisions, making, lost>>
TapOpens ==
  /\ tap # None /\ tap' = None
  /\ \/ /\ tap \in Groups => rec[tap] # Absent
        /\ Shows([conv |-> tap, asks |-> rec[tap].status = "pending"])
     \/ UNCHANGED <<thread, clears, lost, decisions>>      \* no answer
  /\ UNCHANGED <<service, behind, access, list, state, load, foreground, stale, making, spent>>
(* closeThread *)
Leave == thread' = None /\ decisions' = Unmounted /\ Reload
Back ==
  /\ thread # None /\ Leave
  /\ UNCHANGED <<service, behind, access, list, state, foreground, stale, clears, tap, making, lost, spent>>
(* The first message the owner sends establishes the conversation.                     *)
FirstSend(p) ==
  /\ On(p) /\ ~thread.asks /\ rec[p] = Absent /\ Write(p, [Absent EXCEPT !.status = "accepted"])
  /\ UNCHANGED <<behind, screen, asked, spent>>

(* clearUnread and clearGroupUnread: the service's answer, or none.                     *)
Cleared(c) ==
  /\ c \in clears /\ clears' = clears \ {c} /\ Write(c, [rec[c] EXCEPT !.unread = FALSE])
  /\ UNCHANGED <<behind, screen, decisions, tap, making, lost, spent>>
ClearFails(c) ==
  /\ c \in clears /\ Spend /\ clears' = clears \ {c} /\ lost' = lost \union {c}
  /\ UNCHANGED <<service, behind, screen, decisions, tap, making>>

---------------------------------------------------------------------------
(* decideRequest: the service answers, and the answer closes a refused thread.           *)
Decide(c, act) ==
  /\ On(c) /\ access /\ thread.asks /\ decisions[c] = Undecided
  /\ decisions' = [decisions EXCEPT ![c] = [act |-> act, at |-> "asked", mounted |-> TRUE]]
  /\ UNCHANGED <<service, behind, screen, clears, tap, making, lost, spent>>
Allowed(r, act) == r.status = "pending" \/ (r.status = "accepted" /\ act = "accepted")
DecisionServed(c) ==
  LET d == decisions[c]
      Ends(at) == decisions' = [decisions EXCEPT ![c].at = at] IN
  /\ d.at = "asked"
  /\ \/ /\ Allowed(rec[c], d.act) /\ Write(c, [status |-> d.act, unread |-> FALSE])
        /\ (Ends("done") /\ UNCHANGED spent) \/ (Ends("failed") /\ Spend)
     \/ ~Allowed(rec[c], d.act) /\ Ends("failed") /\ UNCHANGED <<service, spent>>
     \/ Ends("failed") /\ Spend /\ UNCHANGED service
  /\ UNCHANGED <<behind, screen, clears, tap, making, lost>>
(* A declined request closes whichever thread is open by then.                          *)
Decided(c) ==
  LET d == decisions[c] IN
  /\ \/ /\ d.at = "done" /\ d.act = "accepted"
        /\ decisions' = [decisions EXCEPT ![c] = Undecided] /\ UNCHANGED load
        /\ \/ d.mounted /\ Display([conv |-> c, asks |-> FALSE])
           \/ ~d.mounted /\ UNCHANGED <<thread, clears, lost>>
     \/ /\ d.at = "done" /\ d.act = "declined"
        /\ thread' = None /\ Reload /\ decisions' = [Unmounted EXCEPT ![c] = Undecided]
        /\ UNCHANGED <<clears, lost>>
     \/ /\ d.at = "failed" /\ decisions' = [decisions EXCEPT ![c] = Undecided]
        /\ UNCHANGED <<load, thread, clears, lost>>
  /\ UNCHANGED <<service, behind, access, list, state, foreground, stale, tap, making, spent>>

---------------------------------------------------------------------------
(* NewGroupSheet.create and openCreatedGroup.                                         *)
Create ==
  /\ making = "closed" /\ access /\ thread = None /\ Spend
  /\ \E g \in Groups : rec[g] = Absent /\ making' = "creating"
  /\ UNCHANGED <<service, behind, screen, clears, decisions, tap, lost>>
CreateServed(g) ==
  /\ making = "creating" /\ rec[g] = Absent
  /\ \/ Write(g, [Absent EXCEPT !.status = "accepted"])
        /\ making' \in {"opening", "closed"}      \* closed: the answer is lost
     \/ making' = "closed" /\ UNCHANGED service
  /\ UNCHANGED <<behind, screen, clears, decisions, tap, lost, spent>>
OpenCreated(g) ==
  /\ making \in {"opening", "reopening"} /\ rec[g].status = "accepted"
  /\ \/ /\ making' = "closed" /\ load' = None /\ list' = [list EXCEPT ![g] = rec[g]]
        /\ Shows([conv |-> g, asks |-> FALSE])
     \/ making' = "created" /\ UNCHANGED <<load, list, thread, clears, lost, decisions>>
  /\ UNCHANGED <<service, behind, access, state, foreground, stale, tap, spent>>
OpenAgain ==
  /\ making = "created" /\ access /\ thread = None /\ making' \in {"reopening", "closed"}
  /\ UNCHANGED <<service, behind, screen, clears, decisions, tap, lost, spent>>

---------------------------------------------------------------------------
Loads == Notice \/ ListAll \/ Loaded \/ LoadFails \/ RetryLoad \/ \E c \in Convs : Read(c)
Opens == (\E c \in Convs : OpenRow(c) \/ Tap(c)) \/ (\E p \in Peers : OpenPerson(p) \/ FirstSend(p))
         \/ TapOpens \/ Back \/ Foreground \/ AccessChanges
Decides == \E c \in Convs : (\E act \in {"accepted", "declined"} : Decide(c, act)) \/ DecisionServed(c) \/ Decided(c)
Makes == Create \/ OpenAgain \/ \E g \in Groups : CreateServed(g) \/ OpenCreated(g)
Next == Loads \/ Opens \/ Decides \/ Makes \/ Bump \/ \E c \in Convs : Arrive(c) \/ Cleared(c) \/ ClearFails(c)

(* The service ends what it began, a visible window polls, and a request ends.           *)
Fairness ==
  /\ WF_vars(Bump) /\ WF_vars(Notice)
  /\ \A c \in Convs : WF_vars(Cleared(c) \/ ClearFails(c))
Spec == Init /\ [][Next]_vars /\ Fairness

---------------------------------------------------------------------------
(* No unread mark on what the owner has not accepted, and a decision that is under way    *)
(* and still on screen belongs to the thread on screen.                                *)
TypeOK ==
  /\ rec \in [Convs -> Record] /\ list \in [Convs -> Record] /\ {due, behind, access, foreground, stale} \subseteq BOOLEAN
  /\ state \in {"loading", "ready", "error"} /\ clears \subseteq Convs /\ lost \subseteq Convs
  /\ load \in Load \union {None} /\ thread \in Thread \union {None}
  /\ tap \in Convs \union {None} /\ making \in {"closed", "creating", "opening", "created", "reopening"}
  /\ spent \in 0..Budget
  /\ \A c \in Convs : rec[c].unread => rec[c].status = "accepted"
  /\ \A c \in Convs : decisions[c].mounted => On(c)

(* When nothing is under way, the list on screen is the service's: whichever loads were   *)
(* dropped for newer ones, for a group just created or for lost access, and whatever      *)
(* changed between the records of one load.                                           *)
ListIsCurrent ==
  access /\ thread = None /\ load = None /\ state = "ready" /\ ~stale /\ ~due /\ ~behind => list = rec

Shown(c) == access /\ foreground /\ On(c) /\ ~thread.asks
(* What the owner has in front of them does not stay unread, though messages arrive       *)
(* while receipts for earlier ones are under way.                                      *)
Unseen == \E c \in Convs : Shown(c) /\ rec[c].unread /\ c \notin lost
ReadClears == []<>~Unseen
=============================================================================
