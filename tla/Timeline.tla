------------------------------ MODULE Timeline ------------------------------
(* One open conversation in the app: ui/useMessageTimeline.jsx and the merges of  *)
(* message_ui_state.js, over the pages that api.js reads.                          *)
(*                                                                                *)
(* Three readers fill one list: refreshes of the newest page, of which only the    *)
(* last asked for counts; the published page, which paints first and may be older; *)
(* and the pages before the cursor. The owner's own messages are in the list       *)
(* before they are saved, and a call that is given up may still be carried out.    *)
(* Saved messages are ordered as they were saved.                                  *)
EXTENDS Naturals, Sequences, FiniteSets, SequencesExt

CONSTANTS
  Own,        \* the ids the app draws
  Words,      \* what the owner types
  None,
  PageSize,   \* 50 in api.js
  MaxAsks,    \* bound on the refreshes under way
  Budget      \* bound on what happens: see Spend

(* A message of somebody else and a failure cost one, what the owner types two. *)
Theirs == 1..Budget

ASSUME TimelineAssumption ==
  /\ Budget \in Nat /\ Own \cap Theirs = {} /\ None \notin Own \cup Theirs
  /\ PageSize \in Nat \ {0} /\ MaxAsks \in Nat \ {0}

VARIABLES
  log, state,    \* the saved messages, and the status of the owner's own
  behind,        \* the version has moved since the view last looked
  rows, loaded,  \* the list; not loaded while it is null
  cursor,        \* nextCursor: where the earlier messages end; 0 is null
  asks, counts,  \* the refreshes under way; whether the last of them still counts
  earlier,       \* the page of earlier messages that is under way
  device,        \* how much of the log the published page has shown
  error,         \* loadError and earlierFailed
  draft, sending, retrying, calls,
  left,  \* of the budget
  (* history of the run *)
  carried,  \* the words of each own message
  missed,   \* a refresh failed or was cancelled, and none has succeeded since
  unproved  \* whose page joined the list without being known to follow it

list == <<rows, loaded, cursor, unproved>>
service == <<log, state, behind>>
reading == <<asks, counts, earlier, device, error, missed>>
writing == <<draft, sending, retrying, calls, carried>>
vars == <<service, list, reading, writing, left>>

---------------------------------------------------------------------------
(* The service's side.                                                       *)
Saved == {log[k] : k \in DOMAIN log}
Row(s, retry, unconfirmed) == [status |-> s, retry |-> retry, unconfirmed |-> unconfirmed]
SavedRow(i) == Row(IF i \in Own THEN state[i] ELSE "in", FALSE, FALSE)

Asked == [rows |-> <<>>, next |-> 0, is |-> "asked"]
Failed == [Asked EXCEPT !.is = "failed"]

\* Mutant: the page before ends a page further back, even before the first message.
Page_Unclamped(c) ==
  LET ids == {log[k] : k \in {n \in 1..(c - 1) : n + PageSize >= c}} IN
  [rows |-> [i \in ids |-> SavedRow(i)], next |-> c - PageSize, is |-> "page"]

(* The messages before position c, and where the page before them ends. *)
Page(c) ==
  LET first == IF c > PageSize THEN c - PageSize ELSE 1
      ids == {log[k] : k \in first..(c - 1)} IN
  [rows |-> [i \in ids |-> SavedRow(i)], next |-> IF first > 1 THEN first ELSE 0, is |-> "page"]
Latest == Page(Len(log) + 1)

(* listHistory: with the service out of reach, the newest of the saved records. *)
Offline == IF log = <<>> THEN Failed ELSE [Latest EXCEPT !.next = 0, !.is = "offline"]

Init ==
  /\ \E n \in 0..Budget : log = [k \in 1..n |-> k] /\ device \in 0..n /\ left = Budget - n
  /\ state = [o \in Own |-> "none"] /\ behind = FALSE
  /\ rows = <<>> /\ loaded = FALSE /\ cursor = 0 /\ unproved = {}
  /\ asks = <<[page |-> Asked, replace |-> TRUE]>> /\ counts = TRUE
  /\ earlier = [at |-> 0, page |-> Asked, fresh |-> FALSE]
  /\ error = "none" /\ missed = FALSE
  /\ draft = {} /\ sending = None /\ retrying = [id |-> None, resend |-> FALSE] /\ calls = {}
  /\ carried = [o \in Own |-> {}] 

Spend(n) == left >= n /\ left' = left - n
Fault == Spend(1)
Change(i, s) == state' = [state EXCEPT ![i] = s] /\ behind' = TRUE

(* The service saves a message of somebody else. *)
Arrive ==
  LET n == Cardinality(Saved \cap Theirs) + 1 IN
  /\ Spend(1)
  /\ log' = Append(log, n) /\ behind' = TRUE
  /\ UNCHANGED <<state, list, reading, writing>>

---------------------------------------------------------------------------
(* Reading.                                                                  *)

(* mergeMessages: of two rows of one message the later argument's. *)
Merge(first, second) == [i \in DOMAIN first \cup DOMAIN second |->
  IF i \in DOMAIN second THEN second[i] ELSE first[i]]
Local(i) == rows[i].retry \/ rows[i].unconfirmed
Confirmed == {i \in DOMAIN rows : ~Local(i)}
Pending == Restrict(rows, DOMAIN rows \ Confirmed)
Follows(page) == page.next = 0 \/ Confirmed \cap DOMAIN page.rows # {}

\* Mutant: any row of the list proves that the page follows it.
LostContinuity_AnyRow(page) ==
  rows # <<>> /\ page.next # 0 /\ DOMAIN rows \cap DOMAIN page.rows = {}

(* Only a row that came from the service proves that the page follows the list. *)
LostContinuity(page) == rows # <<>> /\ ~Follows(page)
Resets(page, replace) == replace \/ rows = <<>> \/ LostContinuity(page)

(* reconcileLatestPage *)
Reconcile(page, replace) ==
  LET reset == Resets(page, replace) IN
  /\ rows' = Merge(IF reset THEN Pending ELSE rows, page.rows)
  /\ loaded' = TRUE
  /\ cursor' = IF reset THEN page.next ELSE cursor
  /\ earlier' = [earlier EXCEPT !.fresh = @ /\ ~reset]
  /\ unproved' = IF page.is = "offline" /\ Len(log) > PageSize THEN unproved \cup {"offline"}
                  ELSE IF reset THEN {} ELSE unproved

(* refresh, until the page is asked for: from here on no earlier one counts. *)
Ask(replace) ==
  /\ Len(asks) < MaxAsks
  /\ asks' = Append(asks, [page |-> Asked, replace |-> replace]) /\ counts' = TRUE

AnswerAsk(k) ==
  /\ asks[k].page = Asked
  /\ \/ asks' = [asks EXCEPT ![k].page = Latest] /\ UNCHANGED left
     \/ \E p \in {Failed, Offline} : asks' = [asks EXCEPT ![k].page = p] /\ Fault
  /\ UNCHANGED <<service, list, counts, earlier, device, error, missed, writing>>

\* Mutant: whichever refresh is answered.
Current_Any(k) == TRUE

(* request === refreshRequest.current *)
Current(k) == k = Len(asks) /\ counts

(* refresh, from the answer on. *)
ReceiveAsk(k) ==
  LET p == asks[k].page IN
  /\ p # Asked
  /\ asks' = RemoveAt(asks, k) /\ counts' = (counts /\ k # Len(asks))
  /\ CASE ~Current(k) -> UNCHANGED <<list, earlier, error, missed>>
       [] Current(k) /\ p = Failed ->
            /\ error' = IF error = "earlier" THEN error ELSE "refresh"
            /\ missed' = TRUE /\ UNCHANGED <<list, earlier>>
       [] OTHER ->
            /\ Reconcile(p, asks[k].replace)
            /\ error' = IF error = "earlier" THEN error ELSE "none"
            /\ missed' = FALSE
  /\ UNCHANGED <<service, device, writing, left>>

(* The poll reports another version. *)
Notice ==
  /\ behind /\ behind' = FALSE /\ Ask(FALSE)
  /\ UNCHANGED <<log, state, list, earlier, device, error, missed, writing, left>>

(* The button beside the error, and the owner's acceptance of a request. *)
TryAgain ==
  /\ error = "refresh" /\ Ask(FALSE)
  /\ UNCHANGED <<service, list, earlier, device, error, missed, writing, left>>

(* GroupDetails: an answer of the service replaces the group that is being read. *)
CancelRefresh ==
  /\ counts /\ counts' = FALSE /\ missed' = TRUE
  /\ UNCHANGED <<service, list, asks, earlier, device, error, writing, left>>

(* The published page, at least as new as when it was last shown: first the device's *)
(* copy, then the service's. addUnseenMessages changes no row that is shown.         *)
Published(n) ==
  LET page == Page(n + 1)
      unseen == DOMAIN page.rows \ DOMAIN rows IN
  /\ device' = n
  /\ IF loaded
     THEN /\ rows' = Merge(rows, Restrict(page.rows, unseen))
          /\ unproved' = IF unseen # {} /\ ~Follows(page) THEN unproved \cup {"published"} ELSE unproved
          /\ UNCHANGED <<loaded, cursor>>
     ELSE IF n = 0 THEN UNCHANGED list
          ELSE rows' = page.rows /\ loaded' = TRUE /\ cursor' = page.next /\ UNCHANGED unproved
  /\ UNCHANGED <<service, asks, counts, earlier, error, missed, writing, left>>

WatchLatest == \E n \in device..Len(log) : Published(n)

(* loadEarlier *)
AskEarlier ==
  /\ cursor # 0 /\ earlier.at = 0
  /\ earlier' = [at |-> cursor, page |-> Asked, fresh |-> TRUE]
  /\ error' = "none"
  /\ UNCHANGED <<service, list, asks, counts, device, missed, writing, left>>

AnswerEarlier ==
  /\ earlier.at # 0 /\ earlier.page = Asked
  /\ \/ earlier' = [earlier EXCEPT !.page = Page(earlier.at)] /\ UNCHANGED left
     \/ earlier' = [earlier EXCEPT !.page = Failed] /\ Fault
  /\ UNCHANGED <<service, list, asks, counts, device, error, missed, writing>>

\* Mutant: the answer to an abandoned chain moves the cursor.
SameChain_Any == TRUE

(* requestGeneration === currentGeneration *)
SameChain == earlier.fresh

ReceiveEarlier ==
  LET p == earlier.page IN
  /\ earlier.at # 0 /\ p # Asked
  /\ earlier' = [at |-> 0, page |-> Asked, fresh |-> FALSE]
  /\ CASE ~SameChain -> UNCHANGED <<list, error>>
       [] SameChain /\ p = Failed -> error' = "earlier" /\ UNCHANGED list
       [] OTHER -> /\ rows' = Merge(p.rows, rows) /\ cursor' = p.next
                   /\ error' = "none" /\ UNCHANGED <<loaded, unproved>>
  /\ UNCHANGED <<service, asks, counts, device, missed, writing, left>>

---------------------------------------------------------------------------
(* Writing.                                                                  *)
Call(i, kind) == [id |-> i, kind |-> kind, is |-> "queued", heard |-> TRUE]

Type(w) ==
  /\ \A o \in Own : w \notin carried[o]
  /\ w \notin draft /\ draft' = draft \cup {w} /\ Spend(2)
  /\ UNCHANGED <<service, list, reading, sending, retrying, calls, carried>>

(* crypto.randomUUID: an id that nothing refers to. *)
Fresh(i) == i \notin Saved /\ carried[i] = {} /\ \A c \in calls : c.id # i

(* send, until the message is on its way. *)
Send(i) ==
  /\ draft # {} /\ sending = None /\ Fresh(i)
  /\ rows' = Merge(rows, [j \in {i} |-> Row("sending", TRUE, TRUE)]) /\ loaded' = TRUE
  /\ carried' = [carried EXCEPT ![i] = draft] /\ draft' = {}
  /\ sending' = i /\ calls' = calls \cup {Call(i, "send")}
  /\ UNCHANGED <<service, cursor, unproved, reading, retrying, left>>

(* DeliveryNote: a message that failed or is in doubt keeps one retry. *)
MayRetry(i) ==
  /\ i \in DOMAIN rows /\ rows[i].status \in {"failed", "sending"}
  /\ sending = None /\ retrying.id = None

Retry(i) ==
  /\ MayRetry(i)
  /\ retrying' = [id |-> i, resend |-> rows[i].retry]
  /\ calls' = calls \cup {Call(i, "retry")}
  /\ UNCHANGED <<service, list, reading, draft, sending, carried, left>>

(* settleMessage *)
Settled(i, s) == IF i \in DOMAIN rows
  THEN [rows EXCEPT ![i] = Row(s, FALSE, @.unconfirmed)] ELSE rows

\* Mutant: a message known as delivered falls back into doubt.
InDoubt_Any(i) == IF i \in DOMAIN rows
  THEN [rows EXCEPT ![i] = Row("sending", @.retry, TRUE)] ELSE rows

(* markDeliveryUnknown *)
InDoubt(i) == IF i \in DOMAIN rows /\ rows[i].status # "delivered"
  THEN [rows EXCEPT ![i] = Row("sending", @.retry, TRUE)] ELSE rows

Waiting(c) == IF sending = c.id THEN "send" ELSE "retry"
Done(c) == /\ Ask(FALSE)
           /\ IF Waiting(c) = "send" THEN sending' = None /\ UNCHANGED retrying
              ELSE retrying' = [id |-> None, resend |-> FALSE] /\ UNCHANGED sending

\* Mutant: what could not be confirmed is taken back into the composer.
Rejects_Lost(a) == a \notin {"delivered", "failed"}

(* isDefinitePrecommitRejection *)
Rejects(a) == a \in {"rejected", "missing", "busy"}

(* send and retry, from the answer on. An answer that says nothing is "lost". *)
Hear(c, a) ==
  LET i == c.id IN
  /\ CASE a \in {"delivered", "failed"} ->
            /\ rows' = Settled(i, a)
            /\ UNCHANGED <<draft, carried>>
       [] Rejects(a) /\ Waiting(c) = "send" ->
            /\ rows' = Restrict(rows, DOMAIN rows \ {i})
            /\ draft' = draft \cup carried[i] /\ carried' = [carried EXCEPT ![i] = {}]
       [] Rejects(a) /\ Waiting(c) = "retry" -> UNCHANGED <<rows, draft, carried>>
       [] OTHER -> rows' = InDoubt(i) /\ UNCHANGED <<draft, carried>>
  /\ Done(c)
  /\ UNCHANGED <<loaded, cursor, unproved, earlier, device, error, missed>>

Resends(c) == c.kind = "retry" /\ c.is = "missing" /\ retrying.resend

ReceiveCall(c) ==
  /\ c.heard /\ c.is \notin {"queued", "attempt"} /\ ~Resends(c)
  /\ calls' = calls \ {c} /\ Hear(c, c.is)
  /\ UNCHANGED <<service, left>>

(* retry: what was never saved is sent again from here, under its id. *)
ReceiveMissing(c) ==
  /\ c.heard /\ Resends(c)
  /\ calls' = (calls \ {c}) \cup {Call(c.id, "send")}
  /\ retrying' = [retrying EXCEPT !.resend = FALSE]
  /\ UNCHANGED <<service, list, reading, draft, sending, carried, left>>

(* The deadline, or a lost connection: the service may still carry it out. *)
GiveUp(c) ==
  /\ c.heard /\ Fault
  /\ calls' = (calls \ {c}) \cup
       (IF c.is \in {"queued", "attempt"} THEN {[c EXCEPT !.heard = FALSE]} ELSE {})
  /\ Hear(c, "lost")
  /\ UNCHANGED service

---------------------------------------------------------------------------
(* What the service does with a call; DirectMessages has the details.         *)
Answer(c, a) == calls' = (calls \ {c}) \cup
  (IF c.heard \/ a = "attempt" THEN {[c EXCEPT !.is = a]} ELSE {})

Save(c) ==
  /\ c.is = "queued" /\ c.kind = "send" /\ c.id \notin Saved
  /\ Answer(c, "attempt")
  /\ log' = Append(log, c.id) /\ Change(c.id, "sending")
  /\ UNCHANGED <<list, reading, draft, sending, retrying, carried, left>>

(* Rejected before it is saved, or dropped on the way when nobody waits for it. *)
Refuse(c) ==
  /\ c.is = "queued" /\ c.kind = "send" /\ c.id \notin Saved /\ Fault
  /\ Answer(c, "rejected")
  /\ UNCHANGED <<service, list, reading, draft, sending, retrying, carried>>

Missing(c) ==
  /\ c.is = "queued" /\ c.kind = "retry" /\ c.id \notin Saved
  /\ Answer(c, "missing")
  /\ UNCHANGED <<service, list, reading, draft, sending, retrying, carried, left>>

Attempted(i) == \E c \in calls : c.id = i /\ c.is = "attempt"

Again(c) ==
  /\ c.is = "queued" /\ c.id \in Saved
  /\ CASE state[c.id] = "delivered" -> Answer(c, "delivered") /\ UNCHANGED service
       [] state[c.id] # "delivered" /\ Attempted(c.id) -> Answer(c, "busy") /\ UNCHANGED service
       [] OTHER -> Answer(c, "attempt") /\ Change(c.id, "sending") /\ UNCHANGED log
  /\ UNCHANGED <<list, reading, draft, sending, retrying, carried, left>>

Deliver(c) ==
  /\ c.is = "attempt"
  /\ \E a \in {"delivered", "failed"} : Answer(c, a) /\ Change(c.id, a)
  /\ UNCHANGED <<log, list, reading, draft, sending, retrying, carried, left>>

---------------------------------------------------------------------------
Read == Notice \/ TryAgain \/ CancelRefresh \/ WatchLatest
  \/ AskEarlier \/ AnswerEarlier \/ ReceiveEarlier
  \/ \E k \in DOMAIN asks : AnswerAsk(k) \/ ReceiveAsk(k)
Write == (\E w \in Words : Type(w)) \/ (\E i \in Own : Send(i) \/ Retry(i))
  \/ \E c \in calls : ReceiveCall(c) \/ ReceiveMissing(c) \/ GiveUp(c)
Serve == Arrive
  \/ \E c \in calls : Save(c) \/ Refuse(c) \/ Missing(c) \/ Again(c) \/ Deliver(c)

Next == Read \/ Write \/ Serve
Spec == Init /\ [][Next]_vars

---------------------------------------------------------------------------
Status == {"in", "none", "sending", "delivered", "failed"}
RowSet == [status : Status, retry : BOOLEAN, unconfirmed : BOOLEAN]
Rows(f) == DOMAIN f \subseteq Own \cup Theirs /\ \A i \in DOMAIN f : f[i] \in RowSet
TypeOK ==
  /\ Saved \subseteq Own \cup Theirs /\ Cardinality(Saved) = Len(log)
  /\ state \in [Own -> Status \ {"in"}] /\ {behind, loaded, counts, missed} \subseteq BOOLEAN
  /\ unproved \subseteq {"published", "offline"}
  /\ Rows(rows) /\ cursor \in 0..Len(log) /\ device \in 0..Len(log)
  /\ \A k \in DOMAIN asks : Rows(asks[k].page.rows) /\ asks[k].replace \in BOOLEAN
  /\ Rows(earlier.page.rows) /\ earlier.at \in 0..Len(log)
  /\ error \in {"none", "refresh", "earlier"}
  /\ draft \subseteq Words /\ sending \in Own \cup {None} /\ retrying.id \in Own \cup {None}
  /\ carried \in [Own -> SUBSET Words] /\ left \in 0..Budget

(* reconcileLatestPage, loadEarlier: from the cursor to the newest row that came from *)
(* the service the list leaves nothing out, unless a page joined it unproved.          *)
Reached == {k \in DOMAIN log : log[k] \in Confirmed}
Contiguous == \A k \in DOMAIN log :
  k >= cursor /\ (\E n \in Reached : k <= n) => log[k] \in DOMAIN rows
NoGapUnlessUnproved == loaded /\ unproved = {} => Contiguous

(* message_ui_state.js, reconcileLatestPage: once everything asked for has come, and  *)
(* the service was never out of reach, the list hides no gap.                          *)
Quiet == loaded /\ ~counts /\ ~behind /\ sending = None /\ retrying.id = None /\ ~missed
NoHiddenGap == Quiet /\ "offline" \notin unproved => Contiguous

(* refresh, addUnseenMessages: once everything asked for has come and none of it      *)
(* failed, the newest page is in the list and the owner's own messages of that page     *)
(* have the status they are saved with, whichever page came last.                       *)
QuietIsCurrent == Quiet => \A i \in DOMAIN Latest.rows :
  /\ i \in DOMAIN rows
  /\ i \in Own => rows[i].status = state[i]

(* send, retry, refresh: a message shown as delivered does not fall back into doubt   *)
(* while it stays in the list; only the answer to another attempt may call it failed.   *)
Failing(i) == \E c \in calls \ calls' : c.id = i /\ c.heard /\ c.is = "failed"
DeliveredStands == [][\A i \in Own \cap DOMAIN rows \cap DOMAIN rows' :
  rows[i].status = "delivered" => rows'[i].status = "delivered" \/ Failing(i)]_vars

(* send: what the owner typed is in one place: in the composer, or in a message that  *)
(* is in the list or saved; never in the composer and saved, never nowhere.            *)
WordsAreKept == \A o \in Own : carried[o] # {} =>
  /\ o \in DOMAIN rows \/ o \in Saved
  /\ carried[o] \cap draft = {}
NothingSentTwice == \A o \in Own \cap Saved : carried[o] # {}
ComposerIsExact == WordsAreKept /\ NothingSentTwice
=============================================================================
