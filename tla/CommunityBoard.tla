--------------------------- MODULE CommunityBoard ---------------------------
(* Posts and replies of the public board: the composers of the app (ui/Board.jsx),*)
(* the owner routes that sign each request afresh (social_routes.py), and what     *)
(* the community host does with a request when it comes to it (common_public.py).  *)
(*                                                                                *)
(* The host settles a request as one step, under the board's lock. A request may   *)
(* be handled late, after its sender has given up, and more than once; an answer   *)
(* may be lost. The index is in BoardIndex, reactions, photos and names are left    *)
(* out. Every request bears the time at which it was signed: here, its number.      *)
EXTENDS Naturals, FiniteSets, Sequences

CONSTANTS
  Members,
  Posts, Replies,
  On,          \* the post each reply answers
  Ids,         \* the ids each member may draw
  Texts, NoText, NoItem,
  ReplyLimit,  \* BOARD_REPLY_LIMIT
  MaxSends     \* bound on the requests

Items == Posts \cup Replies

ASSUME BoardAssumption ==
  /\ Posts \cap Replies = {} /\ On \in [Replies -> Posts]
  /\ Ids \in [Members -> SUBSET Items]
  /\ \A m, k \in Members : m # k => Ids[m] \cap Ids[k] = {}
  /\ NoText \notin Texts /\ NoItem \notin Items
  /\ ReplyLimit \in Nat \ {0} /\ MaxSends \in Nat

VARIABLES
  board,  \* the records at the host
  tombs,  \* _deleted_replies of each post, oldest first
  sent,   \* the requests, in the order they were signed
  draft,  \* each member's composer
  view,   \* the items each member's app has been shown
  (* history of the run, read by no action but to draw an unused id *)
  told,     \* items and texts their authors were told are sent
  stored,   \* items and texts the host ever stored
  removed,  \* posts the host deleted, and replies it deleted from a post that is still there
  applied   \* the edits applied to each item since it was stored

vars == <<board, tombs, sent, draft, view, told, stored, removed, applied>>

---------------------------------------------------------------------------
Absent == [live |-> FALSE, text |-> NoText, clock |-> 0]
Posted(t) == [live |-> TRUE, text |-> t, clock |-> 0]
Blank == [item |-> NoItem, text |-> NoText, sending |-> FALSE]
Live == {i \in Items : board[i].live}
RepliesOf(p) == {r \in Replies : On[r] = p}
LiveReplies(p) == RepliesOf(p) \cap Live
AuthorOf(i) == CHOOSE m \in Members : i \in Ids[m]

(* Some posts may be on the board already, and everybody has seen them. *)
Init ==
  /\ board \in [Items -> {Absent} \cup {Posted(t) : t \in Texts}]
  /\ Live \subseteq Posts
  /\ tombs = [p \in Posts |-> <<>>]
  /\ sent = <<>>
  /\ draft = [m \in Members |-> Blank]
  /\ view = [m \in Members |-> Live]
  /\ told = {} /\ stored = {<<i, board[i].text>> : i \in Live} /\ removed = {}
  /\ applied = [i \in Items |-> {}]

(* The host's answer while it is on its way, and the caller's side of a request. *)
Request(kind, i, t) == [kind |-> kind, item |-> i, text |-> t, answer |-> "none", open |-> TRUE]
Send(kind, i, t) == Len(sent) < MaxSends /\ sent' = Append(sent, Request(kind, i, t))
Requests == DOMAIN sent
Deleting(m) == {sent[n].item : n \in {k \in Requests : sent[k].open /\ sent[k].kind = "delete"}}
Shown(m) == view[m] \ Deleting(m)

---------------------------------------------------------------------------
(* The composers.                                                            *)

\* Mutant: the id of the earlier attempt is kept.
Retyped_KeepsId(m, t) == [draft[m] EXCEPT !.text = t]

(* changeDraft, changeReplyDraft: other words are another message. *)
Retyped(m, t) == [draft[m] EXCEPT !.text = t, !.item = NoItem]
Composed(m, t) == IF draft[m].text = t THEN draft[m] ELSE Retyped(m, t)

(* crypto.randomUUID: an id that nobody has used. *)
Fresh(m) == Ids[m] \ ({sent[n].item : n \in Requests} \cup {draft[m].item} \cup {c[1] : c \in stored})
CanAnswer(m, i) == i \in Replies => On[i] \in Shown(m)

(* publish, sendReply: the words of the failed attempt as they are, or others. *)
Submit(m, t) ==
  LET d == Composed(m, t) IN
  /\ ~draft[m].sending
  /\ \E i \in IF d.item = NoItem THEN Fresh(m) ELSE {d.item} :
       /\ CanAnswer(m, i)
       /\ Send("write", i, t)
       /\ draft' = [draft EXCEPT ![m] = [item |-> i, text |-> t, sending |-> TRUE]]
  /\ UNCHANGED <<board, tombs, view, told, stored, removed, applied>>

(* clearLandedPostDraft and its twin for replies. *)
Unsent(d, shown) == IF d.item \in shown THEN Blank ELSE [d EXCEPT !.sending = FALSE]

(* The board as it is read next. *)
Refresh(m) ==
  /\ view' = [view EXCEPT ![m] = Live]
  /\ draft' = [draft EXCEPT ![m] = IF @.sending THEN @ ELSE Unsent(@, Live)]
  /\ UNCHANGED <<board, tombs, sent, told, stored, removed, applied>>

(* saveEdit, doDelete, doDeleteReply: of the author's own items. *)
Own(m) == Shown(m) \cap Ids[m]

EditOwn(m, i, t) ==
  /\ i \in Own(m)
  /\ \A n \in Requests : sent[n].kind = "edit" /\ sent[n].open => sent[n].item \notin Ids[m]
  /\ Send("edit", i, t)
  /\ UNCHANGED <<board, tombs, draft, view, told, stored, removed, applied>>

DeleteOwn(m, i) ==
  /\ i \in Own(m)
  /\ Send("delete", i, NoText)
  /\ UNCHANGED <<board, tombs, draft, view, told, stored, removed, applied>>

---------------------------------------------------------------------------
(* The answer reaches the app.                                               *)
Close(n) == sent' = [sent EXCEPT ![n].open = FALSE, ![n].answer = "none"]

\* Mutant: an attempt that failed empties the composer too.
Ends_Failed(a) == a # "none"

(* Confirmed, or refused for good because the reply or its post is deleted. *)
Ends(a) == a \in {"ok", "gone"}

ReceiveWrite(n) ==
  LET e == sent[n]  m == AuthorOf(e.item) IN
  /\ e.open /\ e.kind = "write" /\ e.answer # "none"
  /\ Close(n)
  /\ view' = [view EXCEPT ![m] = IF e.answer = "ok" THEN @ \cup {e.item} ELSE @]
  /\ draft' = [draft EXCEPT ![m] = IF Ends(e.answer) THEN Blank ELSE Unsent(@, view[m])]
  /\ told' = IF e.answer = "ok" THEN told \cup {<<e.item, e.text>>} ELSE told
  /\ UNCHANGED <<board, tombs, stored, removed, applied>>

ReceiveDelete(n) ==
  LET e == sent[n]  m == AuthorOf(e.item) IN
  /\ e.open /\ e.kind = "delete" /\ e.answer = "ok"
  /\ Close(n)
  /\ view' = [view EXCEPT ![m] = @ \ {e.item}]
  /\ UNCHANGED <<board, tombs, draft, told, stored, removed, applied>>

ReceiveEdit(n) ==
  /\ sent[n].open /\ sent[n].kind = "edit" /\ sent[n].answer # "none"
  /\ Close(n)
  /\ UNCHANGED <<board, tombs, draft, view, told, stored, removed, applied>>

(* The connection fails or the time is up; what was sent may still be handled. *)
GiveUp(n) ==
  LET e == sent[n]  m == AuthorOf(e.item) IN
  /\ e.open
  /\ Close(n)
  /\ draft' = IF e.kind = "write" THEN [draft EXCEPT ![m] = Unsent(@, view[m])] ELSE draft
  /\ UNCHANGED <<board, tombs, view, told, stored, removed, applied>>

---------------------------------------------------------------------------
(* The host. Whoever is no longer waiting hears nothing.                      *)
Answer(n, a) == sent' = IF sent[n].open /\ sent[n].answer = "none"
                        THEN [sent EXCEPT ![n].answer = a] ELSE sent
Stored(i, t) ==
  /\ board' = [board EXCEPT ![i] = Posted(t)]
  /\ stored' = stored \cup {<<i, t>>}
  /\ applied' = [applied EXCEPT ![i] = {}]

(* store_post: a stored id confirms the retry without comparing its words. *)
HandlePost(n) ==
  LET e == sent[n] IN
  /\ e.kind = "write" /\ e.item \in Posts
  /\ Answer(n, "ok")
  /\ IF board[e.item].live THEN UNCHANGED <<board, stored, applied>> ELSE Stored(e.item, e.text)
  /\ UNCHANGED <<tombs, draft, view, told, removed>>

(* add_reply, settle: in this order. *)
SameReply(r, t) == board[r].text = t \/ board[r].clock > 0
Verdict(r, t) ==
  IF ~board[On[r]].live THEN "gone"
  ELSE IF board[r].live THEN IF SameReply(r, t) THEN "ok" ELSE "conflict"
  ELSE IF \E k \in DOMAIN tombs[On[r]] : tombs[On[r]][k] = r THEN "gone"
  ELSE IF Cardinality(LiveReplies(On[r])) >= ReplyLimit THEN "full" ELSE "ok"

HandleReply(n) ==
  LET e == sent[n]  a == Verdict(e.item, e.text) IN
  /\ e.kind = "write" /\ e.item \in Replies
  /\ Answer(n, a)
  /\ IF a = "ok" /\ ~board[e.item].live THEN Stored(e.item, e.text)
                                        ELSE UNCHANGED <<board, stored, applied>>
  /\ UNCHANGED <<tombs, draft, view, told, removed>>

\* Mutant: an edit that changes no words leaves no trace.
Edited_Words(i, t, n) == IF board[i].text = t THEN board[i] ELSE [board[i] EXCEPT !.text = t, !.clock = n]

(* Every accepted edit is remembered, the one that changes no words too. *)
Edited(i, t, n) == [board[i] EXCEPT !.text = t, !.clock = n]

(* edit_text *)
HandleEdit(n) ==
  LET e == sent[n] IN
  /\ e.kind = "edit"
  /\ IF ~board[e.item].live \/ n <= board[e.item].clock
     THEN /\ Answer(n, IF board[e.item].live THEN "stale" ELSE "gone")
          /\ UNCHANGED <<board, applied>>
     ELSE /\ Answer(n, "ok")
          /\ board' = [board EXCEPT ![e.item] = Edited(e.item, e.text, n)]
          /\ applied' = [applied EXCEPT ![e.item] = @ \cup {n}]
  /\ UNCHANGED <<tombs, draft, view, told, stored, removed>>

(* delete_post: its replies, and what is remembered of them, go with it. *)
HandleDeletePost(n) ==
  LET p == sent[n].item IN
  /\ sent[n].kind = "delete" /\ p \in Posts
  /\ Answer(n, "ok")
  /\ board' = [i \in Items |-> IF i = p \/ i \in RepliesOf(p) THEN Absent ELSE board[i]]
  /\ tombs' = [tombs EXCEPT ![p] = <<>>]
  /\ removed' = IF board[p].live THEN (removed \ RepliesOf(p)) \cup {p} ELSE removed
  /\ UNCHANGED <<draft, view, told, stored, applied>>

\* Mutants: everything is remembered; nothing is.
Remembered_All(p, r) == Append(tombs[p], r)
Remembered_Nothing(p, r) == tombs[p]

(* The newest ReplyLimit ids. *)
Remembered(p, r) ==
  LET s == Append(tombs[p], r) IN
  IF Len(s) > ReplyLimit THEN SubSeq(s, Len(s) - ReplyLimit + 1, Len(s)) ELSE s

(* delete_reply: an absent reply leaves no trace of the request. *)
HandleDeleteReply(n) ==
  LET r == sent[n].item  p == On[r] IN
  /\ sent[n].kind = "delete" /\ r \in Replies
  /\ Answer(n, "ok")
  /\ IF board[r].live
     THEN /\ board' = [board EXCEPT ![r] = Absent]
          /\ tombs' = [tombs EXCEPT ![p] = Remembered(p, r)]
          /\ removed' = removed \cup {r}
     ELSE UNCHANGED <<board, tombs, removed>>
  /\ UNCHANGED <<draft, view, told, stored, applied>>

---------------------------------------------------------------------------
Composer(m) == Refresh(m) \/ (\E t \in Texts : Submit(m, t))
  \/ \E i \in Items : DeleteOwn(m, i) \/ \E t \in Texts : EditOwn(m, i, t)
Receive(n) == ReceiveWrite(n) \/ ReceiveDelete(n) \/ ReceiveEdit(n) \/ GiveUp(n)
Handle(n) == HandlePost(n) \/ HandleReply(n) \/ HandleEdit(n)
  \/ HandleDeletePost(n) \/ HandleDeleteReply(n)

Next == (\E m \in Members : Composer(m)) \/ (\E n \in Requests : Receive(n) \/ Handle(n))

Spec == Init /\ [][Next]_vars

---------------------------------------------------------------------------
Text == Texts \cup {NoText}
TypeOK ==
  /\ board \in [Items -> [live : BOOLEAN, text : Text, clock : 0..MaxSends]]
  /\ \A p \in Posts : tombs[p] \in Seq(RepliesOf(p)) /\ Len(tombs[p]) <= ReplyLimit
  /\ sent \in Seq([kind : {"write", "edit", "delete"}, item : Items, text : Text, open : BOOLEAN,
                   answer : {"none", "ok", "gone", "conflict", "full", "stale"}])
  /\ Len(sent) <= MaxSends
  /\ draft \in [Members -> [item : Items \cup {NoItem}, text : Text, sending : BOOLEAN]]
  /\ view \in [Members -> SUBSET Items]
  /\ told \subseteq Items \X Texts /\ stored \subseteq Items \X Texts /\ removed \subseteq Items
  /\ applied \in [Items -> SUBSET (1..MaxSends)]

Deleted(i) == i \in removed \/ (i \in Replies /\ On[i] \in removed)

(* store_post confirms by id alone, add_reply by id and words: what an author was     *)
(* told is sent is on the board in those words, unless the author has edited or       *)
(* deleted it, whatever was retyped, retried or handled late.                         *)
ConfirmedIsStored == \A c \in told :
  \/ Deleted(c[1])
  \/ board[c[1]].live /\ (board[c[1]].text = c[2] \/ board[c[1]].clock > 0)

(* edit_text orders edits by the time they were signed: once the host has accepted   *)
(* some, the words are those of the last signed among them, in whatever order and     *)
(* however often they came.                                                           *)
LatestEditStands == \A i \in Live : \A n \in applied[i] :
  (\A k \in applied[i] : k <= n) => board[i].text = sent[n].text

(* delete_reply: a reply deleted from a post that is still there does not come back   *)
(* with a late or repeated request, as long as no more replies were deleted there     *)
(* than the host remembers.                                                           *)
DeletedRepliesStayDeleted == \A p \in Posts :
  LET gone == removed \cap RepliesOf(p) IN
  Cardinality(gone) <= ReplyLimit => gone \cap Live = {}

(* edit_text, delete_reply, create_reply: what comes late or again never undoes what  *)
(* was signed or deleted after it.                                                    *)
LateRequestsUndoNothing == LatestEditStands /\ DeletedRepliesStayDeleted

(* sendReply, publish, clearLandedPostDraft: a composer is emptied only when its words*)
(* have been on the board, or when the reply or its post is deleted.                  *)
DraftsAreNotLost == [][\A m \in Members :
  draft[m].text # NoText /\ draft'[m].text = NoText =>
    \/ <<draft[m].item, draft[m].text>> \in stored
    \/ Deleted(draft[m].item)]_vars
=============================================================================
