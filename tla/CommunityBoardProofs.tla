------------------------ MODULE CommunityBoardProofs ------------------------
(* What TLAPS proves of CommunityBoard, for any members, items, ids and bounds: what *)
(* authors were told is stored, late requests undo nothing, and no draft is lost.    *)
EXTENDS CommunityBoard, FiniteSetTheorems, SequenceTheorems, TLAPS

---------------------------------------------------------------------------
RequestType ==
  [kind : {"write", "edit", "delete"}, item : Items, text : Text, open : BOOLEAN,
   answer : {"none", "ok", "gone", "conflict", "full", "stale"}]
DraftType == [item : Items \cup {NoItem}, text : Text, sending : BOOLEAN]
RecordType == [live : BOOLEAN, text : Text, clock : 0..MaxSends]

Writes == {n \in Requests : sent[n].kind = "write"}
OnceStored(i) == \E t \in Texts : <<i, t>> \in stored
Confirmed(i, t) == Deleted(i) \/ (board[i].live /\ (board[i].text = t \/ board[i].clock > 0))

(* A request is of its author; while a write is open, its words wait in the composer; and *)
(* what the host answered is so.                                                          *)
RequestSound(n) ==
  LET e == sent[n] IN
  /\ \E m \in Members : e.item \in Ids[m]
  /\ e.kind # "delete" => e.text \in Texts
  /\ e.kind = "write" =>
       /\ e.item \in Replies => OnceStored(On[e.item])
       /\ e.open => draft[AuthorOf(e.item)] = [item |-> e.item, text |-> e.text, sending |-> TRUE]
       /\ e.answer = "ok" => Confirmed(e.item, e.text) /\ <<e.item, e.text>> \in stored
       /\ e.answer = "gone" => Deleted(e.item)
RequestsSound == \A n \in Requests : RequestSound(n)

(* An author waits for one write at a time.                                          *)
OneWrite ==
  \A n, k \in Writes :
    sent[n].open /\ sent[k].open /\ AuthorOf(sent[n].item) = AuthorOf(sent[k].item) => n = k

(* An id stands for the same words wherever it is.                                   *)
Words(i, t) ==
  /\ \A n \in Writes : sent[n].item = i => sent[n].text = t
  /\ \A u \in Texts : <<i, u>> \in stored => u = t
WordsSound ==
  /\ \A n \in Writes : Words(sent[n].item, sent[n].text)
  /\ \A m \in Members : draft[m].item # NoItem => Words(draft[m].item, draft[m].text)

DraftsSound == \A m \in Members : draft[m].item \in Ids[m] \cup {NoItem}
ViewsSound == \A m \in Members : \A i \in view[m] : OnceStored(i)

(* What is on the board was stored, a reply only with its post, and a post that was  *)
(* stored and is not there was deleted.                                              *)
BoardSound(i) ==
  /\ board[i].live => OnceStored(i) /\ (board[i].clock = 0 => <<i, board[i].text>> \in stored)
  /\ i \in Replies /\ board[i].live => board[On[i]].live
  /\ i \in Posts /\ OnceStored(i) /\ ~board[i].live => i \in removed
BoardsSound == \A i \in Items : BoardSound(i)

(* The clock is that of the last edit applied, and the words are that edit's.        *)
EditSound(i) ==
  board[i].live =>
    \/ board[i].clock = 0 /\ applied[i] = {}
    \/ /\ board[i].clock \in applied[i] /\ board[i].clock \in Requests
       /\ \A k \in applied[i] : k <= board[i].clock
       /\ board[i].text = sent[board[i].clock].text
EditsSound == \A i \in Items : EditSound(i)

(* Until more replies were deleted than it holds, the list has all of them.          *)
Gone(p) == removed \cap RepliesOf(p)
TombSound(p) ==
  /\ \A k \in DOMAIN tombs[p] : tombs[p][k] \in Gone(p)
  /\ ~board[p].live => tombs[p] = <<>> /\ Gone(p) = {}
  /\ Cardinality(Gone(p)) <= ReplyLimit =>
       /\ Gone(p) \cap Live = {} /\ Len(tombs[p]) <= Cardinality(Gone(p))
       /\ \A r \in Gone(p) : \E k \in DOMAIN tombs[p] : tombs[p][k] = r
TombsSound ==
  /\ tombs \in [Posts -> Seq(Replies)] /\ IsFiniteSet(removed)
  /\ \A p \in Posts : TombSound(p)

AppsSound == RequestsSound /\ OneWrite /\ WordsSound /\ DraftsSound /\ ViewsSound
HostSound == BoardsSound /\ EditsSound /\ TombsSound
IInv == TypeOK /\ AppsSound /\ HostSound /\ ConfirmedIsStored

---------------------------------------------------------------------------
(* Facts of the types. *)

LEMMA SentTyped ==
  ASSUME TypeOK
  PROVE  /\ sent \in Seq(RequestType) /\ Requests = 1..Len(sent)
         /\ Len(sent) \in Nat /\ Len(sent) <= MaxSends
         /\ \A n \in Requests : sent[n] \in RequestType
<1>1. sent \in Seq(RequestType) /\ Len(sent) <= MaxSends
  BY DEF TypeOK, RequestType
<1>2. QED
  BY <1>1, LenProperties, ElementOfSeq DEF Requests

LEMMA RequestTyped ==
  ASSUME TypeOK, NEW n \in Requests
  PROVE  /\ sent[n].kind \in {"write", "edit", "delete"} /\ sent[n].item \in Items
         /\ sent[n].text \in Text /\ sent[n].open \in BOOLEAN
         /\ sent[n].answer \in {"none", "ok", "gone", "conflict", "full", "stale"}
         /\ n \in 1..MaxSends
<1>1. sent[n] \in RequestType /\ n \in 1..MaxSends
  BY SentTyped, BoardAssumption
<1>2. QED
  BY <1>1 DEF RequestType

LEMMA StateTyped ==
  ASSUME TypeOK
  PROVE  /\ board \in [Items -> RecordType] /\ draft \in [Members -> DraftType]
         /\ view \in [Members -> SUBSET Items] /\ applied \in [Items -> SUBSET (1..MaxSends)]
BY DEF TypeOK, RecordType, DraftType

LEMMA RecordsTyped ==
  /\ Absent \in RecordType /\ Absent.live = FALSE
  /\ \A t \in Text : /\ Posted(t) \in RecordType /\ Posted(t).live = TRUE
                     /\ Posted(t).text = t /\ Posted(t).clock = 0
<1>1. 0 \in 0..MaxSends
  BY BoardAssumption
<1>2. QED
  BY <1>1 DEF Posted, Absent, RecordType, Text

\* An item has one author.
LEMMA AuthorIs ==
  ASSUME NEW m \in Members, NEW i \in Ids[m]
  PROVE  AuthorOf(i) = m /\ i \in Items
<1>1. \A k \in Members : i \in Ids[k] => k = m
  BY BoardAssumption
<1>2. AuthorOf(i) \in Members /\ i \in Ids[AuthorOf(i)]
  BY DEF AuthorOf
<1>3. QED
  BY <1>1, <1>2, BoardAssumption

LEMMA AuthorOfRequest ==
  ASSUME IInv, NEW n \in Requests
  PROVE  AuthorOf(sent[n].item) \in Members /\ sent[n].item \in Ids[AuthorOf(sent[n].item)]
<1>1. PICK m \in Members : sent[n].item \in Ids[m]
  BY DEF IInv, AppsSound, RequestsSound, RequestSound
<1>2. QED
  BY <1>1, AuthorIs

\* What stays of each request when an answer comes or is taken.
SameRequests ==
  /\ sent' \in Seq(RequestType) /\ Len(sent') = Len(sent) /\ Requests' = Requests
  /\ \A k \in Requests : /\ sent'[k].kind = sent[k].kind /\ sent'[k].item = sent[k].item
                         /\ sent'[k].text = sent[k].text /\ (sent'[k].open => sent[k].open)

LEMMA Replaced ==
  ASSUME TypeOK, NEW n \in Requests, NEW e \in RequestType, sent' = [sent EXCEPT ![n] = e],
         e.kind = sent[n].kind, e.item = sent[n].item, e.text = sent[n].text,
         e.open => sent[n].open
  PROVE  SameRequests /\ sent'[n] = e /\ \A k \in Requests : k # n => sent'[k] = sent[k]
<1>1. /\ sent' \in Seq(RequestType) /\ Len(sent') = Len(sent)
      /\ \A j \in Requests : sent'[j] = IF j = n THEN e ELSE sent[j]
  BY SentTyped, ExceptSeq
<1>2. Requests' = Requests
  BY <1>1, SentTyped, LenProperties DEF Requests
<1>3. QED
  BY <1>1, <1>2 DEF SameRequests

LEMMA CloseFacts ==
  ASSUME TypeOK, NEW n \in Requests, Close(n)
  PROVE  /\ SameRequests /\ ~sent'[n].open /\ sent'[n].answer = "none"
         /\ \A k \in Requests : k # n => sent'[k] = sent[k]
<1>1. PICK e : e = [sent[n] EXCEPT !.open = FALSE, !.answer = "none"]
  OBVIOUS
<1>2. sent[n] \in RequestType
  BY SentTyped
<1>3. /\ e \in RequestType /\ e.kind = sent[n].kind /\ e.item = sent[n].item
      /\ e.text = sent[n].text /\ e.open = FALSE /\ e.answer = "none"
  BY <1>1, <1>2 DEF RequestType
<1>4. sent' = [sent EXCEPT ![n] = e]
  BY <1>1, SentTyped DEF Close
<1>5. QED
  BY <1>3, <1>4, Replaced

LEMMA AnswerFacts ==
  ASSUME TypeOK, NEW n \in Requests,
         NEW a \in {"ok", "gone", "conflict", "full", "stale"}, Answer(n, a)
  PROVE  /\ SameRequests
         /\ \A k \in Requests : /\ sent'[k].open = sent[k].open
                                /\ sent'[k].answer = sent[k].answer \/ (k = n /\ sent'[k].answer = a)
<1>1. CASE sent' = sent
  BY <1>1, SentTyped DEF SameRequests, Requests
<1>2. CASE sent' = [sent EXCEPT ![n].answer = a]
  <2>1. PICK e : e = [sent[n] EXCEPT !.answer = a]
    OBVIOUS
  <2>2. sent[n] \in RequestType
    BY SentTyped
  <2>3. /\ e \in RequestType /\ e.kind = sent[n].kind /\ e.item = sent[n].item
        /\ e.text = sent[n].text /\ e.open = sent[n].open /\ e.answer = a
    BY <2>1, <2>2 DEF RequestType
  <2>4. sent' = [sent EXCEPT ![n] = e]
    BY <1>2, <2>1
  <2>5. /\ SameRequests /\ sent'[n] = e
        /\ \A k \in Requests : k # n => sent'[k] = sent[k]
    BY <2>3, <2>4, Replaced
  <2>6. QED
    BY <2>3, <2>5
<1>3. QED
  BY <1>1, <1>2 DEF Answer

LEMMA SendFacts ==
  ASSUME TypeOK, NEW kind \in {"write", "edit", "delete"}, NEW i \in Items, NEW t \in Text,
         Send(kind, i, t)
  PROVE  /\ sent' \in Seq(RequestType) /\ Len(sent') <= MaxSends
         /\ Requests' = Requests \cup {Len(sent) + 1} /\ Len(sent) + 1 \notin Requests
         /\ \A k \in Requests : sent'[k] = sent[k]
         /\ sent'[Len(sent) + 1] = Request(kind, i, t)
<1>1. Request(kind, i, t) \in RequestType
  BY DEF Request, RequestType
<1>2. sent \in Seq(RequestType) /\ Len(sent) \in Nat /\ Requests = 1..Len(sent) /\ Len(sent) < MaxSends
  BY SentTyped DEF Send
<1>3. /\ sent' \in Seq(RequestType) /\ Len(sent') = Len(sent) + 1
      /\ \A k \in 1..Len(sent) : sent'[k] = sent[k]
      /\ sent'[Len(sent) + 1] = Request(kind, i, t)
  BY <1>1, <1>2 DEF Send
<1>4. Requests' = 1..(Len(sent) + 1)
  BY <1>3, LenProperties DEF Requests
<1>5. QED
  BY <1>2, <1>3, <1>4, BoardAssumption

---------------------------------------------------------------------------
(* Steps that leave the host as it is. *)

LEMMA HostKept ==
  ASSUME IInv, UNCHANGED <<board, tombs, stored, removed, applied>>,
         \A k \in Requests : k \in Requests' /\ sent'[k].text = sent[k].text
  PROVE  HostSound'
<1>1. BoardsSound'
  BY DEF IInv, HostSound, BoardsSound, BoardSound, OnceStored
<1>2. EditsSound'
  BY DEF IInv, HostSound, EditsSound, EditSound
<1>3. TombsSound'
  BY DEF IInv, HostSound, TombsSound, TombSound, Gone, RepliesOf, Live
<1>4. QED
  BY <1>1, <1>2, <1>3 DEF HostSound

LEMMA SameWrites == ASSUME SameRequests PROVE Writes' = Writes
BY DEF SameRequests, Writes

\* An app reads the board, or takes an answer: a composer may be emptied once nothing
\* is waiting for it.
LEMMA Settles ==
  ASSUME IInv, SameRequests, NEW m \in Members, NEW d \in DraftType,
         draft' = [draft EXCEPT ![m] = d],
         d.item = NoItem \/ (d.item = draft[m].item /\ d.text = draft[m].text),
         d = draft[m] \/ (\A k \in Writes : AuthorOf(sent[k].item) = m => ~sent'[k].open),
         \A k \in Requests : sent'[k].answer = sent[k].answer \/ sent'[k].answer = "none",
         view' \in [Members -> SUBSET Items],
         \A j \in Members : \A i \in view'[j] : OnceStored(i),
         told' \subseteq Items \X Texts, \A c \in told' : Confirmed(c[1], c[2]),
         UNCHANGED <<board, tombs, stored, removed, applied>>
  PROVE  IInv'
<1>1. /\ draft' \in [Members -> DraftType] /\ draft'[m] = d
      /\ \A k \in Members : k # m => draft'[k] = draft[k]
  BY StateTyped DEF IInv
<1>2. TypeOK'
  BY <1>1, SentTyped DEF IInv, TypeOK, SameRequests, RequestType, DraftType
<1>3. HostSound'
  BY HostKept DEF SameRequests
<1>4. RequestsSound'
  <2>1. SUFFICES ASSUME NEW n \in Requests PROVE RequestSound(n)'
    BY DEF RequestsSound, SameRequests
  <2>2. RequestSound(n)
    BY DEF IInv, AppsSound, RequestsSound
  <2>3. /\ sent'[n].kind = sent[n].kind /\ sent'[n].item = sent[n].item
        /\ sent'[n].text = sent[n].text /\ (sent'[n].open => sent[n].open)
        /\ sent'[n].answer = sent[n].answer \/ sent'[n].answer = "none"
    BY DEF SameRequests
  <2>4. ASSUME sent[n].kind = "write", sent'[n].open
        PROVE  draft'[AuthorOf(sent[n].item)] = draft[AuthorOf(sent[n].item)]
    BY <1>1, <2>4, AuthorOfRequest DEF Writes
  <2>5. AuthorOf(sent[n].item)' = AuthorOf(sent'[n].item)
    BY DEF AuthorOf
  <2>6. sent[n].kind = "write" /\ sent'[n].open =>
          draft'[AuthorOf(sent'[n].item)] =
            [item |-> sent'[n].item, text |-> sent'[n].text, sending |-> TRUE]
    BY <2>2, <2>3, <2>4 DEF RequestSound
  <2>7. QED
    BY <2>2, <2>3, <2>5, <2>6 DEF RequestSound, OnceStored, Confirmed, Deleted
<1>5. OneWrite'
  BY SameWrites DEF IInv, AppsSound, OneWrite, SameRequests, Writes, AuthorOf
<1>6. WordsSound'
  <2>1. (\A n \in Writes : Words(sent[n].item, sent[n].text))'
    BY SameWrites DEF IInv, AppsSound, WordsSound, Words, SameRequests, Writes
  <2>2. ASSUME NEW k \in Members, draft'[k].item # NoItem
        PROVE  Words(draft[k].item, draft[k].text)'
    <3>1. draft'[k].item = draft[k].item /\ draft'[k].text = draft[k].text
      BY <1>1, <2>2
    <3>2. Words(draft[k].item, draft[k].text)
      BY <2>2, <3>1 DEF IInv, AppsSound, WordsSound
    <3>3. QED
      BY <3>1, <3>2, SameWrites DEF Words, SameRequests, Writes
  <2>3. QED
    BY <2>1, <2>2 DEF WordsSound
<1>7. DraftsSound' /\ ViewsSound'
  BY <1>1 DEF IInv, AppsSound, DraftsSound, ViewsSound, OnceStored
<1>8. ConfirmedIsStored'
  BY DEF ConfirmedIsStored, Confirmed, Deleted
<1>9. QED
  BY <1>2, <1>3, <1>4, <1>5, <1>6, <1>7, <1>8 DEF IInv, AppsSound

\* The words that were not sent stay, unless their item is shown.
LEMMA UnsentFacts ==
  ASSUME TypeOK, NEW m \in Members, NEW shown
  PROVE  /\ Unsent(draft[m], shown) \in DraftType
         /\ \/ Unsent(draft[m], shown) = Blank /\ draft[m].item \in shown
            \/ /\ Unsent(draft[m], shown).item = draft[m].item
               /\ Unsent(draft[m], shown).text = draft[m].text
<1>1. draft[m] \in DraftType
  BY StateTyped
<1>2. QED
  BY <1>1 DEF Unsent, Blank, DraftType, Text

LEMMA BlankTyped == Blank \in DraftType /\ Blank.item = NoItem /\ Blank.text = NoText
BY DEF Blank, DraftType, Text

\* What is on the board was once stored, and Confirmed is what ConfirmedIsStored says.
LEMMA AllConfirmed == ASSUME IInv PROVE \A c \in told : Confirmed(c[1], c[2])
BY DEF IInv, ConfirmedIsStored, Confirmed

LEMMA KeepRefresh ==
  ASSUME IInv, NEW m \in Members, Refresh(m)
  PROVE  IInv'
<1>1. /\ view' = [view EXCEPT ![m] = Live]
      /\ draft' = [draft EXCEPT ![m] = IF draft[m].sending THEN draft[m] ELSE Unsent(draft[m], Live)]
      /\ UNCHANGED <<board, tombs, sent, told, stored, removed, applied>>
  BY DEF Refresh
<1>2. PICK d : d = IF draft[m].sending THEN draft[m] ELSE Unsent(draft[m], Live)
  OBVIOUS
<1>3. /\ d \in DraftType
      /\ d.item = NoItem \/ (d.item = draft[m].item /\ d.text = draft[m].text)
  BY <1>2, UnsentFacts, BlankTyped, StateTyped DEF IInv
<1>4. d = draft[m] \/ (\A k \in Writes : AuthorOf(sent[k].item) = m => ~sent'[k].open)
  <2>1. CASE draft[m].sending
    BY <1>2, <2>1
  <2>2. ASSUME ~draft[m].sending, NEW k \in Writes, AuthorOf(sent[k].item) = m PROVE ~sent[k].open
    <3>1. SUFFICES ASSUME sent[k].open PROVE FALSE
      OBVIOUS
    <3>2. draft[m] = [item |-> sent[k].item, text |-> sent[k].text, sending |-> TRUE]
      BY <2>2, <3>1 DEF IInv, AppsSound, RequestsSound, RequestSound, Writes
    <3>3. draft[m].sending = TRUE
      BY <3>2
    <3>4. QED
      BY <2>2, <3>3
  <2>3. QED
    BY <1>1, <2>1, <2>2
<1>5. view' \in [Members -> SUBSET Items] /\ \A j \in Members : \A i \in view'[j] : OnceStored(i)
  <2>1. /\ view \in [Members -> SUBSET Items] /\ Live \subseteq Items
        /\ \A i \in Live : OnceStored(i)
    BY StateTyped DEF IInv, Live, HostSound, BoardsSound, BoardSound
  <2>2. QED
    BY <1>1, <2>1 DEF IInv, AppsSound, ViewsSound
<1>6. SameRequests
  BY <1>1, SentTyped DEF SameRequests, Requests, IInv
<1>7. told' \subseteq Items \X Texts /\ \A c \in told' : Confirmed(c[1], c[2])
  BY <1>1, AllConfirmed DEF IInv, TypeOK
<1>8. draft' = [draft EXCEPT ![m] = d]
  BY <1>1, <1>2
<1>9. QED
  BY <1>1, <1>3, <1>4, <1>5, <1>6, <1>7, <1>8, Settles

\* A request is over: of a write, the composer waits no longer.
LEMMA Closes ==
  ASSUME IInv, NEW n \in Requests, sent[n].open, Close(n),
         NEW m \in Members, m = AuthorOf(sent[n].item), NEW d \in DraftType,
         draft' = [draft EXCEPT ![m] = d],
         d.item = NoItem \/ (d.item = draft[m].item /\ d.text = draft[m].text),
         d = draft[m] \/ sent[n].kind = "write",
         view' \in [Members -> SUBSET Items],
         \A j \in Members : \A i \in view'[j] : OnceStored(i),
         told' \subseteq Items \X Texts, \A c \in told' : Confirmed(c[1], c[2]),
         UNCHANGED <<board, tombs, stored, removed, applied>>
  PROVE  IInv'
<1>1. /\ SameRequests /\ ~sent'[n].open /\ sent'[n].answer = "none"
      /\ \A k \in Requests : k # n => sent'[k] = sent[k]
  BY CloseFacts DEF IInv
<1>2. \A k \in Requests : sent'[k].answer = sent[k].answer \/ sent'[k].answer = "none"
  BY <1>1
<1>3. ASSUME sent[n].kind = "write", NEW k \in Writes, AuthorOf(sent[k].item) = m
      PROVE  ~sent'[k].open
  BY <1>1, <1>3 DEF IInv, AppsSound, OneWrite, Writes
<1>4. QED
  BY <1>1, <1>2, <1>3, Settles

LEMMA DraftSame ==
  ASSUME TypeOK, NEW m \in Members
  PROVE  draft = [draft EXCEPT ![m] = draft[m]] /\ draft[m] \in DraftType
BY StateTyped

LEMMA ViewsOnceStored ==
  ASSUME IInv
  PROVE  view \in [Members -> SUBSET Items] /\ \A j \in Members : \A i \in view[j] : OnceStored(i)
BY StateTyped DEF IInv, AppsSound, ViewsSound

LEMMA KeepReceiveWrite ==
  ASSUME IInv, NEW n \in Requests, ReceiveWrite(n)
  PROVE  IInv'
<1>1. PICK m \in Members : m = AuthorOf(sent[n].item)
  BY AuthorOfRequest
<1>2. PICK d : d = IF Ends(sent[n].answer) THEN Blank ELSE Unsent(draft[m], view[m])
  OBVIOUS
<1>3. /\ sent[n].open /\ sent[n].kind = "write" /\ Close(n)
      /\ view' = [view EXCEPT ![m] = IF sent[n].answer = "ok" THEN view[m] \cup {sent[n].item}
                                                              ELSE view[m]]
      /\ draft' = [draft EXCEPT ![m] = d]
      /\ told' = IF sent[n].answer = "ok" THEN told \cup {<<sent[n].item, sent[n].text>>} ELSE told
      /\ UNCHANGED <<board, tombs, stored, removed, applied>>
  BY <1>1, <1>2 DEF ReceiveWrite
<1>4. /\ d \in DraftType
      /\ d.item = NoItem \/ (d.item = draft[m].item /\ d.text = draft[m].text)
  BY <1>2, UnsentFacts, BlankTyped DEF IInv
<1>5. /\ sent[n].item \in Items /\ sent[n].text \in Texts
      /\ sent[n].answer = "ok" =>
           Confirmed(sent[n].item, sent[n].text) /\ <<sent[n].item, sent[n].text>> \in stored
  BY <1>3, RequestTyped DEF IInv, AppsSound, RequestsSound, RequestSound
<1>6. sent[n].answer = "ok" => OnceStored(sent[n].item)
  BY <1>5 DEF OnceStored
<1>7. view' \in [Members -> SUBSET Items] /\ \A j \in Members : \A i \in view'[j] : OnceStored(i)
  BY <1>3, <1>5, <1>6, ViewsOnceStored
<1>8. told' \subseteq Items \X Texts /\ \A c \in told' : Confirmed(c[1], c[2])
  BY <1>3, <1>5, AllConfirmed DEF IInv, TypeOK
<1>9. QED
  BY <1>1, <1>3, <1>4, <1>7, <1>8, Closes

LEMMA KeepReceiveDelete ==
  ASSUME IInv, NEW n \in Requests, ReceiveDelete(n)
  PROVE  IInv'
<1>1. PICK m \in Members : m = AuthorOf(sent[n].item)
  BY AuthorOfRequest
<1>2. /\ sent[n].open /\ Close(n) /\ view' = [view EXCEPT ![m] = view[m] \ {sent[n].item}]
      /\ UNCHANGED <<board, tombs, draft, told, stored, removed, applied>>
  BY <1>1 DEF ReceiveDelete
<1>3. view' \in [Members -> SUBSET Items] /\ \A j \in Members : \A i \in view'[j] : OnceStored(i)
  BY <1>2, ViewsOnceStored
<1>4. told' \subseteq Items \X Texts /\ \A c \in told' : Confirmed(c[1], c[2])
  BY <1>2, AllConfirmed DEF IInv, TypeOK
<1>5. draft' = [draft EXCEPT ![m] = draft[m]] /\ draft[m] \in DraftType
  BY <1>2, DraftSame DEF IInv
<1>6. QED
  BY <1>1, <1>2, <1>3, <1>4, <1>5, Closes

LEMMA KeepReceiveEdit ==
  ASSUME IInv, NEW n \in Requests, ReceiveEdit(n)
  PROVE  IInv'
<1>1. PICK m \in Members : m = AuthorOf(sent[n].item)
  BY AuthorOfRequest
<1>2. /\ sent[n].open /\ Close(n)
      /\ UNCHANGED <<board, tombs, draft, view, told, stored, removed, applied>>
  BY DEF ReceiveEdit
<1>3. view' \in [Members -> SUBSET Items] /\ \A j \in Members : \A i \in view'[j] : OnceStored(i)
  BY <1>2, ViewsOnceStored
<1>4. told' \subseteq Items \X Texts /\ \A c \in told' : Confirmed(c[1], c[2])
  BY <1>2, AllConfirmed DEF IInv, TypeOK
<1>5. draft' = [draft EXCEPT ![m] = draft[m]] /\ draft[m] \in DraftType
  BY <1>2, DraftSame DEF IInv
<1>6. QED
  BY <1>1, <1>2, <1>3, <1>4, <1>5, Closes

LEMMA KeepGiveUp ==
  ASSUME IInv, NEW n \in Requests, GiveUp(n)
  PROVE  IInv'
<1>1. PICK m \in Members : m = AuthorOf(sent[n].item)
  BY AuthorOfRequest
<1>2. PICK d : d = IF sent[n].kind = "write" THEN Unsent(draft[m], view[m]) ELSE draft[m]
  OBVIOUS
<1>3. /\ sent[n].open /\ Close(n)
      /\ UNCHANGED <<board, tombs, view, told, stored, removed, applied>>
  BY DEF GiveUp
<1>4. draft' = [draft EXCEPT ![m] = d]
  BY <1>1, <1>2, DraftSame DEF GiveUp, IInv
<1>5. /\ d \in DraftType
      /\ d.item = NoItem \/ (d.item = draft[m].item /\ d.text = draft[m].text)
      /\ d = draft[m] \/ sent[n].kind = "write"
  BY <1>2, UnsentFacts, BlankTyped, DraftSame DEF IInv
<1>6. view' \in [Members -> SUBSET Items] /\ \A j \in Members : \A i \in view'[j] : OnceStored(i)
  BY <1>3, ViewsOnceStored
<1>7. told' \subseteq Items \X Texts /\ \A c \in told' : Confirmed(c[1], c[2])
  BY <1>3, AllConfirmed DEF IInv, TypeOK
<1>8. QED
  BY <1>1, <1>3, <1>4, <1>5, <1>6, <1>7, Closes

---------------------------------------------------------------------------
(* A request is signed. *)

\* An open write keeps its author's composer busy.
LEMMA BusyComposer ==
  ASSUME IInv, NEW n \in Requests, sent[n].kind = "write", sent[n].open
  PROVE  /\ draft[AuthorOf(sent[n].item)] =
              [item |-> sent[n].item, text |-> sent[n].text, sending |-> TRUE]
         /\ draft[AuthorOf(sent[n].item)].sending
<1>1. draft[AuthorOf(sent[n].item)] =
        [item |-> sent[n].item, text |-> sent[n].text, sending |-> TRUE]
  BY DEF IInv, AppsSound, RequestsSound, RequestSound
<1>2. QED
  BY <1>1

LEMMA Sends ==
  ASSUME IInv, NEW m \in Members, NEW i \in Ids[m], NEW kind \in {"write", "edit", "delete"},
         NEW t \in Text, kind # "delete" => t \in Texts, Send(kind, i, t),
         NEW d \in DraftType, draft' = [draft EXCEPT ![m] = d],
         kind # "write" => d = draft[m],
         kind = "write" => /\ d.item = i /\ d.text = t
                           /\ d = [item |-> i, text |-> t, sending |-> TRUE]
                           /\ i \in Replies => OnceStored(On[i])
                           /\ Words(i, t) /\ ~draft[m].sending,
         UNCHANGED <<board, tombs, view, told, stored, removed, applied>>
  PROVE  IInv'
<1>1. /\ draft' \in [Members -> DraftType] /\ draft'[m] = d
      /\ \A k \in Members : k # m => draft'[k] = draft[k]
  BY StateTyped DEF IInv
<1>2. PICK new \in Nat : new = Len(sent) + 1
  BY SentTyped DEF IInv
<1>3. /\ sent' \in Seq(RequestType) /\ Len(sent') <= MaxSends
      /\ Requests' = Requests \cup {new} /\ new \notin Requests
      /\ \A k \in Requests : sent'[k] = sent[k]
      /\ sent'[new] = Request(kind, i, t)
  BY <1>2, SendFacts, AuthorIs DEF IInv
<1>4. /\ sent'[new].kind = kind /\ sent'[new].item = i /\ sent'[new].text = t
      /\ sent'[new].open = TRUE /\ sent'[new].answer = "none"
  BY <1>3 DEF Request
<1>5. TypeOK'
  BY <1>1, <1>3 DEF IInv, TypeOK, RequestType, DraftType
<1>6. HostSound'
  BY <1>3, HostKept
<1>7. RequestsSound'
  <2>1. ASSUME NEW n \in Requests PROVE RequestSound(n)'
    <3>1. RequestSound(n) /\ sent'[n] = sent[n]
      BY <1>3 DEF IInv, AppsSound, RequestsSound
    <3>2. ASSUME sent[n].kind = "write", sent[n].open
          PROVE  draft'[AuthorOf(sent[n].item)] = draft[AuthorOf(sent[n].item)]
      BY <1>1, <3>2, BusyComposer, AuthorOfRequest
    <3>3. sent[n].kind = "write" /\ sent[n].open =>
            draft'[AuthorOf(sent[n].item)] =
              [item |-> sent[n].item, text |-> sent[n].text, sending |-> TRUE]
      BY <3>2, BusyComposer
    <3>4. QED
      BY <3>1, <3>3 DEF RequestSound, OnceStored, Confirmed, Deleted, AuthorOf
  <2>2. RequestSound(new)'
    <3>1. AuthorOf(i) = m
      BY AuthorIs
    <3>2. QED
      BY <1>1, <1>4, <3>1 DEF RequestSound, OnceStored, AuthorOf
  <2>3. QED
    BY <1>3, <2>1, <2>2 DEF RequestsSound
<1>8. OneWrite'
  <2>1. Writes' = IF kind = "write" THEN Writes \cup {new} ELSE Writes
    BY <1>3, <1>4 DEF Writes
  <2>2. ASSUME kind = "write", NEW n \in Writes, sent[n].open
        PROVE  AuthorOf(sent[n].item) # m
    BY <2>2, BusyComposer DEF Writes
  <2>3. AuthorOf(i) = m
    BY AuthorIs
  <2>4. SUFFICES ASSUME NEW n \in Writes', NEW k \in Writes', sent'[n].open, sent'[k].open,
                        AuthorOf(sent'[n].item) = AuthorOf(sent'[k].item)
                 PROVE  n = k
    BY DEF OneWrite, AuthorOf
  <2>5. CASE n \in Writes /\ k \in Writes
    <3>1. sent'[n] = sent[n] /\ sent'[k] = sent[k]
      BY <1>3, <2>5 DEF Writes
    <3>2. QED
      BY <2>4, <2>5, <3>1 DEF IInv, AppsSound, OneWrite
  <2>6. ASSUME NEW j \in Writes, sent'[j].open, kind = "write"
        PROVE  AuthorOf(sent'[j].item) # AuthorOf(sent'[new].item)
    <3>1. sent'[j] = sent[j]
      BY <1>3 DEF Writes
    <3>2. QED
      BY <1>4, <2>2, <2>3, <2>6, <3>1
  <2>7. QED
    BY <2>1, <2>4, <2>5, <2>6
<1>9. WordsSound'
  <2>1. \A n \in Writes' : \/ n \in Writes /\ sent'[n] = sent[n]
                           \/ kind = "write" /\ sent'[n].item = i /\ sent'[n].text = t
    BY <1>3, <1>4 DEF Writes
  <2>2. (\A n \in Writes : Words(sent[n].item, sent[n].text))'
    BY <2>1 DEF IInv, AppsSound, WordsSound, Words
  <2>3. ASSUME NEW k \in Members, draft'[k].item # NoItem
        PROVE  Words(draft[k].item, draft[k].text)'
    <3>1. CASE draft'[k] = draft[k]
      <4>1. Words(draft[k].item, draft[k].text)
        BY <2>3, <3>1 DEF IInv, AppsSound, WordsSound
      <4>2. kind = "write" /\ draft[k].item = i => k = m
        BY <2>3, <3>1, BoardAssumption DEF IInv, AppsSound, DraftsSound
      <4>3. kind = "write" /\ k = m => draft[k].item = i /\ draft[k].text = t
        BY <1>1, <3>1
      <4>4. QED
        BY <2>1, <3>1, <4>1, <4>2, <4>3 DEF Words
    <3>2. CASE draft'[k] # draft[k]
      <4>1. /\ kind = "write" /\ draft'[k].item = i /\ draft'[k].text = t
        BY <1>1, <3>2
      <4>2. QED
        BY <2>1, <4>1 DEF Words
    <3>3. QED
      BY <3>1, <3>2
  <2>4. QED
    BY <2>2, <2>3 DEF WordsSound
<1>10. DraftsSound' /\ ViewsSound'
  BY <1>1 DEF IInv, AppsSound, DraftsSound, ViewsSound, OnceStored
<1>11. ConfirmedIsStored'
  BY DEF IInv, ConfirmedIsStored, Deleted
<1>12. QED
  BY <1>5, <1>6, <1>7, <1>8, <1>9, <1>10, <1>11 DEF IInv, AppsSound

LEMMA KeepSubmit ==
  ASSUME IInv, NEW m \in Members, NEW t \in Texts, Submit(m, t)
  PROVE  IInv'
<1>1. PICK i \in IF Composed(m, t).item = NoItem THEN Fresh(m) ELSE {Composed(m, t).item} :
        /\ CanAnswer(m, i) /\ Send("write", i, t)
        /\ draft' = [draft EXCEPT ![m] = [item |-> i, text |-> t, sending |-> TRUE]]
  BY DEF Submit
<1>2. ~draft[m].sending /\ UNCHANGED <<board, tombs, view, told, stored, removed, applied>>
  BY DEF Submit
<1>3. draft[m] \in DraftType
  BY StateTyped DEF IInv
<1>4. i \in Ids[m] /\ Words(i, t)
  <2>1. CASE draft[m].text = t /\ draft[m].item # NoItem
    <3>1. i = draft[m].item
      BY <1>1, <2>1 DEF Composed
    <3>2. QED
      BY <2>1, <3>1 DEF IInv, AppsSound, WordsSound, DraftsSound
  <2>2. CASE ~(draft[m].text = t /\ draft[m].item # NoItem)
    <3>1. i \in Fresh(m)
      BY <1>1, <1>3, <2>2 DEF Composed, Retyped, DraftType
    <3>2. QED
      BY <3>1 DEF Fresh, Words, Writes
  <2>3. QED
    BY <2>1, <2>2
<1>5. i \in Replies => OnceStored(On[i])
  BY <1>1, ViewsOnceStored DEF CanAnswer, Shown
<1>6. PICK d : d = [item |-> i, text |-> t, sending |-> TRUE]
  OBVIOUS
<1>7. d \in DraftType /\ d.item = i /\ d.text = t
  BY <1>4, <1>6, AuthorIs DEF DraftType, Text
<1>8. t \in Text
  BY DEF Text
<1>9. QED
  BY <1>1, <1>2, <1>4, <1>5, <1>6, <1>7, <1>8, Sends

LEMMA KeepEditOwn ==
  ASSUME IInv, NEW m \in Members, NEW i \in Items, NEW t \in Texts, EditOwn(m, i, t)
  PROVE  IInv'
<1>1. /\ i \in Ids[m] /\ Send("edit", i, t) /\ t \in Text
      /\ UNCHANGED <<board, tombs, draft, view, told, stored, removed, applied>>
  BY DEF EditOwn, Own, Text
<1>2. draft' = [draft EXCEPT ![m] = draft[m]] /\ draft[m] \in DraftType
  BY <1>1, DraftSame DEF IInv
<1>3. QED
  BY <1>1, <1>2, Sends

LEMMA KeepDeleteOwn ==
  ASSUME IInv, NEW m \in Members, NEW i \in Items, DeleteOwn(m, i)
  PROVE  IInv'
<1>1. /\ i \in Ids[m] /\ Send("delete", i, NoText) /\ NoText \in Text
      /\ UNCHANGED <<board, tombs, draft, view, told, stored, removed, applied>>
  BY DEF DeleteOwn, Own, Text
<1>2. draft' = [draft EXCEPT ![m] = draft[m]] /\ draft[m] \in DraftType
  BY <1>1, DraftSame DEF IInv
<1>3. QED
  BY <1>1, <1>2, Sends

---------------------------------------------------------------------------
(* The host settles a request. *)

\* What the host confirmed or deleted before stays so, and what it answers is so.
LEMMA Handled ==
  ASSUME IInv, NEW n \in Requests, NEW i \in Items, NEW t \in Text,
         sent[n].item = i, sent[n].text = t,
         NEW a \in {"ok", "gone", "conflict", "full", "stale"}, Answer(n, a),
         TypeOK', HostSound', UNCHANGED <<draft, view, told>>, stored \subseteq stored',
         \A c \in stored' : c \in stored \/ (sent[n].kind = "write" /\ c = <<i, t>>),
         \A j \in Items : Deleted(j) => Deleted(j)',
         \A j \in Items, u \in Text : Confirmed(j, u) => Confirmed(j, u)',
         sent[n].kind = "write" /\ a = "ok" => Confirmed(i, t)' /\ <<i, t>> \in stored',
         sent[n].kind = "write" /\ a = "gone" => Deleted(i)'
  PROVE  IInv'
<1>1. /\ SameRequests
      /\ \A k \in Requests : /\ sent'[k].open = sent[k].open
                             /\ sent'[k].answer = sent[k].answer \/ (k = n /\ sent'[k].answer = a)
  BY AnswerFacts DEF IInv
<1>2. \A j \in Items : OnceStored(j) => OnceStored(j)'
  BY DEF OnceStored
<1>3. RequestsSound'
  <2>1. SUFFICES ASSUME NEW k \in Requests PROVE RequestSound(k)'
    BY <1>1 DEF RequestsSound, SameRequests
  <2>2. PICK j \in Items, u \in Text, ans \in {"none", "ok", "gone", "conflict", "full", "stale"} :
          j = sent[k].item /\ u = sent[k].text /\ ans = sent[k].answer
    BY RequestTyped DEF IInv
  <2>3. /\ sent'[k].kind = sent[k].kind /\ sent'[k].item = j
        /\ sent'[k].text = u /\ sent'[k].open = sent[k].open
        /\ sent'[k].answer = ans \/ (k = n /\ sent'[k].answer = a)
    BY <1>1, <2>2 DEF SameRequests
  <2>4. RequestSound(k)
    BY DEF IInv, AppsSound, RequestsSound
  <2>5. /\ \E m \in Members : j \in Ids[m]
        /\ sent[k].kind # "delete" => u \in Texts
        /\ sent[k].kind = "write" /\ j \in Replies => OnceStored(On[j])'
    BY <1>2, <2>2, <2>4, BoardAssumption DEF RequestSound, Items
  <2>6. sent[k].kind = "write" /\ sent'[k].open
          => draft'[AuthorOf(j)] = [item |-> j, text |-> u, sending |-> TRUE]
    BY <2>2, <2>3, BusyComposer
  <2>7. sent[k].kind = "write" /\ sent'[k].answer = "ok" => Confirmed(j, u)' /\ <<j, u>> \in stored'
    BY <2>2, <2>3, <2>4 DEF RequestSound
  <2>8. sent[k].kind = "write" /\ sent'[k].answer = "gone" => Deleted(j)'
    BY <2>2, <2>3, <2>4 DEF RequestSound
  <2>9. QED
    BY <2>3, <2>5, <2>6, <2>7, <2>8 DEF RequestSound, OnceStored, Confirmed, Deleted, AuthorOf
<1>4. OneWrite'
  <2>1. SUFFICES ASSUME NEW k \in Writes', NEW l \in Writes', sent'[k].open, sent'[l].open,
                        AuthorOf(sent'[k].item) = AuthorOf(sent'[l].item)
                 PROVE  k = l
    BY DEF OneWrite, AuthorOf
  <2>2. k \in Writes /\ l \in Writes
    BY <1>1, SameWrites
  <2>3. QED
    BY <1>1, <2>1, <2>2 DEF IInv, AppsSound, OneWrite, SameRequests, Writes
<1>5. WordsSound'
  <2>1. \A u \in Texts, j \in Items :
          <<j, u>> \in stored' => <<j, u>> \in stored \/ (n \in Writes /\ j = i /\ u = t)
    BY DEF Writes
  <2>2. \A k \in Writes : sent'[k].item = sent[k].item /\ sent'[k].text = sent[k].text
                          /\ sent[k].item \in Items
    BY <1>1, RequestTyped DEF SameRequests, Writes, IInv
  <2>3. (\A k \in Writes : Words(sent[k].item, sent[k].text))'
    <3>1. \A k \in Writes : Words(sent[k].item, sent[k].text)
      BY DEF IInv, AppsSound, WordsSound
    <3>2. QED
      BY <1>1, <2>1, <2>2, <3>1, SameWrites DEF Words
  <2>4. ASSUME NEW k \in Members, draft'[k].item # NoItem
        PROVE  Words(draft[k].item, draft[k].text)'
    <3>1. Words(draft[k].item, draft[k].text) /\ draft[k].item \in Items
      BY <2>4, StateTyped DEF IInv, AppsSound, WordsSound, DraftType
    <3>2. QED
      BY <1>1, <2>1, <2>2, <3>1, SameWrites DEF Words
  <2>5. QED
    BY <2>3, <2>4 DEF WordsSound
<1>6. DraftsSound'
  BY DEF IInv, AppsSound, DraftsSound
<1>7. ViewsSound'
  BY <1>2, StateTyped DEF IInv, AppsSound, ViewsSound
<1>8. ConfirmedIsStored'
  <2>1. \A c \in told : c[1] \in Items /\ c[2] \in Text
    BY DEF IInv, TypeOK, Text
  <2>2. \A c \in told : Confirmed(c[1], c[2])
    BY AllConfirmed
  <2>3. \A j \in Items, u \in Text : <<j, u>> \in told => Confirmed(j, u)'
    BY <2>2
  <2>4. \A c \in told : c = <<c[1], c[2]>>
    BY DEF IInv, TypeOK
  <2>5. QED
    BY <2>1, <2>3, <2>4 DEF ConfirmedIsStored, Confirmed, Deleted
<1>9. QED
  BY <1>3, <1>4, <1>5, <1>6, <1>7, <1>8 DEF IInv, AppsSound

\* A request that only gets an answer.
LEMMA OnlyAnswered ==
  ASSUME IInv, NEW n \in Requests, NEW i \in Items, NEW t \in Text,
         sent[n].item = i, sent[n].text = t,
         NEW a \in {"ok", "gone", "conflict", "full", "stale"}, Answer(n, a),
         UNCHANGED <<board, tombs, draft, view, told, stored, removed, applied>>,
         sent[n].kind = "write" /\ a = "ok" => Confirmed(i, t) /\ <<i, t>> \in stored,
         sent[n].kind = "write" /\ a = "gone" => Deleted(i)
  PROVE  IInv'
<1>1. SameRequests
  BY AnswerFacts DEF IInv
<1>2. TypeOK'
  BY <1>1 DEF IInv, TypeOK, SameRequests, RequestType
<1>3. HostSound'
  BY <1>1, HostKept DEF SameRequests
<1>4. \A j \in Items, u \in Text : (Deleted(j) <=> Deleted(j)') /\ (Confirmed(j, u) <=> Confirmed(j, u)')
  BY DEF Deleted, Confirmed
<1>5. QED
  BY <1>2, <1>3, <1>4, Handled

LEMMA AnswerTyped ==
  ASSUME TypeOK, NEW n \in Requests, NEW a \in {"ok", "gone", "conflict", "full", "stale"},
         Answer(n, a),
         board' \in [Items -> RecordType], stored' \subseteq Items \X Texts, removed' \subseteq Items,
         applied' \in [Items -> SUBSET (1..MaxSends)],
         \A p \in Posts : tombs'[p] \in Seq(RepliesOf(p)) /\ Len(tombs'[p]) <= ReplyLimit,
         UNCHANGED <<draft, view, told>>
  PROVE  TypeOK'
<1>1. SameRequests
  BY AnswerFacts
<1>2. QED
  BY <1>1 DEF TypeOK, SameRequests, RequestType, RecordType, RepliesOf

\* The words of a live item that nobody edited are those every write of it has.
LEMMA StoredWords ==
  ASSUME IInv, NEW n \in Requests, NEW i \in Items, NEW t \in Text,
         sent[n].item = i, sent[n].text = t, sent[n].kind = "write", board[i].live
  PROVE  <<i, t>> \in stored /\ (board[i].clock = 0 => board[i].text = t)
<1>1. Words(i, t) /\ t \in Texts
  BY DEF IInv, AppsSound, WordsSound, Writes, RequestsSound, RequestSound
<1>2. OnceStored(i) /\ (board[i].clock = 0 => <<i, board[i].text>> \in stored)
  BY DEF IInv, HostSound, BoardsSound, BoardSound
<1>3. <<i, t>> \in stored
  BY <1>1, <1>2 DEF Words, OnceStored
<1>4. ASSUME board[i].clock = 0 PROVE board[i].text = t
  <2>1. <<i, board[i].text>> \in stored
    BY <1>2, <1>4
  <2>2. board[i].text \in Texts
    BY <2>1 DEF IInv, TypeOK
  <2>3. QED
    BY <1>1, <2>1, <2>2 DEF Words
<1>5. QED
  BY <1>3, <1>4

LEMMA OnePost == /\ \A r \in Replies : On[r] \in Posts /\ r \notin Posts /\ r \in Items
                 /\ \A p \in Posts : p \notin Replies /\ p \in Items
BY BoardAssumption DEF Items

\* An item that is not there is stored with the words of the request.
LEMMA Stores ==
  ASSUME IInv, NEW n \in Requests, NEW i \in Items, NEW t \in Text,
         sent[n].item = i, sent[n].text = t, sent[n].kind = "write", Answer(n, "ok"),
         ~board[i].live, Stored(i, t), UNCHANGED <<tombs, draft, view, told, removed>>,
         i \in Replies => /\ board[On[i]].live
                          /\ \A k \in DOMAIN tombs[On[i]] : tombs[On[i]][k] # i
  PROVE  IInv'
<1>1. PICK new \in RecordType : new = Posted(t) /\ new.live = TRUE /\ new.text = t /\ new.clock = 0
  BY RecordsTyped
<1>2. t \in Texts
  BY DEF IInv, AppsSound, RequestsSound, RequestSound
<1>3. /\ board' \in [Items -> RecordType] /\ board'[i] = new
      /\ \A j \in Items : j # i => board'[j] = board[j]
      /\ applied' \in [Items -> SUBSET (1..MaxSends)] /\ applied'[i] = {}
      /\ \A j \in Items : j # i => applied'[j] = applied[j]
      /\ stored' = stored \cup {<<i, t>>}
  BY <1>1, StateTyped DEF Stored, IInv
<1>4. TypeOK'
  <2>1. \A p \in Posts : tombs'[p] \in Seq(RepliesOf(p)) /\ Len(tombs'[p]) <= ReplyLimit
    BY DEF IInv, TypeOK
  <2>2. stored' \subseteq Items \X Texts /\ removed' \subseteq Items
    BY <1>2, <1>3 DEF IInv, TypeOK
  <2>3. QED
    BY <1>3, <2>1, <2>2, AnswerTyped DEF IInv
<1>5. SameRequests
  BY AnswerFacts DEF IInv
<1>6. BoardsSound'
  <2>1. SUFFICES ASSUME NEW j \in Items PROVE BoardSound(j)'
    BY DEF BoardsSound
  <2>2. BoardSound(j)
    BY DEF IInv, HostSound, BoardsSound
  <2>3. OnceStored(j)' <=> OnceStored(j) \/ j = i
    BY <1>2, <1>3 DEF OnceStored
  <2>4. j \in Replies /\ board'[j].live => board'[On[j]].live
    <3>1. SUFFICES ASSUME j \in Replies, board'[j].live PROVE board[On[j]].live \/ On[j] = i
      BY <1>1, <1>3, OnePost
    <3>2. CASE j = i
      BY <3>1, <3>2
    <3>3. CASE j # i
      BY <1>3, <2>2, <3>1, <3>3 DEF BoardSound
    <3>4. QED
      BY <3>2, <3>3
  <2>5. board'[j].live /\ board'[j].clock = 0 => <<j, board'[j].text>> \in stored'
    BY <1>1, <1>3, <2>2 DEF BoardSound
  <2>6. QED
    BY <1>1, <1>3, <2>2, <2>3, <2>4, <2>5 DEF BoardSound
<1>7. EditsSound'
  <2>1. SUFFICES ASSUME NEW j \in Items PROVE EditSound(j)'
    BY DEF EditsSound
  <2>2. CASE j = i
    BY <1>1, <1>3, <2>2 DEF EditSound
  <2>3. CASE j # i
    BY <1>3, <1>5, <2>3 DEF IInv, HostSound, EditsSound, EditSound, SameRequests
  <2>4. QED
    BY <2>2, <2>3
<1>8. TombsSound'
  <2>1. SUFFICES ASSUME NEW p \in Posts PROVE TombSound(p)'
    BY DEF IInv, HostSound, TombsSound
  <2>2. TombSound(p) /\ Gone(p)' = Gone(p)
    BY DEF IInv, HostSound, TombsSound, Gone, RepliesOf
  <2>3. Live' = Live \cup {i}
    BY <1>1, <1>3 DEF Live
  <2>4. ~board'[p].live => ~board[p].live
    BY <1>1, <1>3, OnePost
  <2>5. i \in Gone(p) => i \in Replies /\ On[i] = p
    BY DEF Gone, RepliesOf
  <2>6. QED
    BY <2>2, <2>3, <2>4, <2>5 DEF TombSound
<1>9. \A j \in Items : Deleted(j) => Deleted(j)'
  BY DEF Deleted
<1>10. /\ \A j \in Items, u \in Text : Confirmed(j, u) => Confirmed(j, u)'
       /\ Confirmed(i, t)'
  BY <1>1, <1>3 DEF Confirmed, Deleted
<1>11. HostSound'
  BY <1>6, <1>7, <1>8 DEF HostSound
<1>12. stored \subseteq stored' /\ <<i, t>> \in stored' /\ \A c \in stored' : c \in stored \/ c = <<i, t>>
  BY <1>3
<1>13. QED
  BY <1>4, <1>9, <1>10, <1>11, <1>12, Handled

LEMMA RequestItem ==
  ASSUME IInv, NEW n \in Requests
  PROVE  \E i \in Items, t \in Text : sent[n].item = i /\ sent[n].text = t
BY RequestTyped DEF IInv

LEMMA KeepPost ==
  ASSUME IInv, NEW n \in Requests, HandlePost(n)
  PROVE  IInv'
<1>1. PICK i \in Items, t \in Text : sent[n].item = i /\ sent[n].text = t
  BY RequestItem
<1>2. /\ sent[n].kind = "write" /\ i \in Posts /\ Answer(n, "ok")
      /\ IF board[i].live THEN UNCHANGED <<board, stored, applied>> ELSE Stored(i, t)
      /\ UNCHANGED <<tombs, draft, view, told, removed>>
  BY <1>1 DEF HandlePost
<1>3. CASE board[i].live
  <2>1. <<i, t>> \in stored /\ (board[i].clock = 0 => board[i].text = t)
    BY <1>1, <1>2, <1>3, StoredWords
  <2>2. board[i].clock \in Nat
    BY StateTyped, BoardAssumption DEF IInv, RecordType
  <2>3. Confirmed(i, t)
    BY <1>3, <2>1, <2>2 DEF Confirmed
  <2>4. QED
    BY <1>1, <1>2, <1>3, <2>1, <2>3, OnlyAnswered
<1>4. CASE ~board[i].live
  BY <1>1, <1>2, <1>4, Stores, OnePost
<1>5. QED
  BY <1>3, <1>4

\* A reply or its post was deleted when the host says so.
LEMMA GoneIsDeleted ==
  ASSUME IInv, NEW n \in Requests, NEW i \in Replies,
         sent[n].item = i, sent[n].kind = "write",
         ~board[On[i]].live \/ \E k \in DOMAIN tombs[On[i]] : tombs[On[i]][k] = i
  PROVE  Deleted(i)
<1>1. CASE ~board[On[i]].live
  <2>1. OnceStored(On[i])
    BY DEF IInv, AppsSound, RequestsSound, RequestSound
  <2>2. On[i] \in removed
    BY <1>1, <2>1, OnePost DEF IInv, HostSound, BoardsSound, BoardSound
  <2>3. QED
    BY <2>2 DEF Deleted
<1>2. CASE \E k \in DOMAIN tombs[On[i]] : tombs[On[i]][k] = i
  BY <1>2, OnePost DEF IInv, HostSound, TombsSound, TombSound, Gone, Deleted
<1>3. QED
  BY <1>1, <1>2

LEMMA KeepReply ==
  ASSUME IInv, NEW n \in Requests, HandleReply(n)
  PROVE  IInv'
<1>1. PICK i \in Items, t \in Text : sent[n].item = i /\ sent[n].text = t
  BY RequestItem
<1>2. PICK a \in {"ok", "gone", "conflict", "full"} : a = Verdict(i, t)
  BY DEF Verdict
<1>3. /\ sent[n].kind = "write" /\ i \in Replies /\ Answer(n, a)
      /\ IF a = "ok" /\ ~board[i].live THEN Stored(i, t) ELSE UNCHANGED <<board, stored, applied>>
      /\ UNCHANGED <<tombs, draft, view, told, removed>>
  BY <1>1, <1>2 DEF HandleReply
<1>4. CASE a = "ok" /\ ~board[i].live
  <2>1. board[On[i]].live /\ \A k \in DOMAIN tombs[On[i]] : tombs[On[i]][k] # i
    BY <1>2, <1>4 DEF Verdict
  <2>2. QED
    BY <1>1, <1>3, <1>4, <2>1, Stores
<1>5. CASE a = "ok" /\ board[i].live
  <2>1. SameReply(i, t)
    BY <1>2, <1>5 DEF Verdict
  <2>2. Confirmed(i, t) /\ <<i, t>> \in stored
    BY <1>1, <1>3, <1>5, <2>1, StoredWords DEF SameReply, Confirmed
  <2>3. QED
    BY <1>1, <1>3, <1>5, <2>2, OnlyAnswered
<1>6. CASE a # "ok"
  <2>1. a = "gone" => Deleted(i)
    <3>1. SUFFICES ASSUME a = "gone" PROVE Deleted(i)
      OBVIOUS
    <3>2. ~board[On[i]].live \/ \E k \in DOMAIN tombs[On[i]] : tombs[On[i]][k] = i
      BY <1>2, <3>1 DEF Verdict
    <3>3. QED
      BY <1>1, <1>3, <3>2, GoneIsDeleted
  <2>2. QED
    BY <1>1, <1>3, <1>6, <2>1, OnlyAnswered
<1>7. QED
  BY <1>4, <1>5, <1>6

\* An edit that is newer than the last one applied is applied, and is the last.
LEMMA KeepEdit ==
  ASSUME IInv, NEW n \in Requests, HandleEdit(n)
  PROVE  IInv'
<1>1. PICK i \in Items, t \in Text : sent[n].item = i /\ sent[n].text = t
  BY RequestItem
<1>2. sent[n].kind = "edit" /\ UNCHANGED <<tombs, draft, view, told, stored, removed>>
  BY DEF HandleEdit
<1>3. CASE ~board[i].live \/ n <= board[i].clock
  <2>1. PICK a \in {"stale", "gone"} : Answer(n, a)
    BY <1>1, <1>3 DEF HandleEdit
  <2>2. UNCHANGED <<board, applied>>
    BY <1>1, <1>3 DEF HandleEdit
  <2>3. QED
    BY <1>1, <1>2, <2>1, <2>2, OnlyAnswered
<1>4. CASE board[i].live /\ ~(n <= board[i].clock)
  <2>1. /\ Answer(n, "ok") /\ board' = [board EXCEPT ![i] = Edited(i, t, n)]
        /\ applied' = [applied EXCEPT ![i] = applied[i] \cup {n}]
    BY <1>1, <1>4 DEF HandleEdit
  <2>2. n \in 1..MaxSends /\ n > 0 /\ board[i] \in RecordType /\ n \in Nat /\ board[i].clock \in Nat
    BY RequestTyped, StateTyped, BoardAssumption DEF IInv, RecordType
  <2>3. PICK new : new = Edited(i, t, n)
    OBVIOUS
  <2>4. new \in RecordType /\ new.live = TRUE /\ new.text = t /\ new.clock = n
    <3>1. PICK old \in RecordType : old = board[i] /\ old.live = TRUE
      BY <1>4, <2>2 DEF RecordType
    <3>2. new = [old EXCEPT !.text = t, !.clock = n]
      BY <2>3, <3>1 DEF Edited
    <3>3. n \in 0..MaxSends
      BY <2>2, BoardAssumption
    <3>4. QED
      BY <3>1, <3>2, <3>3 DEF RecordType
  <2>5. /\ board' \in [Items -> RecordType] /\ board'[i] = new
        /\ \A j \in Items : j # i => board'[j] = board[j]
        /\ applied' \in [Items -> SUBSET (1..MaxSends)] /\ applied'[i] = applied[i] \cup {n}
        /\ \A j \in Items : j # i => applied'[j] = applied[j]
    BY <2>1, <2>2, <2>3, <2>4, StateTyped DEF IInv
  <2>6. TypeOK'
    <3>1. \A p \in Posts : tombs'[p] \in Seq(RepliesOf(p)) /\ Len(tombs'[p]) <= ReplyLimit
      BY <1>2 DEF IInv, TypeOK
    <3>2. stored' \subseteq Items \X Texts /\ removed' \subseteq Items
      BY <1>2 DEF IInv, TypeOK
    <3>3. QED
      BY <1>2, <2>1, <2>5, <3>1, <3>2, AnswerTyped DEF IInv
  <2>7. SameRequests
    BY <2>1, AnswerFacts DEF IInv
  <2>8. \A j \in Items : board'[j].live <=> board[j].live
    BY <1>4, <2>4, <2>5
  <2>9. BoardsSound'
    <3>1. ASSUME NEW j \in Items PROVE BoardSound(j)'
      <4>1. BoardSound(j)
        BY DEF IInv, HostSound, BoardsSound
      <4>2. OnceStored(j)' <=> OnceStored(j)
        BY <1>2 DEF OnceStored
      <4>3. board'[j].live /\ board'[j].clock = 0 => <<j, board'[j].text>> \in stored'
        BY <1>2, <2>2, <2>4, <2>5, <2>8, <4>1 DEF BoardSound
      <4>4. QED
        BY <1>2, <2>8, <4>1, <4>2, <4>3, OnePost DEF BoardSound
    <3>2. QED
      BY <3>1 DEF BoardsSound
  <2>10. EditsSound'
    <3>1. ASSUME NEW j \in Items PROVE EditSound(j)'
      <4>1. EditSound(j)
        BY DEF IInv, HostSound, EditsSound
      <4>2. CASE j = i
        <5>1. n \in Requests' /\ sent'[n].text = t
          BY <1>1, <2>7 DEF SameRequests
        <5>2. \A k \in applied[i] : k <= n
          <6>1. \A k \in applied[i] : k \in Nat
            BY StateTyped DEF IInv
          <6>2. QED
            BY <1>4, <2>2, <4>1, <4>2, <6>1 DEF EditSound
        <5>3. QED
          BY <2>2, <2>4, <2>5, <4>2, <5>1, <5>2 DEF EditSound
      <4>3. CASE j # i
        BY <2>5, <2>7, <4>1, <4>3 DEF EditSound, SameRequests
      <4>4. QED
        BY <4>2, <4>3
    <3>2. QED
      BY <3>1 DEF EditsSound
  <2>11. TombsSound'
    <3>1. Live' = Live
      BY <2>8 DEF Live
    <3>2. ASSUME NEW p \in Posts PROVE TombSound(p)'
      <4>1. TombSound(p)
        BY DEF IInv, HostSound, TombsSound
      <4>2. /\ Gone(p)' = Gone(p) /\ tombs'[p] = tombs[p] /\ p \in Items
            /\ board'[p].live <=> board[p].live
        BY <1>2, <2>8, OnePost DEF Gone, RepliesOf
      <4>3. QED
        BY <3>1, <4>1, <4>2 DEF TombSound
    <3>3. QED
      BY <1>2, <3>2 DEF IInv, HostSound, TombsSound
  <2>12. \A j \in Items : Deleted(j) => Deleted(j)'
    BY <1>2 DEF Deleted
  <2>13. \A j \in Items, u \in Text : Confirmed(j, u) => Confirmed(j, u)'
    BY <1>2, <2>2, <2>4, <2>5 DEF Confirmed, Deleted
  <2>14. HostSound'
    BY <2>9, <2>10, <2>11 DEF HostSound
  <2>15. QED
    BY <1>1, <1>2, <2>1, <2>6, <2>12, <2>13, <2>14, Handled
<1>5. QED
  BY <1>3, <1>4

\* A post goes with its replies and with what is remembered of them.
LEMMA KeepDeletePost ==
  ASSUME IInv, NEW n \in Requests, HandleDeletePost(n)
  PROVE  IInv'
<1>1. PICK p \in Items, t \in Text : sent[n].item = p /\ sent[n].text = t
  BY RequestItem
<1>2. /\ sent[n].kind = "delete" /\ p \in Posts /\ Answer(n, "ok")
      /\ board' = [i \in Items |-> IF i = p \/ i \in RepliesOf(p) THEN Absent ELSE board[i]]
      /\ tombs' = [tombs EXCEPT ![p] = <<>>]
      /\ removed' = IF board[p].live THEN (removed \ RepliesOf(p)) \cup {p} ELSE removed
      /\ UNCHANGED <<draft, view, told, stored, applied>>
  BY <1>1 DEF HandleDeletePost
<1>3. /\ board' \in [Items -> RecordType]
      /\ \A i \in Items : IF i = p \/ i \in RepliesOf(p) THEN ~board'[i].live ELSE board'[i] = board[i]
  BY <1>2, RecordsTyped, StateTyped DEF IInv
<1>4. /\ tombs' \in [Posts -> Seq(Replies)] /\ tombs'[p] = <<>>
      /\ \A q \in Posts : q # p => tombs'[q] = tombs[q]
  BY <1>2, EmptySeq DEF IInv, HostSound, TombsSound
<1>5. \A q \in Posts : p \notin RepliesOf(q) /\ (q # p => RepliesOf(p) \cap RepliesOf(q) = {})
  BY <1>2, OnePost DEF RepliesOf
<1>6. TombSound(p) /\ BoardSound(p)
  BY <1>2 DEF IInv, HostSound, TombsSound, BoardsSound
<1>7. \A r \in RepliesOf(p) : board[r].live => board[p].live
  BY OnePost DEF IInv, HostSound, BoardsSound, BoardSound, RepliesOf
<1>8. removed' \subseteq Items /\ IsFiniteSet(removed')
  <2>1. removed \subseteq Items /\ IsFiniteSet(removed)
    BY DEF IInv, TypeOK, HostSound, TombsSound
  <2>2. IsFiniteSet(removed \ RepliesOf(p))
    BY <2>1, FS_Subset
  <2>3. IsFiniteSet((removed \ RepliesOf(p)) \cup {p})
    BY <2>2, FS_AddElement
  <2>4. QED
    BY <1>2, <2>1, <2>3
<1>9. TypeOK'
  <2>1. ASSUME NEW q \in Posts
        PROVE  tombs'[q] \in Seq(RepliesOf(q)) /\ Len(tombs'[q]) <= ReplyLimit
    <3>1. CASE q = p
      <4>1. <<>> \in Seq(RepliesOf(q)) /\ Len(<<>>) = 0 /\ 0 <= ReplyLimit
        BY EmptySeq, BoardAssumption
      <4>2. QED
        BY <1>4, <3>1, <4>1
    <3>2. CASE q # p
      BY <1>4, <3>2 DEF IInv, TypeOK
    <3>3. QED
      BY <3>1, <3>2
  <2>2. stored' \subseteq Items \X Texts /\ applied' \in [Items -> SUBSET (1..MaxSends)]
    BY <1>2 DEF IInv, TypeOK
  <2>3. QED
    BY <1>2, <1>3, <1>8, <2>1, <2>2, AnswerTyped DEF IInv
<1>10. SameRequests
  BY <1>2, AnswerFacts DEF IInv
<1>11. BoardsSound'
  <2>1. ASSUME NEW j \in Items PROVE BoardSound(j)'
    <3>1. BoardSound(j)
      BY DEF IInv, HostSound, BoardsSound
    <3>2. OnceStored(j)' <=> OnceStored(j)
      BY <1>2 DEF OnceStored
    <3>3. board'[j].live => board'[j] = board[j] /\ j # p /\ j \notin RepliesOf(p)
      BY <1>3
    <3>4. j \in Replies /\ board'[j].live => board'[On[j]].live
      BY <1>2, <1>3, <3>1, <3>3, OnePost DEF BoardSound, RepliesOf
    <3>5. j \in Posts /\ OnceStored(j) /\ ~board'[j].live => j \in removed'
      <4>1. j \in Posts => j \notin RepliesOf(p)
        BY OnePost DEF RepliesOf
      <4>2. CASE j = p
        BY <1>2, <1>6, <4>2 DEF BoardSound
      <4>3. CASE j # p
        BY <1>2, <1>3, <3>1, <4>1, <4>3 DEF BoardSound
      <4>4. QED
        BY <4>2, <4>3
    <3>6. QED
      BY <1>2, <3>1, <3>2, <3>3, <3>4, <3>5 DEF BoardSound
  <2>2. QED
    BY <2>1 DEF BoardsSound
<1>12. EditsSound'
  BY <1>2, <1>3, <1>10 DEF IInv, HostSound, EditsSound, EditSound, SameRequests
<1>13. TombsSound'
  <2>1. ASSUME NEW q \in Posts PROVE TombSound(q)'
    <3>1. TombSound(q)
      BY DEF IInv, HostSound, TombsSound
    <3>2. CASE q = p
      <4>1. Gone(p)' = {}
        BY <1>2, <1>3, <1>5, <1>6 DEF Gone, RepliesOf, TombSound
      <4>2. Cardinality({}) = 0 /\ Len(<<>>) = 0 /\ DOMAIN <<>> = {}
        BY FS_EmptySet
      <4>3. tombs'[p] = <<>>
        BY <1>4
      <4>4. QED
        BY <3>2, <4>1, <4>2, <4>3 DEF TombSound
    <3>3. CASE q # p
      <4>1. Gone(q)' = Gone(q)
        BY <1>2, <1>5, <3>3 DEF Gone, RepliesOf
      <4>2. Live' \subseteq Live /\ tombs'[q] = tombs[q] /\ board'[q] = board[q]
        BY <1>3, <1>4, <3>3, OnePost DEF Live, RepliesOf
      <4>3. QED
        BY <3>1, <4>1, <4>2 DEF TombSound
    <3>4. QED
      BY <3>2, <3>3
  <2>2. QED
    BY <1>4, <1>8, <2>1 DEF TombsSound
<1>14. \A j \in Items : Deleted(j) => Deleted(j)'
  BY <1>2, OnePost DEF Deleted, RepliesOf
<1>15. \A j \in Items, u \in Text : Confirmed(j, u) => Confirmed(j, u)'
  <2>1. SUFFICES ASSUME NEW j \in Items, NEW u \in Text, Confirmed(j, u)
                 PROVE  Confirmed(j, u)'
    OBVIOUS
  <2>2. CASE Deleted(j)
    BY <1>14, <2>2 DEF Confirmed
  <2>3. CASE board[j].live /\ (j = p \/ j \in RepliesOf(p))
    BY <1>2, <1>7, <2>3 DEF Confirmed, Deleted, RepliesOf
  <2>4. CASE ~(j = p \/ j \in RepliesOf(p))
    BY <1>3, <1>14, <2>1, <2>4 DEF Confirmed
  <2>5. QED
    BY <2>1, <2>2, <2>3, <2>4 DEF Confirmed
<1>16. HostSound'
  BY <1>11, <1>12, <1>13 DEF HostSound
<1>17. QED
  BY <1>1, <1>2, <1>9, <1>14, <1>15, <1>16, Handled

\* What the host remembers of a post's deleted replies: all of them, while they fit.
LEMMA RememberedFacts ==
  ASSUME NEW S, NEW p \in Posts, NEW r \in S, tombs[p] \in Seq(S), Len(tombs[p]) <= ReplyLimit
  PROVE  /\ Remembered(p, r) \in Seq(S) /\ Len(Remembered(p, r)) <= ReplyLimit
         /\ \A k \in DOMAIN Remembered(p, r) :
              \/ Remembered(p, r)[k] = r
              \/ \E j \in DOMAIN tombs[p] : Remembered(p, r)[k] = tombs[p][j]
         /\ Len(tombs[p]) < ReplyLimit => Remembered(p, r) = Append(tombs[p], r)
<1>1. PICK old : old = tombs[p]
  OBVIOUS
<1>2. PICK s : s = Append(old, r)
  OBVIOUS
<1>3. /\ s \in Seq(S) /\ Len(s) = Len(old) + 1 /\ Len(old) \in Nat /\ DOMAIN old = 1..Len(old)
      /\ DOMAIN s = 1..(Len(old) + 1)
      /\ \A k \in 1..Len(old) : s[k] = old[k]
      /\ s[Len(old) + 1] = r
  BY <1>1, <1>2, AppendProperties, LenProperties
<1>4. \A k \in DOMAIN s : s[k] = r \/ \E j \in DOMAIN old : s[k] = old[j]
  BY <1>3
<1>5. ReplyLimit \in Nat \ {0} /\ Len(old) <= ReplyLimit
  BY <1>1, BoardAssumption
<1>6. CASE ~(Len(s) > ReplyLimit)
  <2>1. Remembered(p, r) = s
    BY <1>1, <1>2, <1>6 DEF Remembered
  <2>2. QED
    BY <1>1, <1>2, <1>3, <1>4, <1>5, <1>6, <2>1
<1>7. CASE Len(s) > ReplyLimit
  <2>1. PICK a, b : a = Len(s) - ReplyLimit + 1 /\ b = Len(s)
    OBVIOUS
  <2>2. Remembered(p, r) = SubSeq(s, a, b)
    <3>1. Remembered(p, r) = IF Len(s) > ReplyLimit
                             THEN SubSeq(s, Len(s) - ReplyLimit + 1, Len(s)) ELSE s
      BY <1>1, <1>2, Zenon DEF Remembered
    <3>2. QED
      BY <1>7, <2>1, <3>1, Zenon
  <2>3. a = 2 /\ b = ReplyLimit + 1 /\ a \in Int /\ b \in Int
    BY <1>3, <1>5, <1>7, <2>1
  <2>4. \A k \in a..b : k \in DOMAIN s /\ s[k] \in S
    BY <1>3, <1>5, <1>7, <2>3, ElementOfSeq
  <2>5. /\ SubSeq(s, a, b) \in Seq(S) /\ Len(SubSeq(s, a, b)) = ReplyLimit
        /\ \A k \in 1..ReplyLimit : SubSeq(s, a, b)[k] = s[a + k - 1]
    <3>1. /\ SubSeq(s, a, b) \in Seq(S)
          /\ Len(SubSeq(s, a, b)) = IF a <= b THEN b - a + 1 ELSE 0
          /\ \A k \in 1..(b - a + 1) : SubSeq(s, a, b)[k] = s[a + k - 1]
      BY <2>3, <2>4, SubSeqProperties
    <3>2. QED
      BY <1>5, <2>3, <3>1
  <2>6. \A k \in DOMAIN SubSeq(s, a, b) : k \in 1..ReplyLimit /\ a + k - 1 \in DOMAIN s
    BY <1>3, <1>5, <1>7, <2>3, <2>5, LenProperties
  <2>7. QED
    BY <1>1, <1>3, <1>4, <1>5, <1>7, <2>2, <2>5, <2>6
<1>8. QED
  BY <1>6, <1>7

\* A deleted reply is remembered; the list loses the oldest only when it is full.
LEMMA KeepDeleteReply ==
  ASSUME IInv, NEW n \in Requests, HandleDeleteReply(n)
  PROVE  IInv'
<1>1. PICK r \in Items, t \in Text : sent[n].item = r /\ sent[n].text = t
  BY RequestItem
<1>2. /\ sent[n].kind = "delete" /\ r \in Replies /\ Answer(n, "ok")
      /\ UNCHANGED <<draft, view, told, stored, applied>>
  BY <1>1 DEF HandleDeleteReply
<1>3. CASE ~board[r].live
  <2>1. UNCHANGED <<board, tombs, removed>>
    BY <1>1, <1>3 DEF HandleDeleteReply
  <2>2. QED
    BY <1>1, <1>2, <2>1, OnlyAnswered
<1>4. CASE board[r].live
  <2>1. PICK p \in Posts : p = On[r]
    BY <1>2, OnePost
  <2>2. /\ board' = [board EXCEPT ![r] = Absent]
        /\ tombs' = [tombs EXCEPT ![p] = Remembered(p, r)]
        /\ removed' = removed \cup {r}
    BY <1>1, <1>4, <2>1 DEF HandleDeleteReply
  <2>3. /\ board' \in [Items -> RecordType] /\ ~board'[r].live
        /\ \A i \in Items : i # r => board'[i] = board[i]
    BY <2>2, RecordsTyped, StateTyped DEF IInv
  <2>4. /\ tombs \in [Posts -> Seq(Replies)] /\ tombs[p] \in Seq(RepliesOf(p))
        /\ Len(tombs[p]) <= ReplyLimit /\ r \in RepliesOf(p)
    BY <1>2, <2>1 DEF IInv, TypeOK, HostSound, TombsSound, RepliesOf
  <2>5. PICK list : list = Remembered(p, r)
    OBVIOUS
  <2>6. /\ list \in Seq(RepliesOf(p)) /\ Len(list) <= ReplyLimit
        /\ \A k \in DOMAIN list : list[k] = r \/ \E j \in DOMAIN tombs[p] : list[k] = tombs[p][j]
        /\ Len(tombs[p]) < ReplyLimit => list = Append(tombs[p], r)
    BY <2>4, <2>5, RememberedFacts
  <2>7. list \in Seq(Replies)
    <3>1. list \in [1..Len(list) -> RepliesOf(p)] /\ Len(list) \in Nat
      BY <2>6, LenProperties
    <3>2. \A k \in 1..Len(list) : list[k] \in Replies
      BY <3>1 DEF RepliesOf
    <3>3. list \in [1..Len(list) -> Replies]
      BY <3>1, <3>2
    <3>4. QED
      BY <3>1, <3>3, SeqDef
  <2>8. /\ tombs' \in [Posts -> Seq(Replies)] /\ tombs'[p] = list
        /\ \A q \in Posts : q # p => tombs'[q] = tombs[q]
    BY <2>2, <2>4, <2>5, <2>7
  <2>9. IsFiniteSet(removed) /\ removed \subseteq Items /\ IsFiniteSet(removed')
    BY <2>2, FS_AddElement DEF IInv, TypeOK, HostSound, TombsSound
  <2>10. TypeOK'
    <3>1. ASSUME NEW q \in Posts
          PROVE  tombs'[q] \in Seq(RepliesOf(q)) /\ Len(tombs'[q]) <= ReplyLimit
      <4>1. CASE q = p
        BY <2>6, <2>8, <4>1
      <4>2. CASE q # p
        BY <2>8, <4>2 DEF IInv, TypeOK
      <4>3. QED
        BY <4>1, <4>2
    <3>2. stored' \subseteq Items \X Texts /\ applied' \in [Items -> SUBSET (1..MaxSends)]
      BY <1>2 DEF IInv, TypeOK
    <3>3. removed' \subseteq Items
      BY <2>2, <2>9
    <3>4. QED
      BY <1>2, <2>3, <3>1, <3>2, <3>3, AnswerTyped DEF IInv
  <2>11. SameRequests
    BY <1>2, AnswerFacts DEF IInv
  <2>12. BoardsSound'
    <3>1. ASSUME NEW j \in Items PROVE BoardSound(j)'
      <4>1. BoardSound(j)
        BY DEF IInv, HostSound, BoardsSound
      <4>2. OnceStored(j)' <=> OnceStored(j)
        BY <1>2 DEF OnceStored
      <4>3. board'[j].live => board'[j] = board[j] /\ j # r
        BY <2>3
      <4>4. \A q \in Posts : board'[q] = board[q]
        BY <1>2, <2>3, OnePost
      <4>5. QED
        BY <1>2, <2>2, <4>1, <4>2, <4>3, <4>4, OnePost DEF BoardSound
    <3>2. QED
      BY <3>1 DEF BoardsSound
  <2>13. EditsSound'
    BY <1>2, <2>3, <2>11 DEF IInv, HostSound, EditsSound, EditSound, SameRequests
  <2>14. TombSound(p)'
    <3>1. TombSound(p) /\ BoardSound(r)
      BY DEF IInv, HostSound, TombsSound, BoardsSound
    <3>2. /\ Gone(p)' = Gone(p) \cup {r} /\ Live' = Live \ {r}
          /\ board'[p] = board[p] /\ board[p].live
      BY <1>2, <1>4, <2>1, <2>2, <2>3, <2>4, <3>1, OnePost DEF Gone, Live, BoardSound, RepliesOf
    <3>3. \A k \in DOMAIN list : list[k] \in Gone(p)'
      BY <2>6, <3>1, <3>2 DEF TombSound
    <3>4. ASSUME Cardinality(Gone(p)') <= ReplyLimit
          PROVE  /\ Gone(p)' \cap Live' = {} /\ Len(list) <= Cardinality(Gone(p)')
                 /\ \A x \in Gone(p)' : \E k \in DOMAIN list : list[k] = x
      <4>1. IsFiniteSet(Gone(p)) /\ Cardinality(Gone(p)) \in Nat
        BY <2>9, FS_Subset, FS_CardinalityType DEF Gone
      <4>2. Cardinality(Gone(p)') = IF r \in Gone(p) THEN Cardinality(Gone(p))
                                                     ELSE Cardinality(Gone(p)) + 1
        BY <3>2, <4>1, FS_AddElement
      <4>3. Cardinality(Gone(p)) <= ReplyLimit
        BY <3>4, <4>1, <4>2, BoardAssumption
      <4>4. /\ Gone(p) \cap Live = {} /\ Len(tombs[p]) <= Cardinality(Gone(p))
            /\ \A x \in Gone(p) : \E k \in DOMAIN tombs[p] : tombs[p][k] = x
        BY <3>1, <4>3 DEF TombSound
      <4>5. r \in Live
        BY <1>4 DEF Live
      <4>6. r \notin Gone(p) /\ Cardinality(Gone(p)') = Cardinality(Gone(p)) + 1
        BY <4>2, <4>4, <4>5
      <4>7. Len(tombs[p]) \in Nat /\ DOMAIN tombs[p] = 1..Len(tombs[p])
        BY <2>4, LenProperties
      <4>8. list = Append(tombs[p], r)
        BY <2>6, <3>4, <4>1, <4>4, <4>6, <4>7, BoardAssumption
      <4>9. /\ Len(list) = Len(tombs[p]) + 1 /\ DOMAIN list = 1..(Len(tombs[p]) + 1)
            /\ \A k \in 1..Len(tombs[p]) : list[k] = tombs[p][k]
            /\ list[Len(tombs[p]) + 1] = r
        BY <2>4, <2>6, <4>8, AppendProperties, LenProperties
      <4>10. \A x \in Gone(p)' : \E k \in DOMAIN list : list[k] = x
        BY <3>2, <4>4, <4>7, <4>9
      <4>11. QED
        BY <3>2, <4>1, <4>4, <4>6, <4>7, <4>9, <4>10
    <3>5. QED
      BY <2>8, <3>2, <3>3, <3>4 DEF TombSound
  <2>15. TombsSound'
    <3>1. ASSUME NEW q \in Posts, q # p PROVE TombSound(q)'
      <4>1. TombSound(q)
        BY DEF IInv, HostSound, TombsSound
      <4>2. /\ Gone(q)' = Gone(q) /\ Live' \subseteq Live
            /\ tombs'[q] = tombs[q] /\ board'[q] = board[q]
        BY <1>2, <2>1, <2>2, <2>3, <2>8, <3>1, OnePost DEF Gone, Live, RepliesOf
      <4>3. QED
        BY <4>1, <4>2 DEF TombSound
    <3>2. QED
      BY <2>8, <2>9, <2>14, <3>1 DEF TombsSound
  <2>16. \A j \in Items : Deleted(j) => Deleted(j)'
    BY <2>2 DEF Deleted
  <2>17. \A j \in Items, u \in Text : Confirmed(j, u) => Confirmed(j, u)'
    BY <2>2, <2>3, <2>16 DEF Confirmed, Deleted
  <2>18. HostSound'
    BY <2>12, <2>13, <2>15 DEF HostSound
  <2>19. QED
    BY <1>1, <1>2, <2>10, <2>16, <2>17, <2>18, Handled
<1>5. QED
  BY <1>3, <1>4

---------------------------------------------------------------------------
(* The invariant.                                                            *)

LEMMA InvInit ==
  ASSUME Init PROVE IInv
<1>1. /\ board \in [Items -> {Absent} \cup {Posted(u) : u \in Texts}] /\ Live \subseteq Posts
      /\ tombs = [p \in Posts |-> <<>>] /\ sent = <<>> /\ draft = [m \in Members |-> Blank]
      /\ view = [m \in Members |-> Live] /\ told = {} /\ removed = {}
      /\ stored = {<<i, board[i].text>> : i \in Live} /\ applied = [i \in Items |-> {}]
  BY DEF Init
<1>2. Requests = {} /\ Writes = {}
  <2>1. Len(<<>>) = 0 /\ <<>> \in Seq(RequestType)
    BY EmptySeq
  <2>2. QED
    BY <1>1, <2>1, LenProperties DEF Requests, Writes
<1>3. /\ board \in [Items -> RecordType] /\ Live \subseteq Items
      /\ \A i \in Items : board[i].live => board[i].text \in Texts /\ board[i].clock = 0
  <2>1. \A i \in Items : board[i] = Absent \/ \E u \in Texts : board[i] = Posted(u)
    BY <1>1
  <2>2. \A i \in Items : board[i] \in RecordType
    BY <2>1, RecordsTyped DEF Text
  <2>3. \A i \in Items : board[i].live => board[i].text \in Texts /\ board[i].clock = 0
    BY <2>1, RecordsTyped DEF Text
  <2>4. board \in [Items -> RecordType]
    BY <1>1, <2>2
  <2>5. QED
    BY <2>3, <2>4 DEF Live
<1>4. Blank \in DraftType /\ Blank.item = NoItem
  BY BlankTyped
<1>5. \A i \in Items : board[i].live => OnceStored(i) /\ <<i, board[i].text>> \in stored
  BY <1>1, <1>3 DEF OnceStored, Live
<1>6. \A i \in Items : OnceStored(i) => board[i].live
  BY <1>1 DEF OnceStored, Live
<1>7. TypeOK
  <2>1. \A p \in Posts : tombs[p] \in Seq(RepliesOf(p)) /\ Len(tombs[p]) <= ReplyLimit
    BY <1>1, EmptySeq, BoardAssumption
  <2>2. sent \in Seq(RequestType) /\ Len(sent) <= MaxSends
    BY <1>1, EmptySeq, BoardAssumption
  <2>3. draft \in [Members -> DraftType] /\ view \in [Members -> SUBSET Items]
    BY <1>1, <1>3, <1>4
  <2>4. /\ told \subseteq Items \X Texts /\ stored \subseteq Items \X Texts /\ removed \subseteq Items
        /\ applied \in [Items -> SUBSET (1..MaxSends)]
    BY <1>1, <1>3 DEF Live
  <2>5. QED
    BY <1>3, <2>1, <2>2, <2>3, <2>4 DEF TypeOK, RequestType, DraftType, RecordType
<1>8. AppsSound
  <2>1. ViewsSound
    BY <1>1, <1>5 DEF ViewsSound, Live
  <2>2. QED
    BY <1>1, <1>2, <1>4, <2>1
       DEF AppsSound, RequestsSound, OneWrite, WordsSound, DraftsSound
<1>9. BoardsSound
  BY <1>1, <1>3, <1>5, <1>6, OnePost DEF BoardsSound, BoardSound, Live
<1>10. EditsSound
  BY <1>1, <1>3 DEF EditsSound, EditSound
<1>11. TombsSound
  <2>1. \A p \in Posts : Gone(p) = {} /\ tombs[p] = <<>>
    BY <1>1 DEF Gone
  <2>2. tombs \in [Posts -> Seq(Replies)] /\ IsFiniteSet(removed)
    BY <1>1, EmptySeq, FS_EmptySet
  <2>3. Cardinality({}) = 0 /\ Len(<<>>) = 0 /\ DOMAIN <<>> = {}
    BY FS_EmptySet
  <2>4. ASSUME NEW p \in Posts PROVE TombSound(p)
    <3>1. Gone(p) = {} /\ tombs[p] = <<>>
      BY <2>1
    <3>2. Cardinality(Gone(p)) = 0 /\ Len(tombs[p]) = 0 /\ DOMAIN tombs[p] = {}
      BY <2>3, <3>1, Zenon
    <3>3. QED
      BY <3>1, <3>2 DEF TombSound
  <2>5. QED
    BY <2>2, <2>4 DEF TombsSound
<1>12. QED
  BY <1>1, <1>7, <1>8, <1>9, <1>10, <1>11 DEF IInv, HostSound, ConfirmedIsStored

LEMMA InvStep ==
  ASSUME IInv, [Next]_vars PROVE IInv'
<1>1. ASSUME NEW m \in Members, Composer(m) PROVE IInv'
  BY <1>1, KeepRefresh, KeepSubmit, KeepEditOwn, KeepDeleteOwn DEF Composer
<1>2. ASSUME NEW n \in Requests, Receive(n) PROVE IInv'
  BY <1>2, KeepReceiveWrite, KeepReceiveDelete, KeepReceiveEdit, KeepGiveUp DEF Receive
<1>3. ASSUME NEW n \in Requests, Handle(n) PROVE IInv'
  BY <1>3, KeepPost, KeepReply, KeepEdit, KeepDeletePost, KeepDeleteReply DEF Handle
<1>4. CASE UNCHANGED vars
  <2>1. UNCHANGED <<board, tombs, sent, draft, view, told, stored, removed, applied>>
    BY <1>4 DEF vars
  <2>2. TypeOK'
    BY <2>1 DEF IInv, TypeOK
  <2>3. HostSound'
    BY <2>1, HostKept DEF Requests
  <2>4. RequestsSound' /\ OneWrite'
    BY <2>1 DEF IInv, AppsSound, RequestsSound, RequestSound, OneWrite, Writes, Requests,
       OnceStored, Confirmed, Deleted, AuthorOf
  <2>5. WordsSound' /\ DraftsSound' /\ ViewsSound'
    BY <2>1 DEF IInv, AppsSound, WordsSound, Words, Writes, Requests, DraftsSound, ViewsSound, OnceStored
  <2>6. ConfirmedIsStored'
    BY <2>1 DEF IInv, ConfirmedIsStored, Deleted
  <2>7. QED
    BY <2>2, <2>3, <2>4, <2>5, <2>6 DEF IInv, AppsSound
<1>5. QED
  BY <1>1, <1>2, <1>3, <1>4 DEF Next

\* Whatever is on the board in these words, or was.
Landed(m) == <<draft[m].item, draft[m].text>> \in stored \/ Deleted(draft[m].item)

\* A composer is emptied by what is shown only when its own words were stored.
LEMMA ShownWasStored ==
  ASSUME IInv, NEW m \in Members, NEW shown \in SUBSET Items,
         \A i \in shown : OnceStored(i), draft[m].item \in shown
  PROVE  Landed(m)
<1>1. PICK i \in Items : i = draft[m].item /\ i \in shown /\ i # NoItem
  BY BoardAssumption
<1>2. Words(i, draft[m].text)
  BY <1>1 DEF IInv, AppsSound, WordsSound
<1>3. PICK u \in Texts : <<i, u>> \in stored
  BY <1>1 DEF OnceStored
<1>4. u = draft[m].text
  BY <1>2, <1>3 DEF Words
<1>5. QED
  BY <1>1, <1>3, <1>4 DEF Landed

LEMMA StepDrafts ==
  ASSUME IInv, [Next]_vars, NEW m \in Members, draft[m].text # NoText, draft'[m].text = NoText
  PROVE  Landed(m)
<1>1. draft' # draft /\ draft \in [Members -> DraftType]
  BY StateTyped DEF IInv
<1>2. ASSUME NEW k \in Members, Refresh(k) PROVE Landed(m)
  <2>1. draft' = [draft EXCEPT ![k] = IF draft[k].sending THEN draft[k] ELSE Unsent(draft[k], Live)]
    BY <1>2 DEF Refresh
  <2>2. k = m /\ Unsent(draft[m], Live).text = NoText
    BY <1>1, <2>1
  <2>3. draft[m].item \in Live
    BY <2>2, UnsentFacts DEF IInv
  <2>4. Live \in SUBSET Items /\ \A i \in Live : OnceStored(i)
    BY DEF Live, IInv, HostSound, BoardsSound, BoardSound
  <2>5. QED
    BY <2>3, <2>4, ShownWasStored
<1>3. ASSUME NEW k \in Members, NEW t \in Texts, Submit(k, t) PROVE FALSE
  <2>1. PICK i : draft' = [draft EXCEPT ![k] = [item |-> i, text |-> t, sending |-> TRUE]]
    BY <1>3 DEF Submit
  <2>2. draft'[m] = draft[m] \/ draft'[m].text = t
    BY <1>1, <2>1
  <2>3. QED
    BY <2>2, BoardAssumption
<1>4. \A k \in Members : draft[m].item \in view[k] => Landed(m)
  BY ViewsOnceStored, ShownWasStored
<1>5. ASSUME NEW n \in Requests, ReceiveWrite(n) PROVE Landed(m)
  <2>1. PICK k \in Members : k = AuthorOf(sent[n].item)
    BY AuthorOfRequest
  <2>2. /\ sent[n].open /\ sent[n].kind = "write"
        /\ draft' = [draft EXCEPT ![k] = IF Ends(sent[n].answer) THEN Blank
                                                               ELSE Unsent(draft[k], view[k])]
    BY <1>5, <2>1 DEF ReceiveWrite
  <2>3. k = m
    BY <1>1, <2>2
  <2>4. CASE ~Ends(sent[n].answer)
    <3>1. draft'[m] = Unsent(draft[m], view[m])
      BY <1>1, <2>2, <2>3, <2>4
    <3>2. QED
      BY <1>4, <3>1, UnsentFacts DEF IInv
  <2>5. CASE Ends(sent[n].answer)
    <3>1. draft[m] = [item |-> sent[n].item, text |-> sent[n].text, sending |-> TRUE]
      BY <2>1, <2>2, <2>3, BusyComposer
    <3>2. draft[m].item = sent[n].item /\ draft[m].text = sent[n].text
      BY <3>1
    <3>3. QED
      BY <2>2, <2>5, <3>2 DEF Ends, Landed, IInv, AppsSound, RequestsSound, RequestSound
  <2>6. QED
    BY <2>4, <2>5
<1>6. ASSUME NEW n \in Requests, GiveUp(n) PROVE Landed(m)
  <2>1. PICK k \in Members : k = AuthorOf(sent[n].item)
    BY AuthorOfRequest
  <2>2. draft' = [draft EXCEPT ![k] = Unsent(draft[k], view[k])]
    BY <1>1, <1>6, <2>1 DEF GiveUp
  <2>3. k = m /\ draft'[m] = Unsent(draft[m], view[m])
    BY <1>1, <2>2
  <2>4. QED
    BY <1>4, <2>3, UnsentFacts DEF IInv
<1>7. ASSUME NEW k \in Members, Composer(k) PROVE Landed(m)
  BY <1>1, <1>2, <1>3, <1>7 DEF Composer, EditOwn, DeleteOwn
<1>8. ASSUME NEW n \in Requests, Receive(n) PROVE Landed(m)
  BY <1>1, <1>5, <1>6, <1>8 DEF Receive, ReceiveDelete, ReceiveEdit
<1>9. ASSUME NEW n \in Requests, Handle(n) PROVE FALSE
  BY <1>1, <1>9 DEF Handle, HandlePost, HandleReply, HandleEdit, HandleDeletePost, HandleDeleteReply
<1>10. QED
  BY <1>1, <1>7, <1>8, <1>9 DEF Next, vars

---------------------------------------------------------------------------
(* What is proved of the specification.                                      *)

(* Composers, requests and the board agree in every reachable state.         *)
THEOREM InvHolds == Spec => []IInv
<1>1. Init => IInv
  BY InvInit
<1>2. IInv /\ [Next]_vars => IInv'
  BY InvStep
<1>3. QED
  BY <1>1, <1>2, PTL DEF Spec

(* Every variable keeps its type, and no list of deleted replies outgrows its limit. *)
THEOREM TypesHold == Spec => []TypeOK
<1>1. IInv => TypeOK
  BY DEF IInv
<1>2. QED
  BY <1>1, InvHolds, PTL

(* store_post and add_reply: what an author was told is sent is on the board in those *)
(* words, unless its author edited or deleted it, however often it was retried.       *)
THEOREM ConfirmedHolds == Spec => []ConfirmedIsStored
<1>1. IInv => ConfirmedIsStored
  BY DEF IInv
<1>2. QED
  BY <1>1, InvHolds, PTL

(* edit_text, delete_reply, create_reply: requests handled late, again or out of order *)
(* leave the words of the last signed edit, and no deleted reply comes back while the  *)
(* host remembers as many deletions as there were.                                    *)
THEOREM LateHolds == Spec => []LateRequestsUndoNothing
<1>1. ASSUME IInv PROVE LatestEditStands
  <2>1. SUFFICES ASSUME NEW i \in Live, NEW n \in applied[i], \A k \in applied[i] : k <= n
                 PROVE  board[i].text = sent[n].text
    BY DEF LatestEditStands
  <2>2. PICK j \in Items : j = i /\ board[j].live
    BY DEF Live
  <2>3. /\ board[j].clock \in applied[j] /\ \A k \in applied[j] : k <= board[j].clock
        /\ board[j].text = sent[board[j].clock].text
    BY <1>1, <2>1, <2>2 DEF IInv, HostSound, EditsSound, EditSound
  <2>4. \A k \in applied[j] : k \in Nat
    BY <1>1, StateTyped, BoardAssumption DEF IInv
  <2>5. n = board[j].clock
    BY <2>1, <2>2, <2>3, <2>4
  <2>6. QED
    BY <2>2, <2>3, <2>5
<1>2. ASSUME IInv PROVE DeletedRepliesStayDeleted
  BY <1>2 DEF DeletedRepliesStayDeleted, IInv, HostSound, TombsSound, TombSound, Gone
<1>3. IInv => LateRequestsUndoNothing
  BY <1>1, <1>2 DEF LateRequestsUndoNothing
<1>4. QED
  BY <1>3, InvHolds, PTL

(* publish, sendReply, clearLandedPostDraft: a composer is emptied only when its words *)
(* were on the board, or when the reply or its post was deleted.                      *)
THEOREM DraftsHold == Spec => DraftsAreNotLost
<1>1. ASSUME IInv, [Next]_vars
      PROVE  [\A m \in Members : draft[m].text # NoText /\ draft'[m].text = NoText =>
               \/ <<draft[m].item, draft[m].text>> \in stored
               \/ Deleted(draft[m].item)]_vars
  BY <1>1, StepDrafts DEF Landed
<1>2. QED
  BY <1>1, InvHolds, PTL DEF Spec, DraftsAreNotLost
=============================================================================
