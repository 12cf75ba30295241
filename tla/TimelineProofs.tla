--------------------------- MODULE TimelineProofs ---------------------------
(* What TLAPS proves of Timeline, for any ids, words, page size and bounds: the words  *)
(* are in one place, the list hides no gap it could have known of, it is current when   *)
(* everything asked for has come, and a delivered message stays delivered.              *)
(*                                                                                      *)
(* The argument turns on two facts that no property states. A page that was answered    *)
(* covers the log up to some position (Covers), however long ago it was read. And while *)
(* a refresh still counts, the list already knows better than its page wherever the     *)
(* page is behind (Knows): what was saved since is in the list with a mark, so that a   *)
(* reset keeps it, and what the page calls undelivered the list calls undelivered too.  *)
EXTENDS Timeline, TLAPS, FiniteSetTheorems, SequenceTheorems

---------------------------------------------------------------------------
(* Types, with the names of what is only bounded in Timeline. *)
Ids == Own \cup Theirs
States == Status \ {"in"}
RowMaps == UNION {[S -> RowSet] : S \in SUBSET Ids}
Pages == [rows : RowMaps, next : Nat, is : {"asked", "failed", "page", "offline"}]
Asking == [page : Pages, replace : BOOLEAN]
Outcomes == {"queued", "attempt", "rejected", "missing", "busy", "delivered", "failed"}
CallSet == [id : Own, kind : {"send", "retry"}, is : Outcomes, heard : BOOLEAN]

Types ==
  /\ log \in Seq(Ids) /\ state \in [Own -> States] /\ behind \in BOOLEAN
  /\ rows \in RowMaps /\ loaded \in BOOLEAN
  /\ cursor \in Nat /\ cursor <= Len(log) /\ unproved \subseteq {"published", "offline"}
  /\ asks \in Seq(Asking) /\ counts \in BOOLEAN
  /\ earlier \in [at : Nat, page : Pages, fresh : BOOLEAN] /\ earlier.at <= Len(log)
  /\ device \in 0..Len(log) /\ error \in {"none", "refresh", "earlier"} /\ missed \in BOOLEAN
  /\ draft \subseteq Words /\ sending \in Own \cup {None}
  /\ retrying \in [id : Own \cup {None}, resend : BOOLEAN]
  /\ calls \subseteq CallSet /\ carried \in [Own -> SUBSET Words] /\ left \in 0..Budget

(* The saved messages: each once, those of the others numbered as they came. *)
Counted(n) == Saved \cap Theirs = 1..n /\ n + left <= Budget
Log ==
  /\ \A j, k \in DOMAIN log : log[j] = log[k] => j = k
  /\ IsFiniteSet(Saved) /\ Cardinality(Saved) = Len(log)
  /\ \E n \in 0..Budget : Counted(n)

(* The owner's own messages: where their words are, and what is known of them. *)
Kept ==
  /\ \A i \in Own : carried[i] # {} => i \in DOMAIN rows \/ i \in Saved
  /\ \A i \in Own : carried[i] \cap draft = {}
  /\ \A i, j \in Own : i # j => carried[i] \cap carried[j] = {}
  /\ \A i \in Own : i \in Saved \/ i \in DOMAIN rows => carried[i] # {}
  /\ \A c \in calls : carried[c.id] # {}

(* The calls: the one that the composer waits for is the only one of its message, and *)
(* a message is delivered by one attempt at a time and then for good.                  *)
OneCall == sending # None => \A c \in calls : c.id = sending =>
  /\ c.kind = "send" /\ c.is \in {"queued", "rejected", "attempt", "delivered", "failed"}
  /\ c.is \in {"queued", "rejected"} => c.id \notin Saved
  /\ \A d \in calls : d.id = sending => d = c
Delivery ==
  /\ \A i \in Own : i \notin Saved => state[i] # "delivered"
  /\ \A c \in calls : c.is = "attempt" => c.id \in Saved /\ state[c.id] = "sending"
  /\ \A c, d \in calls : c.is = "attempt" /\ d.is = "attempt" /\ c.id = d.id => c = d
  /\ \A c \in calls : c.is = "delivered" => state[c.id] = "delivered"

(* The list: only a saved message is there without a mark, and only one that is        *)
(* delivered is shown so. Nothing is there before the list is.                         *)
Shown ==
  /\ \A i \in DOMAIN rows : Local(i) \/ i \in Saved
  /\ \A i \in DOMAIN rows : rows[i].retry = TRUE => rows[i].unconfirmed = TRUE
  /\ \A i \in DOMAIN rows \cap Own : rows[i].status = "delivered" => state[i] = "delivered"
  /\ \A i \in DOMAIN Latest.rows \cap Own : i \in DOMAIN rows
  /\ ~loaded => rows = <<>> /\ cursor = 0 /\ earlier.at = 0 /\ \A i \in Own : carried[i] = {}

(* A page that was answered holds the messages before some position c of the log. *)
First(c) == IF c > PageSize THEN c - PageSize ELSE 1
Before(c) == {log[k] : k \in First(c)..(c - 1)}
Answered(p) == p.is \in {"page", "offline"}
Covers(p, c) ==
  /\ c \in 1..(Len(log) + 1) /\ DOMAIN p.rows = Before(c)
  /\ p.next = IF p.is = "page" /\ First(c) > 1 THEN First(c) ELSE 0
  /\ \A i \in DOMAIN p.rows : p.rows[i].retry = FALSE /\ p.rows[i].unconfirmed = FALSE
  /\ \A i \in DOMAIN p.rows \cap Own : p.rows[i].status = "delivered" => state[i] = "delivered"
Sound(p) == p = Asked \/ p = Failed \/ (Answered(p) /\ \E c \in 1..(Len(log) + 1) : Covers(p, c))

(* The refresh that still counts: what its page does not say yet the list does. *)
Knows(p, c) ==
  /\ \A k \in c..Len(log) : \A i \in Own : i = log[k] => i \in DOMAIN rows /\ Local(i)
  /\ \A i \in DOMAIN p.rows \cap Own : p.rows[i].status # "delivered" =>
       i \in DOMAIN rows /\ rows[i].status # "delivered"
AskedFor == {asks[k].page : k \in DOMAIN asks}
Newest == asks[Len(asks)].page
Asks ==
  /\ \A p \in AskedFor : Sound(p)
  /\ counts => asks # <<>>
  /\ counts => \A p \in {Newest} : Answered(p) =>
       \E c \in 1..(Len(log) + 1) : Covers(p, c) /\ Knows(p, c)

(* The earlier page that is under way ends where the list begins, or is abandoned. *)
Earlier ==
  /\ \A p \in {earlier.page} : p = Asked \/ p = Failed \/
       (p.is = "page" /\ \E c \in 1..(Len(log) + 1) : c = earlier.at /\ Covers(p, c))
  /\ earlier.at # 0 /\ earlier.fresh => earlier.at = cursor

(* What is known of the newest page. *)
UpToDate ==
  /\ ~counts /\ ~missed => loaded
  /\ ~counts /\ ~missed /\ ~behind => \A i \in DOMAIN Latest.rows :
       i \in DOMAIN rows /\ (i \in Own => rows[i].status = state[i])
  /\ counts /\ ~behind /\ Answered(Newest) => Newest.rows = Latest.rows

Inv ==
  /\ Types /\ Log /\ Kept /\ OneCall /\ Delivery
  /\ Shown /\ Asks /\ Earlier /\ UpToDate /\ NoGapUnlessUnproved

---------------------------------------------------------------------------
LEMMA MergeFacts ==
  ASSUME NEW f, NEW g
  PROVE  /\ DOMAIN Merge(f, g) = DOMAIN f \cup DOMAIN g
         /\ \A i \in DOMAIN g : Merge(f, g)[i] = g[i]
         /\ \A i \in DOMAIN f \ DOMAIN g : Merge(f, g)[i] = f[i]
BY DEF Merge

LEMMA RestrictFacts ==
  ASSUME NEW f, NEW S
  PROVE  /\ DOMAIN Restrict(f, S) = S
         /\ \A i \in S : Restrict(f, S)[i] = f[i]
BY DEF Restrict

LEMMA RemoveAtFacts ==
  ASSUME NEW S, NEW s \in Seq(S), NEW k \in 1..Len(s)
  PROVE  /\ RemoveAt(s, k) \in Seq(S)
         /\ Len(RemoveAt(s, k)) = Len(s) - 1
         /\ \A j \in 1..(k - 1) : RemoveAt(s, k)[j] = s[j]
         /\ \A j \in k..(Len(s) - 1) : RemoveAt(s, k)[j] = s[j + 1]
<1> DEFINE a == SubSeq(s, 1, k - 1)
           b == SubSeq(s, k + 1, Len(s))
<1>1. a \in Seq(S) /\ Len(a) = k - 1 /\ \A j \in 1..(k - 1) : a[j] = s[j]
  OBVIOUS
<1>2. b \in Seq(S) /\ Len(b) = Len(s) - k /\ \A j \in 1..(Len(s) - k) : b[j] = s[k + j]
  OBVIOUS
<1>3. RemoveAt(s, k) = a \o b
  BY DEF RemoveAt
<1> HIDE DEF a, b
<1>4. (a \o b) \in Seq(S) /\ Len(a \o b) = Len(s) - 1
  <2>1. (a \o b) \in Seq(S) /\ Len(a \o b) = Len(a) + Len(b)
    BY <1>1, <1>2, ConcatProperties
  <2>2. Len(s) \in Nat
    OBVIOUS
  <2> QED
    BY <1>1, <1>2, <2>1, <2>2
<1>5. \A j \in 1..(k - 1) : (a \o b)[j] = s[j]
  BY <1>1, <1>2
<1>6. ASSUME NEW j \in k..(Len(s) - 1)
      PROVE  (a \o b)[j] = s[j + 1]
  <2>1. (a \o b)[j] = b[j - (k - 1)]
    BY <1>1, <1>2
  <2>2. j - (k - 1) \in 1..(Len(s) - k) /\ k + (j - (k - 1)) = j + 1
    OBVIOUS
  <2> QED
    BY <2>1, <2>2, <1>2
<1> QED
  BY <1>3, <1>4, <1>5, <1>6

(* The rows that are typed, and how. *)
LEMMA RowsTyped ==
  ASSUME NEW f \in RowMaps
  PROVE  /\ DOMAIN f \subseteq Ids /\ f = [i \in DOMAIN f |-> f[i]]
         /\ \A i \in DOMAIN f : f[i] \in RowSet
BY DEF RowMaps

LEMMA TypedRows ==
  ASSUME NEW f, DOMAIN f \subseteq Ids, f = [i \in DOMAIN f |-> f[i]],
         \A i \in DOMAIN f : f[i] \in RowSet
  PROVE  f \in RowMaps
BY DEF RowMaps

LEMMA MergeTyped ==
  ASSUME NEW f \in RowMaps, NEW g \in RowMaps
  PROVE  Merge(f, g) \in RowMaps
<1>1. Merge(f, g) = [i \in DOMAIN Merge(f, g) |-> Merge(f, g)[i]]
  BY DEF Merge
<1>2. /\ DOMAIN f \subseteq Ids /\ \A i \in DOMAIN f : f[i] \in RowSet
      /\ DOMAIN g \subseteq Ids /\ \A i \in DOMAIN g : g[i] \in RowSet
  BY RowsTyped
<1>3. /\ DOMAIN Merge(f, g) \subseteq Ids
      /\ \A i \in DOMAIN Merge(f, g) : Merge(f, g)[i] \in RowSet
  BY <1>2 DEF Merge
<1> QED
  BY <1>1, <1>3, TypedRows

LEMMA RestrictTyped ==
  ASSUME NEW f \in RowMaps, NEW S \in SUBSET DOMAIN f
  PROVE  Restrict(f, S) \in RowMaps
<1>1. Restrict(f, S) = [i \in DOMAIN Restrict(f, S) |-> Restrict(f, S)[i]]
  BY DEF Restrict
<1> QED
  BY <1>1, RowsTyped, TypedRows, RestrictFacts

LEMMA EmptyTyped == <<>> \in RowMaps /\ DOMAIN <<>> = {}
<1>1. DOMAIN <<>> = {}
  OBVIOUS
<1>2. <<>> = [i \in DOMAIN <<>> |-> <<>>[i]]
  BY <1>1
<1> QED
  BY <1>1, <1>2, TypedRows

LEMMA RowTyped ==
  ASSUME NEW s \in Status, NEW a \in BOOLEAN, NEW b \in BOOLEAN
  PROVE  /\ Row(s, a, b) \in RowSet /\ Row(s, a, b).status = s
         /\ Row(s, a, b).retry = a /\ Row(s, a, b).unconfirmed = b
BY DEF Row, RowSet

LEMMA LocalIs ==
  ASSUME rows \in RowMaps, NEW i \in DOMAIN rows
  PROVE  /\ Local(i) <=> (rows[i].retry = TRUE \/ rows[i].unconfirmed = TRUE)
         /\ ~Local(i) <=> (rows[i].retry = FALSE /\ rows[i].unconfirmed = FALSE)
<1>1. rows[i].retry \in BOOLEAN /\ rows[i].unconfirmed \in BOOLEAN
  BY RowsTyped DEF RowSet
<1> QED
  BY <1>1 DEF Local

(* A page that the service reads covers what it was asked for. *)
LEMMA FirstIs ==
  ASSUME NEW c \in Nat \ {0}
  PROVE  First(c) \in 1..c /\ (c > 1 => First(c) < c)
BY TimelineAssumption DEF First

LEMMA PageCovers ==
  ASSUME Types, NEW c \in 1..(Len(log) + 1)
  PROVE  /\ Page(c) \in Pages /\ Page(c).is = "page" /\ Page(c).next <= Len(log)
         /\ Covers(Page(c), c)
         /\ \A i \in DOMAIN Page(c).rows \cap Own : Page(c).rows[i].status = state[i]
<1>1. First(c) \in 1..c /\ (c > 1 => First(c) < c)
  BY FirstIs
<1>2. Page(c) = [rows |-> [i \in Before(c) |-> SavedRow(i)],
                 next |-> IF First(c) > 1 THEN First(c) ELSE 0, is |-> "page"]
  BY DEF Page, First, Before
<1>3. Before(c) \subseteq Ids
  BY <1>1 DEF Before, Types
<1>4. ASSUME NEW i \in Before(c)
      PROVE  /\ SavedRow(i) \in RowSet /\ SavedRow(i).retry = FALSE
             /\ SavedRow(i).unconfirmed = FALSE /\ (i \in Own => SavedRow(i).status = state[i])
  <2>1. CASE i \in Own
    <3>1. SavedRow(i) = Row(state[i], FALSE, FALSE)
      BY <2>1 DEF SavedRow
    <3>2. state[i] \in Status
      BY <2>1 DEF Types, States
    <3> QED
      BY <3>1, <3>2 DEF Row, RowSet
  <2>2. CASE i \notin Own
    <3>1. SavedRow(i) = Row("in", FALSE, FALSE)
      BY <2>2 DEF SavedRow
    <3> QED
      BY <3>1, <2>2, RowTyped DEF Status
  <2> QED
    BY <2>1, <2>2
<1> DEFINE r == [i \in Before(c) |-> SavedRow(i)]
<1>5. r \in RowMaps
  BY <1>3, <1>4, TypedRows
<1>6. DOMAIN r = Before(c) /\ \A i \in Before(c) : r[i] = SavedRow(i)
  OBVIOUS
<1> HIDE DEF r
<1>7. /\ Page(c).rows = r /\ Page(c).is = "page"
      /\ Page(c).next = IF First(c) > 1 THEN First(c) ELSE 0
  BY <1>2 DEF r
<1>8. Page(c).next \in Nat /\ Page(c).next <= Len(log)
  BY <1>1, <1>7 DEF Types
<1>9. Page(c) \in Pages
  BY <1>2, <1>5, <1>7, <1>8 DEF Pages, r
<1>10. Covers(Page(c), c)
  BY <1>4, <1>6, <1>7 DEF Covers
<1> QED
  BY <1>4, <1>6, <1>7, <1>8, <1>9, <1>10

LEMMA LatestCovers ==
  ASSUME Types
  PROVE  /\ Latest \in Pages /\ Latest.is = "page" /\ Latest.next <= Len(log)
         /\ Covers(Latest, Len(log) + 1)
         /\ \A i \in DOMAIN Latest.rows \cap Own : Latest.rows[i].status = state[i]
BY PageCovers DEF Latest, Types

LEMMA NoAnswer == Asked \in Pages /\ Failed \in Pages /\ Asked.is = "asked" /\ Failed.is = "failed"
<1>1. Asked \in Pages /\ Asked.is = "asked"
  BY EmptyTyped DEF Asked, Pages
<1> QED
  BY <1>1 DEF Failed, Pages

LEMMA OfflineCovers ==
  ASSUME Types, Offline # Failed
  PROVE  /\ Offline \in Pages /\ Offline.is = "offline" /\ Offline.rows = Latest.rows
         /\ Offline.next = 0 /\ Covers(Offline, Len(log) + 1)
<1>1. Offline = [Latest EXCEPT !.next = 0, !.is = "offline"]
  BY DEF Offline
<1>2. Latest \in Pages /\ Covers(Latest, Len(log) + 1)
  BY LatestCovers
<1>3. /\ Offline \in Pages /\ Offline.is = "offline" /\ Offline.rows = Latest.rows
      /\ Offline.next = 0
  BY <1>1, <1>2 DEF Pages
<1> QED
  BY <1>2, <1>3 DEF Covers

---------------------------------------------------------------------------
(* What stays when the log only grows and what is delivered stays delivered. *)
Grows ==
  /\ log' = log \/ \E x \in Ids : log' = Append(log, x)
  /\ \A i \in Own : state[i] = "delivered" => state'[i] = "delivered"

LEMMA LogGrows ==
  ASSUME Types, Grows
  PROVE  /\ Len(log') \in Nat /\ Len(log) \in Nat /\ Len(log) <= Len(log')
         /\ \A k \in 1..Len(log) : log'[k] = log[k]
         /\ Saved \subseteq Saved'
<1>1. log \in Seq(Ids) /\ Len(log) \in Nat
  BY DEF Types
<1>2. CASE log' = log
  BY <1>1, <1>2 DEF Saved
<1>3. CASE \E x \in Ids : log' = Append(log, x)
  <2>1. PICK x \in Ids : log' = Append(log, x)
    BY <1>3
  <2>2. Len(log') = Len(log) + 1 /\ \A k \in 1..Len(log) : log'[k] = log[k]
    BY <1>1, <2>1
  <2>3. DOMAIN log = 1..Len(log) /\ DOMAIN log' = 1..(Len(log) + 1)
    BY <1>1, <2>1
  <2>4. Saved \subseteq Saved'
    BY <1>1, <2>2, <2>3 DEF Saved
  <2> QED
    BY <1>1, <2>2, <2>4
<1> QED
  BY <1>2, <1>3 DEF Grows

LEMMA CoversStays ==
  ASSUME Types, Grows, NEW p, NEW c \in 1..(Len(log) + 1), Covers(p, c)
  PROVE  c \in 1..(Len(log') + 1) /\ Covers(p, c)'
<1>1. /\ Len(log') \in Nat /\ Len(log) \in Nat /\ Len(log) <= Len(log')
      /\ \A k \in 1..Len(log) : log'[k] = log[k]
  BY LogGrows
<1>2. First(c) \in 1..c
  BY <1>1, FirstIs
<1>3. \A k \in First(c)..(c - 1) : k \in 1..Len(log)
  BY <1>1, <1>2
<1>4. Before(c)' = Before(c)
  BY <1>1, <1>3 DEF Before
<1> QED
  BY <1>1, <1>4 DEF Covers, Grows

LEMMA SoundStays ==
  ASSUME Types, Grows, NEW p, Sound(p)
  PROVE  Sound(p)'
BY CoversStays DEF Sound

(* The list keeps its rows and their words, and may have more. *)
Extends ==
  \A i \in DOMAIN rows : i \in DOMAIN rows' /\ rows'[i] = rows[i]

LEMMA AsksStay ==
  ASSUME Inv, Types', Grows, Extends, UNCHANGED <<asks, counts>>,
         \A k \in (Len(log) + 1)..Len(log') : \A i \in Own : i = log'[k] =>
           i \in DOMAIN rows /\ Local(i)
  PROVE  Asks'
<1>1. \A p \in AskedFor' : Sound(p)'
  <2>1. AskedFor' = AskedFor
    BY DEF AskedFor
  <2> QED
    BY <2>1, SoundStays DEF Inv, Asks
<1>2. ASSUME NEW p \in {Newest}, counts, Answered(p)
      PROVE  \E c \in 1..(Len(log') + 1) : Covers(p, c)' /\ Knows(p, c)'
  <2>2. PICK c \in 1..(Len(log) + 1) : Covers(p, c) /\ Knows(p, c)
    BY <1>2 DEF Inv, Asks
  <2>3. c \in 1..(Len(log') + 1) /\ Covers(p, c)'
    BY <2>2, CoversStays DEF Inv
  <2>4. /\ Len(log') \in Nat /\ Len(log) \in Nat
        /\ \A k \in 1..Len(log) : log'[k] = log[k]
    BY LogGrows DEF Inv
  <2>5. ASSUME NEW k \in c..Len(log'), NEW i \in Own, i = log'[k]
        PROVE  i \in DOMAIN rows' /\ Local(i)'
    <3>1. i \in DOMAIN rows /\ Local(i)
      <4>1. CASE k <= Len(log)
        BY <2>2, <2>4, <2>5, <4>1 DEF Knows
      <4>2. CASE k > Len(log)
        BY <2>4, <2>5, <4>2
      <4> QED
        BY <2>4, <4>1, <4>2
    <3> QED
      BY <3>1 DEF Extends, Local
  <2>6. Knows(p, c)'
    BY <2>2, <2>5 DEF Knows, Extends
  <2> QED
    BY <2>3, <2>6
<1>3. (counts => asks # <<>>)' /\ Newest' = Newest /\ counts' = counts
  BY DEF Inv, Asks, Newest
<1> QED
  BY <1>1, <1>2, <1>3 DEF Asks, Answered

LEMMA LogStays ==
  ASSUME Inv, UNCHANGED log, left' \in Nat, left' <= left
  PROVE  Log'
<1>1. Saved' = Saved
  BY DEF Saved
<1>2. PICK n \in 0..Budget : Counted(n)
  BY DEF Inv, Log
<1>3. Counted(n)'
  <2>1. left \in Nat /\ Budget \in Nat
    BY TimelineAssumption DEF Inv, Types
  <2>2. Saved' \cap Theirs = 1..n
    BY <1>1, <1>2 DEF Counted
  <2>3. n + left' <= Budget
    <3>1. n + left <= Budget
      BY <1>2 DEF Counted
    <3>2. n \in Nat
      OBVIOUS
    <3>3. \A a, b, c, d \in Nat : a + b <= d /\ c <= b => a + c <= d
      OBVIOUS
    <3> QED
      BY <2>1, <3>1, <3>2, <3>3
  <2> QED
    BY <2>2, <2>3 DEF Counted
<1> QED
  BY <1>1, <1>3 DEF Log, Inv

LEMMA KeptStays ==
  ASSUME Inv, Types', UNCHANGED <<log, draft, carried>>, DOMAIN rows' = DOMAIN rows,
         \A c \in calls' : \E d \in calls : d.id = c.id
  PROVE  Kept'
BY DEF Kept, Inv, Saved

LEMMA OneCallStays ==
  ASSUME Inv, UNCHANGED <<log, sending, calls>>
  PROVE  OneCall'
BY DEF OneCall, Inv, Saved

LEMMA DeliveryStays ==
  ASSUME Inv, UNCHANGED <<log, state, calls>>
  PROVE  Delivery'
BY DEF Delivery, Inv, Saved

LEMMA LatestStays ==
  ASSUME UNCHANGED <<log, state>>
  PROVE  Latest' = Latest /\ Saved' = Saved
BY DEF Latest, Page, SavedRow, Saved

LEMMA ShownStays ==
  ASSUME Inv, UNCHANGED <<log, state, rows, loaded, cursor, carried>>,
         loaded \/ earlier'.at = earlier.at
  PROVE  Shown'
<1>1. Latest' = Latest /\ Saved' = Saved
  BY LatestStays
<1> QED
  BY <1>1 DEF Shown, Inv, Local

LEMMA EarlierStays ==
  ASSUME Inv, Grows, UNCHANGED <<earlier, cursor>>
  PROVE  Earlier'
<1>1. ASSUME NEW p \in {earlier.page}
      PROVE  p = Asked \/ p = Failed \/
        (p.is = "page" /\ \E c \in 1..(Len(log') + 1) : c = earlier.at /\ Covers(p, c)')
  BY <1>1, CoversStays DEF Inv, Earlier
<1> QED
  BY <1>1 DEF Inv, Earlier, Asked, Failed

LEMMA UpToDateStays ==
  ASSUME Inv, Extends, UNCHANGED <<log, state, behind, asks, counts, missed>>, loaded => loaded'
  PROVE  UpToDate'
<1>1. Latest' = Latest /\ Newest' = Newest
  BY LatestStays DEF Newest
<1> QED
  BY <1>1 DEF UpToDate, Inv, Extends, Answered

LEMMA NoGapStays ==
  ASSUME Inv, Types', Log', Grows, UNCHANGED <<cursor, unproved>>,
         Confirmed' \subseteq Confirmed, DOMAIN rows \cap Saved \subseteq DOMAIN rows',
         loaded' => loaded \/ Confirmed' = {}
  PROVE  NoGapUnlessUnproved'
<1> SUFFICES ASSUME loaded', unproved' = {}, NEW k \in DOMAIN log', k >= cursor',
                    NEW n \in DOMAIN log', log'[n] \in Confirmed', k <= n
             PROVE  log'[k] \in DOMAIN rows'
  BY DEF NoGapUnlessUnproved, Contiguous, Reached
<1>1. /\ Len(log') \in Nat /\ Len(log) \in Nat /\ Len(log) <= Len(log')
      /\ \A j \in 1..Len(log) : log'[j] = log[j]
      /\ DOMAIN log = 1..Len(log) /\ DOMAIN log' = 1..Len(log')
  BY LogGrows DEF Inv, Types
<1>2. loaded /\ log'[n] \in Confirmed
  OBVIOUS
<1>3. log'[n] \in Saved
  BY <1>2 DEF Inv, Shown, Confirmed
<1>4. n \in 1..Len(log) /\ log[n] = log'[n]
  <2>1. PICK m \in 1..Len(log) : log[m] = log'[n]
    BY <1>1, <1>3 DEF Saved
  <2>2. m \in DOMAIN log' /\ log'[m] = log'[n]
    BY <1>1, <2>1
  <2> QED
    BY <1>1, <2>1, <2>2 DEF Log
<1> QED
  BY <1>1, <1>2, <1>4 DEF Inv, NoGapUnlessUnproved, Contiguous, Reached, Saved

LEMMA GrowsNot ==
  ASSUME UNCHANGED <<log, state>>
  PROVE  Grows
BY DEF Grows

(* A refresh that is asked for anew has no answer yet. *)
LEMMA AskTyped ==
  ASSUME Inv, NEW r \in BOOLEAN, Ask(r)
  PROVE  /\ asks' \in Seq(Asking) /\ counts' = TRUE
         /\ Newest' = Asked /\ AskedFor' \subseteq AskedFor \cup {Asked} /\ asks' # <<>>
<1> DEFINE a == [page |-> Asked, replace |-> r]
<1>1. a \in Asking /\ a.page = Asked
  BY NoAnswer DEF Asking
<1>2. asks \in Seq(Asking) /\ asks' = Append(asks, a) /\ counts' = TRUE
  BY DEF Ask, Inv, Types
<1> HIDE DEF a
<1>3. /\ asks' \in Seq(Asking) /\ Len(asks') = Len(asks) + 1 /\ Len(asks) \in Nat
      /\ asks'[Len(asks) + 1] = a /\ \A k \in 1..Len(asks) : asks'[k] = asks[k]
      /\ DOMAIN asks = 1..Len(asks) /\ DOMAIN asks' = 1..(Len(asks) + 1)
  BY <1>1, <1>2
<1>4. Newest' = Asked
  BY <1>1, <1>3 DEF Newest
<1>5. AskedFor' \subseteq AskedFor \cup {Asked}
  <2> SUFFICES ASSUME NEW k \in DOMAIN asks'
               PROVE  asks'[k].page \in AskedFor \cup {Asked}
    BY DEF AskedFor
  <2>1. CASE k = Len(asks) + 1
    BY <1>1, <1>3, <2>1
  <2>2. CASE k \in 1..Len(asks)
    BY <1>3, <2>2 DEF AskedFor
  <2> QED
    BY <1>3, <2>1, <2>2
<1> QED
  BY <1>2, <1>3, <1>4, <1>5

LEMMA AskedAgain ==
  ASSUME Inv, NEW r \in BOOLEAN, Ask(r), UNCHANGED <<log, state>>
  PROVE  Asks' /\ UpToDate'
<1>1. /\ counts' = TRUE /\ Newest' = Asked /\ AskedFor' \subseteq AskedFor \cup {Asked}
      /\ asks' # <<>>
  BY AskTyped
<1>2. ~Answered(Asked)
  BY NoAnswer DEF Answered
<1>3. \A p \in AskedFor' : Sound(p)'
  <2>1. \A p \in AskedFor : Sound(p)'
    BY GrowsNot, SoundStays DEF Inv, Asks
  <2>2. Sound(Asked)'
    BY DEF Sound, Asked
  <2> QED
    BY <1>1, <2>1, <2>2 DEF Asked
<1>4. Asks'
  BY <1>1, <1>2, <1>3 DEF Asks, Answered, Asked
<1>5. UpToDate'
  BY <1>1, <1>2 DEF UpToDate, Answered, Asked
<1> QED
  BY <1>4, <1>5

(* Reading, without a change of the list. *)
LEMMA NoticeStep ==
  ASSUME Inv, Notice \/ TryAgain
  PROVE  Inv'
<1>1. /\ UNCHANGED <<log, state, list, earlier, device, error, missed, writing, left>>
      /\ Ask(FALSE) /\ behind' \in BOOLEAN
  BY DEF Notice, TryAgain, service, Inv, Types
<1>2. Types'
  BY <1>1, AskTyped DEF Inv, Types, list, writing
<1>3. Asks' /\ UpToDate'
  BY <1>1, AskedAgain
<1>4. /\ UNCHANGED <<log, state, rows, loaded, cursor, unproved, earlier, draft, sending,
                     retrying, calls, carried, left>>
  BY <1>1 DEF list, writing
<1>5. Log' /\ Kept' /\ OneCall' /\ Delivery' /\ Shown' /\ Earlier'
  BY <1>2, <1>4, LogStays, KeptStays, OneCallStays, DeliveryStays, ShownStays, EarlierStays,
     GrowsNot DEF Inv, Types
<1>6. NoGapUnlessUnproved'
  BY <1>2, <1>4, <1>5, NoGapStays, GrowsNot DEF Confirmed, Local
<1> QED
  BY <1>2, <1>3, <1>5, <1>6 DEF Inv

LEMMA ReadingOnly ==
  ASSUME Inv, Types',
         UNCHANGED <<log, state, rows, loaded, cursor, unproved, draft, sending, calls, carried>>,
         left' <= left, loaded \/ earlier'.at = earlier.at
  PROVE  Log' /\ Kept' /\ OneCall' /\ Delivery' /\ Shown' /\ NoGapUnlessUnproved'
<1>1. left' \in Nat
  BY TimelineAssumption DEF Types
<1>2. Log' /\ Kept' /\ OneCall' /\ Delivery' /\ Shown'
  BY <1>1, LogStays, KeptStays, OneCallStays, DeliveryStays, ShownStays
<1>3. NoGapUnlessUnproved'
  BY <1>2, NoGapStays, GrowsNot DEF Confirmed, Local
<1> QED
  BY <1>2, <1>3

LEMMA FewerAsks ==
  ASSUME Inv, Grows, AskedFor' \subseteq AskedFor, ~counts'
  PROVE  Asks'
BY SoundStays DEF Asks, Inv

LEMMA CancelStep ==
  ASSUME Inv, CancelRefresh
  PROVE  Inv'
<1>1. /\ counts' = FALSE /\ missed' = TRUE
      /\ UNCHANGED <<log, state, behind, rows, loaded, cursor, unproved, asks, earlier, device,
                     error, draft, sending, retrying, calls, carried, left>>
  BY DEF CancelRefresh, service, list, writing
<1>2. Types'
  BY <1>1 DEF Inv, Types
<1>3. Asks'
  BY <1>1, FewerAsks, GrowsNot DEF AskedFor
<1>4. UpToDate'
  BY <1>1 DEF UpToDate
<1>5. Earlier'
  BY <1>1, EarlierStays, GrowsNot
<1>6. left' <= left
  BY <1>1, TimelineAssumption DEF Inv, Types
<1> QED
  BY <1>1, <1>2, <1>3, <1>4, <1>5, <1>6, ReadingOnly DEF Inv

LEMMA AnswerTyped ==
  ASSUME Inv, NEW k \in DOMAIN asks, NEW p \in Pages, asks' = [asks EXCEPT ![k].page = p]
  PROVE  /\ asks' \in Seq(Asking) /\ Len(asks') = Len(asks) /\ asks' # <<>>
         /\ AskedFor' \subseteq AskedFor \cup {p}
         /\ Newest' = IF k = Len(asks) THEN p ELSE Newest
<1>1. asks \in Seq(Asking) /\ Len(asks) \in Nat /\ DOMAIN asks = 1..Len(asks)
  BY DEF Inv, Types
<1>2. asks[k] \in Asking
  BY <1>1
<1>3. PICK a : a = [asks[k] EXCEPT !.page = p]
  OBVIOUS
<1>4. a \in Asking /\ a.page = p
  BY <1>2, <1>3 DEF Asking
<1>5. asks' = [asks EXCEPT ![k] = a]
  BY <1>3
<1>6. asks' \in Seq(Asking) /\ Len(asks') = Len(asks) /\ DOMAIN asks' = DOMAIN asks
  BY <1>1, <1>4, <1>5
<1>7. \A j \in DOMAIN asks : asks'[j].page = IF j = k THEN p ELSE asks[j].page
  BY <1>1, <1>4, <1>5
<1>8. Newest' = IF k = Len(asks) THEN p ELSE Newest
  BY <1>1, <1>6, <1>7 DEF Newest
<1>9. AskedFor' \subseteq AskedFor \cup {p}
  BY <1>6, <1>7 DEF AskedFor
<1> QED
  BY <1>1, <1>6, <1>8, <1>9

LEMMA AnswerAskStep ==
  ASSUME Inv, NEW k \in DOMAIN asks, AnswerAsk(k)
  PROVE  Inv'
<1>1. PICK p \in {Latest, Failed, Offline} :
        asks' = [asks EXCEPT ![k].page = p] /\ (UNCHANGED left \/ Fault)
  BY DEF AnswerAsk
<1>2. /\ UNCHANGED <<log, state, behind, rows, loaded, cursor, unproved, counts, earlier, device,
                     error, missed, draft, sending, retrying, calls, carried>>
  BY DEF AnswerAsk, service, list, writing
<1>3. left' \in 0..Budget /\ left' <= left
  BY <1>1, TimelineAssumption DEF Fault, Spend, Inv, Types
<1>4. p = Failed \/ (Answered(p) /\ p.rows = Latest.rows /\ Covers(p, Len(log) + 1))
  BY <1>1, LatestCovers, OfflineCovers DEF Answered, Inv
<1>5. p \in Pages
  BY <1>1, LatestCovers, OfflineCovers, NoAnswer DEF Inv
<1>6. /\ asks' \in Seq(Asking) /\ asks' # <<>> /\ AskedFor' \subseteq AskedFor \cup {p}
      /\ Newest' = IF k = Len(asks) THEN p ELSE Newest
  BY <1>1, <1>5, AnswerTyped
<1>7. Types'
  BY <1>2, <1>3, <1>6 DEF Inv, Types
<1>8. Len(log) \in Nat /\ Len(log) + 1 \in 1..(Len(log) + 1)
  BY DEF Inv, Types
<1>9. Sound(p)
  BY <1>4, <1>8 DEF Sound
<1>10. \A q \in AskedFor' : Sound(q)'
  BY <1>2, <1>6, <1>9, GrowsNot, SoundStays DEF Inv, Asks
<1>11. ASSUME Answered(p)
       PROVE  Knows(p, Len(log) + 1)
  <2>1. p.rows = Latest.rows
    BY <1>4, <1>11, NoAnswer DEF Answered
  <2>2. ASSUME NEW i \in DOMAIN p.rows \cap Own, p.rows[i].status # "delivered"
        PROVE  i \in DOMAIN rows /\ rows[i].status # "delivered"
    <3>1. state[i] # "delivered"
      BY <2>1, <2>2, LatestCovers DEF Inv
    <3> QED
      BY <2>1, <3>1 DEF Inv, Shown
  <2> QED
    BY <1>8, <2>2 DEF Knows
<1>12. ASSUME NEW q \in {Newest'}, counts', Answered(q)
       PROVE  \E c \in 1..(Len(log) + 1) : Covers(q, c) /\ Knows(q, c)
  <2>1. CASE k = Len(asks)
    <3>1. q = p
      BY <1>6, <1>12, <2>1
    <3>2. Covers(p, Len(log) + 1) /\ Knows(p, Len(log) + 1)
      BY <1>4, <1>11, <1>12, <3>1, NoAnswer DEF Answered
    <3> QED
      BY <1>8, <3>1, <3>2
  <2>2. CASE k # Len(asks)
    BY <1>2, <1>6, <1>12, <2>2 DEF Inv, Asks
  <2> QED
    BY <2>1, <2>2
<1>13. Asks'
  <2>1. ASSUME NEW q, NEW c \in 1..(Len(log) + 1), Covers(q, c), Knows(q, c)
        PROVE  Covers(q, c)' /\ Knows(q, c)'
    BY <1>2, <2>1, GrowsNot, CoversStays DEF Knows, Local, Inv
  <2> QED
    BY <1>2, <1>6, <1>10, <1>12, <2>1 DEF Asks, Answered
<1>14. UpToDate'
  <2>1. Latest' = Latest
    BY <1>2, LatestStays
  <2>2. counts' /\ ~behind' /\ Answered(Newest)' => Newest'.rows = Latest.rows
    <3>1. CASE k = Len(asks)
      BY <1>4, <1>6, <3>1, NoAnswer DEF Answered
    <3>2. CASE k # Len(asks)
      BY <1>2, <1>6, <3>2 DEF Inv, UpToDate, Answered
    <3> QED
      BY <3>1, <3>2
  <2> QED
    BY <1>2, <2>1, <2>2 DEF UpToDate, Inv
<1>15. Earlier'
  BY <1>2, EarlierStays, GrowsNot
<1> QED
  BY <1>2, <1>3, <1>7, <1>13, <1>14, <1>15, ReadingOnly DEF Inv

LEMMA AskEarlierStep ==
  ASSUME Inv, AskEarlier
  PROVE  Inv'
<1>1. /\ cursor # 0 /\ earlier.at = 0 /\ error' = "none"
      /\ earlier' = [at |-> cursor, page |-> Asked, fresh |-> TRUE]
      /\ UNCHANGED <<log, state, behind, rows, loaded, cursor, unproved, asks, counts, device,
                     missed, draft, sending, retrying, calls, carried, left>>
  BY DEF AskEarlier, service, list, writing
<1>2. loaded
  BY <1>1 DEF Inv, Shown, Types
<1>3. earlier' \in [at : Nat, page : Pages, fresh : BOOLEAN] /\ earlier'.at <= Len(log)
  BY <1>1, NoAnswer DEF Inv, Types
<1>4. Types'
  BY <1>1, <1>3 DEF Inv, Types
<1>5. Asks' /\ UpToDate'
  <2>1. Extends /\ Len(log') = Len(log) /\ Len(log) \in Nat
    BY <1>1 DEF Extends, Inv, Types
  <2>2. (Len(log) + 1)..Len(log') = {}
    BY <2>1
  <2> QED
    BY <1>1, <1>4, <2>1, <2>2, AsksStay, UpToDateStays, GrowsNot
<1>6. Earlier'
  BY <1>1 DEF Earlier, Asked
<1>7. left' <= left
  BY <1>1, TimelineAssumption DEF Inv, Types
<1> QED
  BY <1>1, <1>2, <1>4, <1>5, <1>6, <1>7, ReadingOnly DEF Inv

LEMMA AnswerEarlierStep ==
  ASSUME Inv, AnswerEarlier
  PROVE  Inv'
<1>1. /\ earlier.at # 0
      /\ UNCHANGED <<log, state, behind, rows, loaded, cursor, unproved, asks, counts, device,
                     error, missed, draft, sending, retrying, calls, carried>>
  BY DEF AnswerEarlier, service, list, writing
<1>2. PICK p \in {Page(earlier.at), Failed} :
        earlier' = [earlier EXCEPT !.page = p] /\ (UNCHANGED left \/ Fault)
  BY DEF AnswerEarlier
<1>3. left' \in 0..Budget /\ left' <= left
  BY <1>2, TimelineAssumption DEF Fault, Spend, Inv, Types
<1>4. earlier \in [at : Nat, page : Pages, fresh : BOOLEAN] /\ earlier.at \in 1..(Len(log) + 1)
  BY <1>1 DEF Inv, Types
<1>5. p \in Pages /\ (p = Failed \/ (p.is = "page" /\ Covers(p, earlier.at)))
  BY <1>2, <1>4, PageCovers, NoAnswer DEF Inv
<1>6. /\ earlier' \in [at : Nat, page : Pages, fresh : BOOLEAN]
      /\ earlier'.at = earlier.at /\ earlier'.fresh = earlier.fresh /\ earlier'.page = p
  BY <1>2, <1>4, <1>5
<1>7. Types'
  BY <1>1, <1>3, <1>6 DEF Inv, Types
<1>8. Asks' /\ UpToDate'
  <2>1. Extends /\ Len(log') = Len(log) /\ Len(log) \in Nat
    BY <1>1 DEF Extends, Inv, Types
  <2>2. (Len(log) + 1)..Len(log') = {}
    BY <2>1
  <2> QED
    BY <1>1, <1>7, <2>1, <2>2, AsksStay, UpToDateStays, GrowsNot
<1>9. Earlier'
  <2>2. PICK c \in 1..(Len(log) + 1) : c = earlier.at
    BY <1>4
  <2>3. p = Failed \/ (p.is = "page" /\ Covers(p, c)')
    BY <1>1, <1>4, <1>5, <2>2, CoversStays, GrowsNot DEF Inv
  <2> QED
    BY <1>1, <1>6, <2>2, <2>3 DEF Earlier, Inv, Failed, Asked
<1> QED
  BY <1>1, <1>3, <1>6, <1>7, <1>8, <1>9, ReadingOnly DEF Inv

(* An answer is taken, and the list is left as it was. *)
LEMMA TakenTyped ==
  ASSUME Inv, NEW k \in DOMAIN asks, asks' = RemoveAt(asks, k)
  PROVE  /\ asks' \in Seq(Asking) /\ AskedFor' \subseteq AskedFor
         /\ k # Len(asks) => asks' # <<>> /\ Newest' = Newest
<1>1. asks \in Seq(Asking) /\ Len(asks) \in Nat /\ DOMAIN asks = 1..Len(asks)
  BY DEF Inv, Types
<1>2. /\ asks' \in Seq(Asking) /\ Len(asks') = Len(asks) - 1
      /\ \A j \in 1..(k - 1) : asks'[j] = asks[j]
      /\ \A j \in k..(Len(asks) - 1) : asks'[j] = asks[j + 1]
  <2>1. k \in 1..Len(asks)
    BY <1>1
  <2> QED
    BY <1>1, <2>1, RemoveAtFacts
<1>3. DOMAIN asks' = 1..(Len(asks) - 1) /\ k \in 1..Len(asks)
  BY <1>1, <1>2
<1>4. ASSUME NEW j \in DOMAIN asks'
      PROVE  asks'[j].page \in AskedFor
  <2>1. CASE j < k
    BY <1>1, <1>2, <1>3, <2>1 DEF AskedFor
  <2>2. CASE j >= k
    <3>1. j \in k..(Len(asks) - 1) /\ j + 1 \in DOMAIN asks
      BY <1>1, <1>3, <2>2
    <3> QED
      BY <1>2, <3>1 DEF AskedFor
  <2> QED
    BY <1>3, <2>1, <2>2
<1>5. AskedFor' \subseteq AskedFor
  BY <1>4 DEF AskedFor
<1>6. ASSUME k # Len(asks)
      PROVE  asks' # <<>> /\ Newest' = Newest
  <2>1. Len(asks) - 1 \in k..(Len(asks) - 1) /\ Len(asks) - 1 \in DOMAIN asks'
    BY <1>1, <1>3, <1>6
  <2>2. asks'[Len(asks) - 1] = asks[Len(asks)]
    BY <1>1, <1>2, <2>1
  <2> QED
    BY <1>2, <2>1, <2>2 DEF Newest
<1> QED
  BY <1>2, <1>5, <1>6

LEMMA TakenAsk ==
  ASSUME Inv, NEW k \in DOMAIN asks, ReceiveAsk(k), ~Current(k) \/ asks[k].page = Failed
  PROVE  Inv'
<1>1. /\ asks' = RemoveAt(asks, k) /\ counts' = (counts /\ k # Len(asks))
      /\ UNCHANGED <<log, state, behind, rows, loaded, cursor, unproved, earlier, device,
                     draft, sending, retrying, calls, carried, left>>
      /\ error' \in {"none", "refresh", "earlier"} /\ missed' \in BOOLEAN
      /\ (~Current(k) /\ missed' = missed) \/ (Current(k) /\ missed' = TRUE)
  <2>1. CASE ~Current(k)
    BY <2>1 DEF ReceiveAsk, service, list, writing, Inv, Types
  <2>2. CASE Current(k) /\ asks[k].page = Failed
    BY <2>2 DEF ReceiveAsk, service, list, writing, Inv, Types
  <2> QED
    BY <2>1, <2>2
<1>2. /\ asks' \in Seq(Asking) /\ AskedFor' \subseteq AskedFor
      /\ k # Len(asks) => asks' # <<>> /\ Newest' = Newest
  BY <1>1, TakenTyped
<1>3. counts' \in BOOLEAN
  BY <1>1
<1>4. Types'
  BY <1>1, <1>2, <1>3 DEF Inv, Types
<1>5. Asks' /\ UpToDate'
  <2>1. CASE counts'
    <3>1. counts /\ k # Len(asks) /\ Newest' = Newest /\ asks' # <<>> /\ Latest' = Latest
      BY <1>1, <1>2, <2>1, LatestStays
    <3>2. \A p \in AskedFor' : Sound(p)'
      BY <1>1, <1>2, GrowsNot, SoundStays DEF Inv, Asks
    <3>3. ASSUME NEW p, NEW c \in 1..(Len(log) + 1), Covers(p, c), Knows(p, c)
          PROVE  Covers(p, c)' /\ Knows(p, c)'
      BY <1>1, <3>3, GrowsNot, CoversStays DEF Knows, Local, Inv
    <3>4. Asks'
      BY <1>1, <2>1, <3>1, <3>2, <3>3 DEF Asks, Inv, Answered
    <3>5. UpToDate'
      BY <1>1, <2>1, <3>1 DEF UpToDate, Inv, Answered
    <3> QED
      BY <3>4, <3>5
  <2>2. CASE ~counts'
    <3>1. Asks'
      BY <1>1, <1>2, <2>2, FewerAsks, GrowsNot
    <3>2. UpToDate'
      <4>1. Latest' = Latest
        BY <1>1, LatestStays
      <4>2. missed' = FALSE => ~counts /\ missed = FALSE
        BY <1>1, <1>3, <2>2 DEF Current
      <4> QED
        BY <1>1, <2>2, <4>1, <4>2 DEF UpToDate, Inv
    <3> QED
      BY <3>1, <3>2
  <2> QED
    BY <2>1, <2>2
<1>6. Earlier'
  BY <1>1, EarlierStays, GrowsNot
<1>7. left' <= left
  BY <1>1, TimelineAssumption DEF Inv, Types
<1> QED
  BY <1>1, <1>4, <1>5, <1>6, <1>7, ReadingOnly DEF Inv

---------------------------------------------------------------------------
(* A page that joins the list. *)
LEMMA CoversFacts ==
  ASSUME Types, NEW p, NEW c \in 1..(Len(log) + 1), Covers(p, c)
  PROVE  /\ First(c) \in 1..c /\ p.next \in 0..Len(log) /\ DOMAIN p.rows \subseteq Saved
         /\ \A i \in DOMAIN p.rows : \E k \in First(c)..(c - 1) : i = log[k]
         /\ \A k \in First(c)..(c - 1) : k \in DOMAIN log /\ log[k] \in DOMAIN p.rows
<1>1. First(c) \in 1..c /\ (c > 1 => First(c) < c) /\ Len(log) \in Nat /\ DOMAIN log = 1..Len(log)
  BY FirstIs DEF Types
<1>2. \A k \in First(c)..(c - 1) : k \in 1..Len(log)
  BY <1>1
<1>3. /\ \A i \in DOMAIN p.rows : \E k \in First(c)..(c - 1) : i = log[k]
      /\ \A k \in First(c)..(c - 1) : log[k] \in DOMAIN p.rows
  BY DEF Covers, Before
<1>4. p.next \in 0..Len(log)
  BY <1>1 DEF Covers
<1> QED
  BY <1>1, <1>2, <1>3, <1>4 DEF Saved

Joins(p) ==
  /\ \A i \in DOMAIN rows' : \/ i \in DOMAIN p.rows /\ rows'[i] = p.rows[i]
                             \/ i \in DOMAIN rows /\ rows'[i] = rows[i]
  /\ \A i \in DOMAIN rows : Local(i) => i \in DOMAIN rows'

LEMMA Joined ==
  ASSUME Inv, NEW p, NEW c \in 1..(Len(log) + 1), Covers(p, c), Joins(p), loaded' = TRUE,
         UNCHANGED <<log, state, draft, carried, calls>>,
         \A i \in DOMAIN Latest.rows \cap Own : i \in DOMAIN rows'
  PROVE  Kept' /\ Shown'
<1>1. DOMAIN p.rows \subseteq Saved
  BY CoversFacts DEF Inv
<1>2. Latest' = Latest /\ Saved' = Saved
  BY LatestStays
<1>3. Kept'
  <2>1. ASSUME NEW i \in Own, carried[i] # {}
        PROVE  i \in DOMAIN rows' \/ i \in Saved
    BY <2>1 DEF Inv, Kept, Shown, Joins
  <2>2. ASSUME NEW i \in Own, i \in Saved \/ i \in DOMAIN rows'
        PROVE  carried[i] # {}
    BY <1>1, <2>2 DEF Inv, Kept, Joins
  <2> QED
    BY <1>2, <2>1, <2>2 DEF Inv, Kept
<1>4. Shown'
  <2>1. ASSUME NEW i \in DOMAIN rows'
        PROVE  /\ Local(i)' \/ i \in Saved
               /\ rows'[i].retry = TRUE => rows'[i].unconfirmed = TRUE
               /\ i \in Own /\ rows'[i].status = "delivered" => state[i] = "delivered"
    <3>1. CASE i \in DOMAIN p.rows /\ rows'[i] = p.rows[i]
      BY <1>1, <3>1 DEF Covers
    <3>2. CASE i \in DOMAIN rows /\ rows'[i] = rows[i]
      BY <3>2 DEF Inv, Shown, Local
    <3> QED
      BY <2>1, <3>1, <3>2 DEF Joins
  <2> QED
    BY <1>2, <2>1 DEF Shown
<1> QED
  BY <1>3, <1>4

(* What a page adds leaves no gap when the page follows the list. *)
LEMMA FollowsClosely ==
  ASSUME Inv, NEW p, NEW c \in 1..(Len(log) + 1), Covers(p, c),
         p.is = "page" \/ First(c) = 1, Follows(p), Contiguous,
         NEW k \in DOMAIN log, k >= cursor,
         NEW n \in DOMAIN log, log[n] \in Confirmed \cup DOMAIN p.rows, k <= n
  PROVE  log[k] \in DOMAIN rows \cup DOMAIN p.rows
<1>1. /\ First(c) \in 1..c /\ DOMAIN log = 1..Len(log) /\ Len(log) \in Nat
      /\ \A i \in DOMAIN p.rows : \E j \in First(c)..(c - 1) : i = log[j]
      /\ \A j \in First(c)..(c - 1) : j \in DOMAIN log /\ log[j] \in DOMAIN p.rows
  BY CoversFacts DEF Inv, Types
<1>2. CASE log[n] \in Confirmed
  BY <1>2 DEF Contiguous, Reached
<1>3. CASE log[n] \in DOMAIN p.rows
  <2>1. PICK j \in First(c)..(c - 1) : log[n] = log[j]
    BY <1>1, <1>3
  <2>2. n = j
    BY <1>1, <2>1 DEF Inv, Log
  <2>3. CASE k >= First(c)
    BY <1>1, <2>2, <2>3
  <2>4. CASE k < First(c)
    <3>1. p.next # 0
      BY <1>1, <2>4 DEF Covers
    <3>2. PICK i \in Confirmed : i \in DOMAIN p.rows
      BY <3>1 DEF Follows
    <3>3. PICK m \in First(c)..(c - 1) : i = log[m]
      BY <1>1, <3>2
    <3>4. m \in DOMAIN log /\ k <= m /\ log[m] \in Confirmed
      BY <1>1, <2>4, <3>2, <3>3
    <3> QED
      BY <3>4 DEF Contiguous, Reached
  <2> QED
    BY <1>1, <2>3, <2>4
<1> QED
  BY <1>2, <1>3

LEMMA ReconcileStep ==
  ASSUME Inv, NEW k \in DOMAIN asks, ReceiveAsk(k), Current(k), asks[k].page # Failed
  PROVE  Inv'
<1> PICK p : p = asks[k].page
  OBVIOUS
<1> PICK replace : replace = asks[k].replace
  OBVIOUS
<1>1. /\ p # Asked /\ p # Failed /\ asks' = RemoveAt(asks, k) /\ counts' = FALSE /\ missed' = FALSE
      /\ Reconcile(p, replace) /\ error' \in {"none", "earlier"}
      /\ UNCHANGED <<log, state, behind, device, draft, sending, retrying, calls, carried, left>>
  BY DEF ReceiveAsk, Current, service, writing, Inv, Types
<1>2. counts /\ p = Newest /\ p \in AskedFor /\ p \in Pages
  <2>1. asks[k] \in Asking
    BY DEF Inv, Types
  <2> QED
    BY <2>1 DEF Current, Newest, AskedFor, Asking
<1>3. Answered(p)
  BY <1>1, <1>2 DEF Inv, Asks, Sound
<1>4. PICK c \in 1..(Len(log) + 1) : Covers(p, c) /\ Knows(p, c)
  BY <1>2, <1>3 DEF Inv, Asks
<1>5. /\ First(c) \in 1..c /\ p.next \in 0..Len(log) /\ DOMAIN p.rows \subseteq Saved
      /\ \A i \in DOMAIN p.rows : \E j \in First(c)..(c - 1) : i = log[j]
      /\ \A j \in First(c)..(c - 1) : j \in DOMAIN log /\ log[j] \in DOMAIN p.rows
      /\ Len(log) \in Nat /\ DOMAIN log = 1..Len(log)
  BY <1>4, CoversFacts DEF Inv, Types
<1> PICK reset \in BOOLEAN : reset = Resets(p, replace)
  BY DEF Resets
<1> PICK base : base = IF reset THEN Pending ELSE rows
  OBVIOUS
<1>6. /\ rows' = Merge(base, p.rows) /\ loaded' = TRUE
      /\ cursor' = IF reset THEN p.next ELSE cursor
      /\ earlier' = [earlier EXCEPT !.fresh = @ /\ ~reset]
      /\ unproved' = IF p.is = "offline" /\ Len(log) > PageSize THEN unproved \cup {"offline"}
                     ELSE IF reset THEN {} ELSE unproved
  BY <1>1 DEF Reconcile
<1>7. /\ base \in RowMaps /\ DOMAIN base \subseteq DOMAIN rows
      /\ \A i \in DOMAIN base : base[i] = rows[i]
      /\ \A i \in DOMAIN rows : Local(i) => i \in DOMAIN base
      /\ reset => \A i \in DOMAIN base : Local(i)
      /\ ~reset => base = rows
  <2>1. CASE reset
    <3>1. base = Restrict(rows, DOMAIN rows \ Confirmed)
      BY <2>1 DEF Pending
    <3> QED
      BY <2>1, <3>1, RestrictFacts, RestrictTyped DEF Inv, Types, Confirmed
  <2>2. CASE ~reset
    BY <2>2 DEF Inv, Types
  <2> QED
    BY <2>1, <2>2
<1>8. /\ DOMAIN rows' = DOMAIN base \cup DOMAIN p.rows
      /\ \A i \in DOMAIN p.rows : rows'[i] = p.rows[i]
      /\ \A i \in DOMAIN rows' \ DOMAIN p.rows : i \in DOMAIN rows /\ rows'[i] = rows[i]
  BY <1>6, <1>7 DEF Merge
<1>9. Types'
  <2>1. rows' \in RowMaps
    BY <1>2, <1>6, <1>7, MergeTyped DEF Pages
  <2>2. cursor' \in Nat /\ cursor' <= Len(log)
    BY <1>5, <1>6 DEF Inv, Types
  <2>3. earlier' \in [at : Nat, page : Pages, fresh : BOOLEAN] /\ earlier'.at <= Len(log)
    BY <1>6 DEF Inv, Types
  <2>4. unproved' \subseteq {"published", "offline"}
    BY <1>6 DEF Inv, Types
  <2>5. asks' \in Seq(Asking)
    BY <1>1, TakenTyped
  <2> QED
    BY <1>1, <1>6, <2>1, <2>2, <2>3, <2>4, <2>5 DEF Inv, Types
<1>10. Kept' /\ Shown'
  <2>1. Joins(p)
    BY <1>7, <1>8 DEF Joins
  <2>2. ASSUME NEW i \in DOMAIN Latest.rows \cap Own
        PROVE  i \in DOMAIN rows'
    <3>1. PICK j \in First(Len(log) + 1)..Len(log) : i = log[j]
      BY <1>5, LatestCovers, CoversFacts DEF Inv
    <3>2. CASE j >= c
      BY <1>4, <1>5, <1>7, <1>8, <3>1, <3>2 DEF Knows
    <3>3. CASE j < c
      <4>1. First(c) <= First(Len(log) + 1)
        BY <1>5, TimelineAssumption DEF First
      <4>2. First(c) \in Nat /\ First(Len(log) + 1) \in Nat
        BY <1>5, TimelineAssumption DEF First
      <4>3. j \in First(c)..(c - 1)
        BY <1>5, <3>1, <3>3, <4>1, <4>2
      <4> QED
        BY <1>5, <1>8, <3>1, <4>3
    <3> QED
      BY <1>5, <3>1, <3>2, <3>3, FirstIs
  <2> QED
    BY <1>1, <1>4, <1>6, <2>1, <2>2, Joined
<1>11. Asks'
  BY <1>1, FewerAsks, GrowsNot, TakenTyped
<1>12. UpToDate'
  <2>1. Latest' = Latest
    BY <1>1, LatestStays
  <2>2. ASSUME ~behind
        PROVE  \A i \in DOMAIN Latest.rows :
                 i \in DOMAIN rows' /\ (i \in Own => rows'[i].status = state[i])
    <3>1. p.rows = Latest.rows
      BY <1>2, <1>3, <2>2 DEF Inv, UpToDate
    <3> QED
      BY <1>8, <3>1, LatestCovers DEF Inv
  <2> QED
    BY <1>1, <1>6, <2>1, <2>2 DEF UpToDate
<1>13. Earlier'
  <2>1. /\ earlier'.at = earlier.at /\ earlier'.page = earlier.page
        /\ earlier'.fresh = (earlier.fresh /\ ~reset)
    BY <1>6 DEF Inv, Types
  <2>2. \A q, d : Covers(q, d)' <=> Covers(q, d)
    BY <1>1 DEF Covers, Before
  <2> QED
    BY <1>1, <1>6, <2>1, <2>2 DEF Earlier, Inv, Asked, Failed
<1>14. NoGapUnlessUnproved'
  <2> SUFFICES ASSUME unproved' = {}, NEW j \in DOMAIN log, j >= cursor',
                      NEW n \in DOMAIN log, log[n] \in Confirmed', j <= n
               PROVE  log[j] \in DOMAIN rows'
    BY <1>1 DEF NoGapUnlessUnproved, Contiguous, Reached
  <2>1. p.is = "page" \/ First(c) = 1
    <3>1. CASE p.is = "offline"
      <4>1. ~(Len(log) > PageSize)
        BY <1>6, <3>1
      <4> QED
        BY <1>5, <4>1, TimelineAssumption DEF First
    <3> QED
      BY <1>3, <3>1 DEF Answered
  <2>2. CASE reset
    <3>1. log[n] \in DOMAIN p.rows
      <4>1. PICK i : i = log[n]
        OBVIOUS
      <4>2. i \in DOMAIN rows' /\ ~Local(i)'
        BY <4>1 DEF Confirmed
      <4> QED
        BY <1>7, <1>8, <2>2, <4>1, <4>2 DEF Local
    <3>2. PICK m \in First(c)..(c - 1) : log[n] = log[m]
      BY <1>5, <3>1
    <3>3. n = m
      BY <1>5, <3>2 DEF Inv, Log
    <3>4. j >= First(c)
      BY <1>4, <1>5, <1>6, <2>1, <2>2 DEF Covers
    <3> QED
      BY <1>5, <1>8, <3>3, <3>4
  <2>3. CASE ~reset
    <3>1. rows # <<>> /\ Follows(p)
      BY <2>3 DEF Resets, LostContinuity
    <3>2. Contiguous
      BY <1>6, <2>3, <3>1 DEF Inv, NoGapUnlessUnproved, Shown
    <3>3. log[n] \in Confirmed \cup DOMAIN p.rows
      BY <1>8 DEF Confirmed, Local
    <3>4. log[j] \in DOMAIN rows \cup DOMAIN p.rows
      BY <1>4, <1>6, <2>1, <2>3, <3>1, <3>2, <3>3, FollowsClosely
    <3> QED
      BY <1>7, <1>8, <2>3, <3>4
  <2> QED
    BY <2>2, <2>3
<1>15. Log' /\ OneCall' /\ Delivery'
  <2>1. left' \in Nat /\ left' <= left
    BY <1>1, TimelineAssumption DEF Inv, Types
  <2> QED
    BY <1>1, <2>1, LogStays, OneCallStays, DeliveryStays
<1> QED
  BY <1>9, <1>10, <1>11, <1>12, <1>13, <1>14, <1>15 DEF Inv

(* A page whose rows yield to the rows that are in the list. *)
LEMMA Added ==
  ASSUME Inv, Types', NEW p, NEW c \in 1..(Len(log) + 1), Covers(p, c), Extends,
         \A i \in DOMAIN rows' \ DOMAIN rows : i \in DOMAIN p.rows /\ rows'[i] = p.rows[i],
         loaded' = TRUE,
         UNCHANGED <<log, state, behind, asks, counts, missed, draft, carried, calls, sending, left>>
  PROVE  Log' /\ Kept' /\ OneCall' /\ Delivery' /\ Shown' /\ Asks' /\ UpToDate'
<1>1. Joins(p)
  BY DEF Joins, Extends
<1>2. \A i \in DOMAIN Latest.rows \cap Own : i \in DOMAIN rows'
  BY DEF Inv, Shown, Extends
<1>3. Kept' /\ Shown'
  BY <1>1, <1>2, Joined
<1>4. (Len(log) + 1)..Len(log') = {}
  <2>1. Len(log') = Len(log) /\ Len(log) \in Nat
    BY DEF Inv, Types
  <2> QED
    BY <2>1
<1>5. Asks' /\ UpToDate'
  BY <1>4, AsksStay, UpToDateStays, GrowsNot
<1>6. left' \in Nat /\ left' <= left
  BY TimelineAssumption DEF Inv, Types
<1> QED
  BY <1>3, <1>5, <1>6, LogStays, OneCallStays, DeliveryStays

LEMMA WatchStep ==
  ASSUME Inv, WatchLatest
  PROVE  Inv'
<1>1. PICK n \in device..Len(log) : Published(n)
  BY DEF WatchLatest
<1>2. n \in 0..Len(log) /\ n + 1 \in 1..(Len(log) + 1) /\ Len(log) \in Nat /\ DOMAIN log = 1..Len(log)
  BY <1>1 DEF Inv, Types
<1> PICK p : p = Page(n + 1)
  OBVIOUS
<1>3. p \in Pages /\ p.is = "page" /\ p.next <= Len(log) /\ Covers(p, n + 1)
  BY <1>2, PageCovers DEF Inv
<1>4. /\ device' = n
      /\ UNCHANGED <<log, state, behind, asks, counts, earlier, error, missed, draft, sending,
                     retrying, calls, carried, left>>
  BY <1>1 DEF Published, service, writing
<1>5. p.rows \in RowMaps /\ p.next \in Nat
  BY <1>3 DEF Pages
<1>6. Earlier' \/ cursor' # cursor
  BY <1>4, EarlierStays, GrowsNot
<1>7. CASE loaded
  <2> PICK unseen \in SUBSET DOMAIN p.rows : unseen = DOMAIN p.rows \ DOMAIN rows
    OBVIOUS
  <2>1. /\ rows' = Merge(rows, Restrict(p.rows, unseen)) /\ UNCHANGED <<loaded, cursor>>
        /\ unproved' = IF unseen # {} /\ ~Follows(p) THEN unproved \cup {"published"} ELSE unproved
    BY <1>1, <1>7 DEF Published
  <2>2. DOMAIN Restrict(p.rows, unseen) = unseen /\ Restrict(p.rows, unseen) \in RowMaps
    BY <1>5, RestrictFacts, RestrictTyped
  <2>3. /\ DOMAIN rows' = DOMAIN rows \cup unseen
        /\ \A i \in unseen : rows'[i] = p.rows[i]
        /\ \A i \in DOMAIN rows : rows'[i] = rows[i]
    BY <2>1, <2>2, RestrictFacts DEF Merge
  <2>4. Types'
    <3>1. rows' \in RowMaps
      BY <2>1, <2>2, MergeTyped DEF Inv, Types
    <3>2. unproved' \subseteq {"published", "offline"}
      BY <2>1 DEF Inv, Types
    <3> QED
      BY <1>2, <1>4, <2>1, <3>1, <3>2 DEF Inv, Types
  <2>5. Log' /\ Kept' /\ OneCall' /\ Delivery' /\ Shown' /\ Asks' /\ UpToDate'
    BY <1>2, <1>3, <1>4, <1>7, <2>1, <2>3, <2>4, Added DEF Extends
  <2>6. NoGapUnlessUnproved'
    <3>1. CASE unseen = {}
      <4>1. Confirmed' \subseteq Confirmed /\ DOMAIN rows \subseteq DOMAIN rows'
        BY <2>3, <3>1 DEF Confirmed, Local
      <4>2. unproved' = unproved
        BY <2>1, <3>1
      <4> QED
        BY <1>4, <1>7, <2>1, <2>4, <2>5, <4>1, <4>2, NoGapStays, GrowsNot
    <3>2. CASE unproved' # {}
      BY <3>2 DEF NoGapUnlessUnproved
    <3>3. CASE Follows(p) /\ unproved' = {}
      <4>1. Contiguous
        BY <1>7, <2>1, <3>3 DEF Inv, NoGapUnlessUnproved
      <4> SUFFICES ASSUME NEW j \in DOMAIN log, j >= cursor,
                          NEW m \in DOMAIN log, log[m] \in Confirmed', j <= m
                   PROVE  log[j] \in DOMAIN rows'
        BY <1>4, <2>1 DEF NoGapUnlessUnproved, Contiguous, Reached
      <4>2. log[m] \in Confirmed \cup DOMAIN p.rows
        BY <2>3 DEF Confirmed, Local
      <4>3. log[j] \in DOMAIN rows \cup DOMAIN p.rows
        BY <1>2, <1>3, <3>3, <4>1, <4>2, FollowsClosely
      <4> QED
        BY <2>3, <4>3
    <3> QED
      BY <2>1, <3>1, <3>2, <3>3
  <2> QED
    BY <1>6, <2>1, <2>4, <2>5, <2>6 DEF Inv
<1>8. CASE ~loaded /\ n = 0
  <2>1. UNCHANGED <<rows, loaded, cursor, unproved>>
    BY <1>1, <1>8 DEF Published, list
  <2>2. Types'
    BY <1>2, <1>4, <2>1 DEF Inv, Types
  <2>3. Asks' /\ UpToDate'
    <3>1. Extends /\ (Len(log) + 1)..Len(log') = {}
      BY <1>2, <1>4, <2>1 DEF Extends
    <3> QED
      BY <1>4, <2>1, <2>2, <3>1, AsksStay, UpToDateStays, GrowsNot
  <2>4. left' <= left
    BY <1>4, TimelineAssumption DEF Inv, Types
  <2> QED
    BY <1>4, <1>6, <2>1, <2>2, <2>3, <2>4, ReadingOnly DEF Inv
<1>9. CASE ~loaded /\ n # 0
  <2>1. rows' = p.rows /\ loaded' = TRUE /\ cursor' = p.next /\ UNCHANGED unproved
    BY <1>1, <1>9 DEF Published
  <2>2. rows = <<>> /\ DOMAIN rows = {} /\ earlier.at = 0
    BY <1>9 DEF Inv, Shown
  <2>3. Types'
    BY <1>2, <1>3, <1>4, <1>5, <2>1 DEF Inv, Types
  <2>4. Log' /\ Kept' /\ OneCall' /\ Delivery' /\ Shown' /\ Asks' /\ UpToDate'
    BY <1>2, <1>3, <1>4, <2>1, <2>2, <2>3, Added DEF Extends
  <2>5. Earlier'
    <3>1. \A q, d : Covers(q, d)' <=> Covers(q, d)
      BY <1>4 DEF Covers, Before
    <3> QED
      BY <1>4, <2>2, <3>1 DEF Earlier, Inv, Asked, Failed
  <2>6. NoGapUnlessUnproved'
    <3> SUFFICES ASSUME NEW j \in DOMAIN log, j >= p.next,
                        NEW m \in DOMAIN log, log[m] \in DOMAIN p.rows, j <= m
                 PROVE  log[j] \in DOMAIN p.rows
      BY <1>4, <2>1 DEF NoGapUnlessUnproved, Contiguous, Reached, Confirmed
    <3>1. /\ First(n + 1) \in 1..(n + 1)
          /\ \A i \in DOMAIN p.rows : \E k \in First(n + 1)..n : i = log[k]
          /\ \A k \in First(n + 1)..n : k \in DOMAIN log /\ log[k] \in DOMAIN p.rows
      BY <1>2, <1>3, CoversFacts DEF Inv
    <3>2. PICK k \in First(n + 1)..n : log[m] = log[k]
      BY <3>1
    <3>3. m = k
      BY <3>1, <3>2 DEF Inv, Log
    <3>4. j >= First(n + 1)
      BY <1>2, <1>3, <3>1 DEF Covers
    <3> QED
      BY <1>2, <3>1, <3>3, <3>4
  <2> QED
    BY <2>3, <2>4, <2>5, <2>6 DEF Inv
<1> QED
  BY <1>7, <1>8, <1>9 DEF Inv, Types

LEMMA ReceiveEarlierStep ==
  ASSUME Inv, ReceiveEarlier
  PROVE  Inv'
<1> PICK p : p = earlier.page
  OBVIOUS
<1>1. /\ earlier.at # 0 /\ p # Asked
      /\ earlier' = [at |-> 0, page |-> Asked, fresh |-> FALSE]
      /\ UNCHANGED <<log, state, behind, asks, counts, device, missed, draft, sending, retrying,
                     calls, carried, left>>
  BY DEF ReceiveEarlier, service, writing
<1>2. loaded = TRUE
  BY <1>1 DEF Inv, Shown, Types
<1>3. /\ earlier' \in [at : Nat, page : Pages, fresh : BOOLEAN] /\ earlier'.at = 0
      /\ earlier'.page = Asked /\ earlier'.fresh = FALSE
  BY <1>1, NoAnswer
<1>4. Earlier'
  BY <1>3 DEF Earlier, Asked
<1>5. Len(log) \in Nat /\ left' <= left /\ DOMAIN log = 1..Len(log)
  BY <1>1, TimelineAssumption DEF Inv, Types
<1>6. CASE ~SameChain \/ p = Failed
  <2>1. UNCHANGED <<rows, loaded, cursor, unproved>> /\ error' \in {"none", "refresh", "earlier"}
    <3>1. CASE ~SameChain
      BY <3>1 DEF ReceiveEarlier, list, Inv, Types
    <3>2. CASE SameChain /\ p = Failed
      BY <3>2 DEF ReceiveEarlier, list
    <3> QED
      BY <1>6, <3>1, <3>2
  <2>2. Types'
    BY <1>1, <1>3, <1>5, <2>1 DEF Inv, Types
  <2>3. Extends /\ (Len(log) + 1)..Len(log') = {}
    BY <1>1, <1>5, <2>1 DEF Extends
  <2>4. Asks' /\ UpToDate'
    BY <1>1, <2>1, <2>2, <2>3, AsksStay, UpToDateStays, GrowsNot
  <2> QED
    BY <1>1, <1>2, <1>4, <1>5, <2>1, <2>2, <2>4, ReadingOnly DEF Inv
<1>7. CASE SameChain /\ p # Failed
  <2>1. /\ rows' = Merge(p.rows, rows) /\ cursor' = p.next /\ error' = "none"
        /\ UNCHANGED <<loaded, unproved>>
    BY <1>1, <1>7 DEF ReceiveEarlier
  <2>2. earlier.at = cursor
    BY <1>1, <1>7 DEF SameChain, Inv, Earlier
  <2>3. PICK c \in 1..(Len(log) + 1) : c = cursor /\ p.is = "page" /\ Covers(p, c)
    BY <1>1, <1>7, <2>2 DEF Inv, Earlier
  <2>4. /\ First(c) \in 1..c /\ p.next \in 0..Len(log)
        /\ \A i \in DOMAIN p.rows : \E k \in First(c)..(c - 1) : i = log[k]
        /\ \A k \in First(c)..(c - 1) : k \in DOMAIN log /\ log[k] \in DOMAIN p.rows
    BY <2>3, CoversFacts DEF Inv
  <2>5. p.rows \in RowMaps
    BY DEF Inv, Types, Pages
  <2>6. /\ DOMAIN rows' = DOMAIN rows \cup DOMAIN p.rows
        /\ \A i \in DOMAIN rows : rows'[i] = rows[i]
        /\ \A i \in DOMAIN rows' \ DOMAIN rows : i \in DOMAIN p.rows /\ rows'[i] = p.rows[i]
    BY <2>1 DEF Merge
  <2>7. Types'
    <3>1. rows' \in RowMaps
      BY <2>1, <2>5, MergeTyped DEF Inv, Types
    <3> QED
      BY <1>1, <1>3, <1>5, <2>1, <2>4, <3>1 DEF Inv, Types
  <2>8. Log' /\ Kept' /\ OneCall' /\ Delivery' /\ Shown' /\ Asks' /\ UpToDate'
    BY <1>1, <1>2, <2>1, <2>3, <2>6, <2>7, Added DEF Extends
  <2>9. NoGapUnlessUnproved'
    <3> SUFFICES ASSUME unproved = {}, NEW j \in DOMAIN log, j >= p.next,
                        NEW n \in DOMAIN log, log[n] \in Confirmed', j <= n
                 PROVE  log[j] \in DOMAIN rows'
      BY <1>1, <2>1 DEF NoGapUnlessUnproved, Contiguous, Reached
    <3>1. log[n] \in Confirmed \cup DOMAIN p.rows
      BY <2>6 DEF Confirmed, Local
    <3>2. CASE j < cursor
      <4>1. j >= First(c)
        BY <1>5, <2>3, <2>4 DEF Covers
      <4> QED
        BY <1>5, <2>3, <2>4, <2>6, <3>2, <4>1
    <3>3. CASE j >= cursor
      <4>1. log[n] \in Confirmed
        <5>1. CASE log[n] \in DOMAIN p.rows
          <6>1. PICK k \in First(c)..(c - 1) : log[n] = log[k]
            BY <2>4, <5>1
          <6>2. n = k
            BY <2>4, <6>1 DEF Inv, Log
          <6> QED
            BY <1>5, <2>3, <2>4, <3>3, <6>2
        <5> QED
          BY <3>1, <5>1
      <4>2. Contiguous
        BY <1>2 DEF Inv, NoGapUnlessUnproved
      <4> QED
        BY <2>6, <3>3, <4>1, <4>2 DEF Contiguous, Reached
    <3> QED
      BY <1>5, <2>3, <3>2, <3>3
  <2> QED
    BY <1>4, <2>7, <2>8, <2>9 DEF Inv
<1> QED
  BY <1>6, <1>7

---------------------------------------------------------------------------
(* Writing. *)
LEMMA NothingNewIsAsked ==
  ASSUME Inv, Types', Extends, UNCHANGED <<log, state, behind, asks, counts, missed>>,
         loaded => loaded'
  PROVE  Asks' /\ UpToDate'
<1>1. (Len(log) + 1)..Len(log') = {}
  <2>1. Len(log') = Len(log) /\ Len(log) \in Nat
    BY DEF Inv, Types
  <2> QED
    BY <2>1
<1> QED
  BY <1>1, AsksStay, UpToDateStays, GrowsNot

LEMMA CallTyped ==
  ASSUME NEW i \in Own, NEW kind \in {"send", "retry"}
  PROVE  /\ Call(i, kind) \in CallSet /\ Call(i, kind).id = i /\ Call(i, kind).kind = kind
         /\ Call(i, kind).is = "queued"
BY DEF Call, CallSet, Outcomes

LEMMA TypeStep ==
  ASSUME Inv, NEW w \in Words, Type(w)
  PROVE  Inv'
<1>1. /\ \A o \in Own : w \notin carried[o]
      /\ draft' = draft \cup {w} /\ left >= 2 /\ left' = left - 2
      /\ UNCHANGED <<log, state, behind, rows, loaded, cursor, unproved, asks, counts, earlier,
                     device, error, missed, sending, retrying, calls, carried>>
  BY DEF Type, Spend, service, list, reading
<1>2. left' \in 0..Budget /\ left' <= left
  BY <1>1, TimelineAssumption DEF Inv, Types
<1>3. Types'
  BY <1>1, <1>2 DEF Inv, Types
<1>4. Kept'
  BY <1>1, LatestStays DEF Inv, Kept
<1>5. Asks' /\ UpToDate'
  BY <1>1, <1>3, NothingNewIsAsked DEF Extends
<1>6. Log' /\ OneCall' /\ Delivery' /\ Shown' /\ Earlier'
  BY <1>1, <1>2, LogStays, OneCallStays, DeliveryStays, ShownStays, EarlierStays, GrowsNot
<1>7. NoGapUnlessUnproved'
  BY <1>1, <1>3, <1>6, NoGapStays, GrowsNot DEF Confirmed, Local
<1> QED
  BY <1>3, <1>4, <1>5, <1>6, <1>7 DEF Inv

LEMMA SendStep ==
  ASSUME Inv, NEW i \in Own, Send(i)
  PROVE  Inv'
<1> PICK r : r = Row("sending", TRUE, TRUE)
  OBVIOUS
<1>1. /\ draft # {} /\ sending = None /\ i \notin Saved /\ carried[i] = {}
      /\ \A c \in calls : c.id # i
      /\ rows' = Merge(rows, [j \in {i} |-> r]) /\ loaded' = TRUE
      /\ carried' = [carried EXCEPT ![i] = draft] /\ draft' = {}
      /\ sending' = i /\ calls' = calls \cup {Call(i, "send")}
      /\ UNCHANGED <<log, state, behind, cursor, unproved, asks, counts, earlier, device, error,
                     missed, retrying, left>>
  BY DEF Send, Fresh, service, reading
<1>2. /\ r \in RowSet /\ r.status = "sending" /\ r.retry = TRUE /\ r.unconfirmed = TRUE
  BY RowTyped DEF Status
<1>3. i \notin DOMAIN rows
  BY <1>1 DEF Inv, Kept
<1>4. /\ DOMAIN rows' = DOMAIN rows \cup {i} /\ rows'[i] = r
      /\ \A j \in DOMAIN rows : rows'[j] = rows[j]
  BY <1>1, <1>3 DEF Merge
<1>5. Extends
  BY <1>4 DEF Extends
<1>6. Call(i, "send") \in CallSet /\ Call(i, "send").id = i /\ Call(i, "send").kind = "send"
      /\ Call(i, "send").is = "queued"
  BY CallTyped
<1>7. Types'
  <2>1. [j \in {i} |-> r] \in RowMaps
    BY <1>2, TypedRows DEF Ids
  <2>2. rows' \in RowMaps
    BY <1>1, <2>1, MergeTyped DEF Inv, Types
  <2>3. carried' \in [Own -> SUBSET Words] /\ draft' \subseteq Words
    BY <1>1 DEF Inv, Types
  <2>4. calls' \subseteq CallSet
    BY <1>1, <1>6 DEF Inv, Types
  <2> QED
    BY <1>1, <2>2, <2>3, <2>4 DEF Inv, Types
<1>8. Latest' = Latest /\ Saved' = Saved
  BY <1>1, LatestStays
<1>9. Kept'
  <2>1. \A j \in Own : carried'[j] = IF j = i THEN draft ELSE carried[j]
    BY <1>1 DEF Inv, Types
  <2>2. \A j \in Own : carried'[j] # {} => j \in DOMAIN rows' \/ j \in Saved'
    BY <1>4, <1>8, <2>1 DEF Inv, Kept
  <2>3. \A j \in Own : carried'[j] \cap draft' = {}
    BY <1>1
  <2>4. \A j, k \in Own : j # k => carried'[j] \cap carried'[k] = {}
    BY <2>1 DEF Inv, Kept
  <2>5. \A j \in Own : j \in Saved' \/ j \in DOMAIN rows' => carried'[j] # {}
    BY <1>1, <1>4, <1>8, <2>1 DEF Inv, Kept
  <2>6. \A c \in calls' : carried'[c.id] # {}
    <3>1. \A c \in calls : c.id \in Own /\ carried'[c.id] = carried[c.id]
      BY <1>1, <2>1 DEF Inv, Types, CallSet
    <3> QED
      BY <1>1, <1>6, <2>1, <3>1 DEF Inv, Kept
  <2> QED
    BY <2>2, <2>3, <2>4, <2>5, <2>6 DEF Kept
<1>10. OneCall'
  BY <1>1, <1>6, <1>8 DEF OneCall
<1>11. Delivery'
  BY <1>1, <1>6, <1>8 DEF Inv, Delivery
<1>12. Shown'
  <2>1. ASSUME NEW j \in DOMAIN rows'
        PROVE  /\ Local(j)' \/ j \in Saved
               /\ rows'[j].retry = TRUE => rows'[j].unconfirmed = TRUE
               /\ j \in Own /\ rows'[j].status = "delivered" => state[j] = "delivered"
    <3>1. CASE j = i
      BY <1>2, <1>4, <3>1 DEF Local
    <3>2. CASE j # i
      BY <1>4, <3>2 DEF Inv, Shown, Local
    <3> QED
      BY <3>1, <3>2
  <2> QED
    BY <1>1, <1>4, <1>8, <2>1 DEF Inv, Shown
<1>13. Asks' /\ UpToDate'
  BY <1>1, <1>5, <1>7, NothingNewIsAsked
<1>14. Log' /\ Earlier'
  <2>1. left' \in Nat /\ left' <= left
    BY <1>1, TimelineAssumption DEF Inv, Types
  <2> QED
    BY <1>1, <2>1, LogStays, EarlierStays, GrowsNot
<1>15. NoGapUnlessUnproved'
  <2>1. Confirmed' \subseteq Confirmed
    BY <1>2, <1>4 DEF Confirmed, Local
  <2>2. loaded \/ Confirmed' = {}
    BY <2>1 DEF Inv, Shown, Confirmed
  <2>3. DOMAIN rows \cap Saved \subseteq DOMAIN rows'
    BY <1>4
  <2> QED
    BY <1>1, <1>7, <1>14, <2>1, <2>2, <2>3, NoGapStays, GrowsNot
<1> QED
  BY <1>7, <1>9, <1>10, <1>11, <1>12, <1>13, <1>14, <1>15 DEF Inv

(* Another call, for a message that is in the list. *)
LEMMA RetryStep ==
  ASSUME Inv, NEW i \in Own, Retry(i)
  PROVE  Inv'
<1>1. /\ i \in DOMAIN rows /\ sending = None
      /\ retrying' = [id |-> i, resend |-> rows[i].retry]
      /\ calls' = calls \cup {Call(i, "retry")}
      /\ UNCHANGED <<log, state, behind, rows, loaded, cursor, unproved, asks, counts, earlier,
                     device, error, missed, draft, sending, carried, left>>
  BY DEF Retry, MayRetry, service, list, reading
<1>2. Call(i, "retry") \in CallSet /\ Call(i, "retry").id = i /\ Call(i, "retry").is = "queued"
  BY CallTyped
<1>3. rows[i].retry \in BOOLEAN
  BY <1>1, RowsTyped DEF Inv, Types, RowSet
<1>4. Types'
  BY <1>1, <1>2, <1>3 DEF Inv, Types
<1>5. Saved' = Saved
  BY <1>1, LatestStays
<1>6. Kept'
  BY <1>1, <1>2, <1>5 DEF Inv, Kept
<1>7. OneCall'
  BY <1>1 DEF OneCall
<1>8. Delivery'
  BY <1>1, <1>2, <1>5 DEF Inv, Delivery
<1>9. Asks' /\ UpToDate'
  BY <1>1, <1>4, NothingNewIsAsked DEF Extends
<1>10. Log' /\ Shown' /\ Earlier'
  <2>1. left' \in Nat /\ left' <= left
    BY <1>1, TimelineAssumption DEF Inv, Types
  <2> QED
    BY <1>1, <2>1, LogStays, ShownStays, EarlierStays, GrowsNot
<1>11. NoGapUnlessUnproved'
  BY <1>1, <1>4, <1>10, NoGapStays, GrowsNot DEF Confirmed, Local
<1> QED
  BY <1>4, <1>6, <1>7, <1>8, <1>9, <1>10, <1>11 DEF Inv

LEMMA ReceiveMissingStep ==
  ASSUME Inv, NEW c \in calls, ReceiveMissing(c)
  PROVE  Inv'
<1>1. /\ c.kind = "retry" /\ calls' = (calls \ {c}) \cup {Call(c.id, "send")}
      /\ retrying' = [retrying EXCEPT !.resend = FALSE]
      /\ UNCHANGED <<log, state, behind, rows, loaded, cursor, unproved, asks, counts, earlier,
                     device, error, missed, draft, sending, carried, left>>
  BY DEF ReceiveMissing, Resends, service, list, reading
<1> PICK d : d = Call(c.id, "send")
  OBVIOUS
<1>2. c \in CallSet /\ c.id \in Own
  BY DEF Inv, Types, CallSet
<1>3. d \in CallSet /\ d.id = c.id /\ d.is = "queued"
  BY <1>2, CallTyped
<1>4. Types'
  <2>1. retrying' \in [id : Own \cup {None}, resend : BOOLEAN] /\ calls' \subseteq CallSet
    BY <1>1, <1>3 DEF Inv, Types
  <2> QED
    BY <1>1, <2>1 DEF Inv, Types
<1>5. Saved' = Saved
  BY <1>1, LatestStays
<1>6. Kept'
  BY <1>1, <1>3, <1>5 DEF Inv, Kept
<1>7. OneCall'
  <2>1. sending # None => c.id # sending
    BY <1>1 DEF Inv, OneCall
  <2> QED
    BY <1>1, <1>3, <1>5, <2>1 DEF Inv, OneCall
<1>8. Delivery'
  BY <1>1, <1>3, <1>5 DEF Inv, Delivery
<1>9. Asks' /\ UpToDate'
  BY <1>1, <1>4, NothingNewIsAsked DEF Extends
<1>10. Log' /\ Shown' /\ Earlier'
  <2>1. left' \in Nat /\ left' <= left
    BY <1>1, TimelineAssumption DEF Inv, Types
  <2> QED
    BY <1>1, <2>1, LogStays, ShownStays, EarlierStays, GrowsNot
<1>11. NoGapUnlessUnproved'
  BY <1>1, <1>4, <1>10, NoGapStays, GrowsNot DEF Confirmed, Local
<1> QED
  BY <1>4, <1>6, <1>7, <1>8, <1>9, <1>10, <1>11 DEF Inv

(* An answer, whatever becomes of the call: the list keeps the message and only marks  *)
(* it, or the message goes back into the composer, and that one is not saved.           *)
Unheard(c) == [c EXCEPT !.heard = FALSE]
Leaves(c) ==
  \/ calls' = calls \ {c}
  \/ calls' = (calls \ {c}) \cup {Unheard(c)} /\ c.is \in {"queued", "attempt"}

LEMMA UnheardTyped ==
  ASSUME NEW c \in CallSet
  PROVE  /\ Unheard(c) \in CallSet /\ Unheard(c).id = c.id /\ Unheard(c).kind = c.kind
         /\ Unheard(c).is = c.is
BY DEF Unheard, CallSet

LEMMA CallsLeft ==
  ASSUME Inv, NEW c \in calls, Leaves(c), UNCHANGED <<log, state>>
  PROVE  Delivery' /\ calls' \subseteq CallSet
<1>1. Saved' = Saved
  BY LatestStays
<1>2. c \in CallSet /\ calls \subseteq CallSet
  BY DEF Inv, Types
<1> PICK e : e = Unheard(c)
  OBVIOUS
<1>3. e \in CallSet /\ e.id = c.id /\ e.is = c.is
  BY <1>2, UnheardTyped
<1>4. calls' = calls \ {c} \/ calls' = (calls \ {c}) \cup {e}
  BY DEF Leaves
<1>5. calls' \subseteq CallSet
  BY <1>2, <1>3, <1>4
<1>6. \A d \in calls' : d.is = "attempt" => d.id \in Saved /\ state[d.id] = "sending"
  BY <1>3, <1>4 DEF Inv, Delivery
<1>7. \A d \in calls' : d.is = "delivered" => state[d.id] = "delivered"
  BY <1>3, <1>4 DEF Inv, Delivery
<1>8. \A d1, d2 \in calls' : d1.is = "attempt" /\ d2.is = "attempt" /\ d1.id = d2.id => d1 = d2
  BY <1>3, <1>4 DEF Inv, Delivery
<1> QED
  BY <1>1, <1>5, <1>6, <1>7, <1>8 DEF Inv, Delivery

(* What an answer marks: one message of the list, which is no surer than it was. *)
Marked(i) ==
  /\ rows' \in RowMaps /\ DOMAIN rows' = DOMAIN rows
  /\ \A j \in DOMAIN rows : j # i => rows'[j] = rows[j]
  /\ i \in DOMAIN rows => rows'[i].unconfirmed \in {rows[i].unconfirmed, TRUE}
  /\ i \in DOMAIN rows /\ rows'[i].retry = TRUE => rows'[i].unconfirmed = TRUE
  /\ i \in DOMAIN rows /\ rows'[i].status = "delivered" => state[i] = "delivered"

LEMMA SettledMarks ==
  ASSUME Inv, NEW i \in Own, NEW s \in {"delivered", "failed"}, rows' = Settled(i, s),
         s = "delivered" => state[i] = "delivered"
  PROVE  Marked(i)
<1>1. CASE i \notin DOMAIN rows
  BY <1>1 DEF Settled, Marked, Inv, Types
<1>2. CASE i \in DOMAIN rows
  <2>1. PICK r : r = Row(s, FALSE, rows[i].unconfirmed)
    OBVIOUS
  <2>2. rows' = [rows EXCEPT ![i] = r]
    BY <1>2, <2>1 DEF Settled
  <2>3. DOMAIN rows \subseteq Ids /\ \A j \in DOMAIN rows : rows[j] \in RowSet
    BY RowsTyped DEF Inv, Types
  <2>4. rows[i].unconfirmed \in BOOLEAN
    BY <1>2, <2>3 DEF RowSet
  <2>5. /\ r \in RowSet /\ r.status = s /\ r.retry = FALSE /\ r.unconfirmed = rows[i].unconfirmed
    BY <2>1, <2>4 DEF Row, RowSet, Status
  <2>6. /\ DOMAIN rows' = DOMAIN rows /\ rows'[i] = r
        /\ \A j \in DOMAIN rows : j # i => rows'[j] = rows[j]
    BY <1>2, <2>2
  <2>7. rows' = [j \in DOMAIN rows' |-> rows'[j]]
    BY <2>2
  <2>8. rows' \in RowMaps
    BY <2>3, <2>5, <2>6, <2>7, TypedRows
  <2> QED
    BY <2>5, <2>6, <2>8 DEF Marked
<1> QED
  BY <1>1, <1>2

LEMMA InDoubtMarks ==
  ASSUME Inv, NEW i \in Own, rows' = InDoubt(i)
  PROVE  Marked(i)
<1>1. CASE ~(i \in DOMAIN rows /\ rows[i].status # "delivered")
  <2>1. rows' = rows
    BY <1>1 DEF InDoubt
  <2> QED
    BY <2>1 DEF Marked, Inv, Types, Shown
<1>2. CASE i \in DOMAIN rows /\ rows[i].status # "delivered"
  <2>1. PICK r : r = Row("sending", rows[i].retry, TRUE)
    OBVIOUS
  <2>2. rows' = [rows EXCEPT ![i] = r]
    BY <1>2, <2>1 DEF InDoubt
  <2>3. DOMAIN rows \subseteq Ids /\ \A j \in DOMAIN rows : rows[j] \in RowSet
    BY RowsTyped DEF Inv, Types
  <2>4. rows[i].retry \in BOOLEAN
    BY <1>2, <2>3 DEF RowSet
  <2>5. r \in RowSet /\ r.status = "sending" /\ r.unconfirmed = TRUE
    BY <2>1, <2>4, RowTyped DEF Status
  <2>6. /\ DOMAIN rows' = DOMAIN rows /\ rows'[i] = r
        /\ \A j \in DOMAIN rows : j # i => rows'[j] = rows[j]
    BY <1>2, <2>2
  <2>7. rows' = [j \in DOMAIN rows' |-> rows'[j]]
    BY <2>2
  <2>8. rows' \in RowMaps
    BY <2>3, <2>5, <2>6, <2>7, TypedRows
  <2> QED
    BY <2>5, <2>6, <2>8 DEF Marked
<1> QED
  BY <1>1, <1>2

LEMMA MarkedStays ==
  ASSUME Inv, NEW i \in Own, Marked(i), UNCHANGED <<log, state, loaded, cursor, earlier, carried>>,
         loaded
  PROVE  Shown' /\ Confirmed' \subseteq Confirmed
<1>1. ASSUME NEW j \in DOMAIN rows', ~Local(j)'
      PROVE  ~Local(j)
  <2>1. CASE j = i
    <3>1. rows[i] \in RowSet /\ rows'[i] \in RowSet
      BY <2>1, RowsTyped DEF Marked, Inv, Types
    <3>2. rows'[i].unconfirmed = FALSE
      BY <1>1, <2>1, <3>1 DEF Local, RowSet
    <3>3. rows[i].unconfirmed = FALSE
      BY <2>1, <3>2 DEF Marked
    <3>4. rows[i].retry = FALSE
      BY <2>1, <3>1, <3>3 DEF Marked, Inv, Shown, RowSet
    <3> QED
      BY <2>1, <3>3, <3>4 DEF Local
  <2>2. CASE j # i
    BY <1>1, <2>2 DEF Marked, Local
  <2> QED
    BY <2>1, <2>2
<1>2. Confirmed' \subseteq Confirmed
  BY <1>1 DEF Confirmed, Marked
<1>3. Latest' = Latest /\ Saved' = Saved
  BY LatestStays
<1>4. \A j \in DOMAIN rows' : Local(j)' \/ j \in Saved
  BY <1>1 DEF Inv, Shown, Marked
<1>5. \A j \in DOMAIN rows' : rows'[j].retry = TRUE => rows'[j].unconfirmed = TRUE
  BY DEF Inv, Shown, Marked
<1>6. \A j \in DOMAIN rows' \cap Own : rows'[j].status = "delivered" => state[j] = "delivered"
  BY DEF Inv, Shown, Marked
<1> QED
  BY <1>2, <1>3, <1>4, <1>5, <1>6 DEF Inv, Shown, Marked

Says(c, a) ==
  /\ a = "lost" \/ (a = c.is /\ calls' = calls \ {c} /\ a \notin {"queued", "attempt"})
  /\ Leaves(c)

LEMMA HearStep ==
  ASSUME Inv, NEW c \in calls, NEW a, Hear(c, a), Says(c, a),
         UNCHANGED <<log, state, behind>>, left' \in 0..Budget, left' <= left
  PROVE  Inv'
<1> PICK i : i = c.id
  OBVIOUS
<1>1. c \in CallSet /\ i \in Own /\ carried[i] # {} /\ None \notin Own
  BY TimelineAssumption DEF Inv, Types, CallSet, Kept
<1>2. loaded = TRUE
  BY <1>1 DEF Inv, Shown, Types
<1>3. /\ Ask(FALSE) /\ UNCHANGED <<loaded, cursor, unproved, earlier, device, error, missed>>
      /\ IF sending = i THEN sending' = None /\ UNCHANGED retrying
         ELSE retrying' = [id |-> None, resend |-> FALSE] /\ UNCHANGED sending
  BY DEF Hear, Done, Waiting
<1>4. /\ asks' \in Seq(Asking) /\ counts' = TRUE
      /\ sending' \in Own \cup {None} /\ retrying' \in [id : Own \cup {None}, resend : BOOLEAN]
  <2>1. asks' \in Seq(Asking) /\ counts' = TRUE
    BY <1>3, AskTyped
  <2>2. sending \in Own \cup {None} /\ retrying \in [id : Own \cup {None}, resend : BOOLEAN]
    BY DEF Inv, Types
  <2>3. [id |-> None, resend |-> FALSE] \in [id : Own \cup {None}, resend : BOOLEAN]
    OBVIOUS
  <2>4. sending' \in Own \cup {None}
    BY <1>3, <2>2
  <2>5. retrying' \in [id : Own \cup {None}, resend : BOOLEAN]
    BY <1>3, <2>2, <2>3
  <2> QED
    BY <2>1, <2>4, <2>5
<1>5. Asks' /\ UpToDate'
  BY <1>3, AskedAgain
<1>6. Delivery' /\ calls' \subseteq CallSet
  BY CallsLeft DEF Says
<1>7. Latest' = Latest /\ Saved' = Saved
  BY LatestStays
<1>8. Log' /\ Earlier'
  BY <1>3, TimelineAssumption, LogStays, EarlierStays, GrowsNot
<1>9. \A d \in calls' : d.id = i \/ d \in calls
  BY <1>1, UnheardTyped DEF Says, Leaves
<1>10. OneCall'
  <2>1. CASE sending = i
    BY <1>3, <2>1 DEF OneCall
  <2>2. CASE sending # i
    BY <1>3, <1>7, <1>9, <2>2 DEF OneCall, Inv
  <2> QED
    BY <2>1, <2>2
<1>11. CASE Marked(i) /\ UNCHANGED <<draft, carried>>
  <2>1. Shown' /\ Confirmed' \subseteq Confirmed
    BY <1>1, <1>2, <1>3, <1>11, MarkedStays
  <2>2. Types'
    BY <1>3, <1>4, <1>6, <1>11 DEF Inv, Types, Marked
  <2>3. \A d \in calls' : \E e \in calls : e.id = d.id
    BY <1>9
  <2>4. Kept'
    BY <1>11, <2>2, <2>3, KeptStays DEF Marked
  <2>5. NoGapUnlessUnproved'
    BY <1>3, <1>8, <1>11, <2>1, <2>2, NoGapStays, GrowsNot DEF Marked
  <2> QED
    BY <1>5, <1>6, <1>8, <1>10, <2>1, <2>2, <2>4, <2>5 DEF Inv
<1>12. CASE Rejects(a) /\ sending = i
  <2>1. /\ rows' = Restrict(rows, DOMAIN rows \ {i}) /\ draft' = draft \cup carried[i]
        /\ carried' = [carried EXCEPT ![i] = {}]
    BY <1>12 DEF Hear, Waiting, Rejects
  <2>2. a = c.is /\ calls' = calls \ {c}
    BY <1>12 DEF Says, Rejects
  <2>3. i \notin Saved /\ \A d \in calls : d.id = i => d = c
    BY <1>1, <1>12, <2>2 DEF Inv, OneCall, Rejects
  <2>4. /\ DOMAIN rows' = DOMAIN rows \ {i} /\ rows' \in RowMaps
        /\ \A j \in DOMAIN rows' : rows'[j] = rows[j]
    BY <2>1, RestrictFacts, RestrictTyped DEF Inv, Types
  <2>5. /\ carried' \in [Own -> SUBSET Words] /\ draft' \subseteq Words
        /\ \A j \in Own : carried'[j] = IF j = i THEN {} ELSE carried[j]
    BY <1>1, <2>1 DEF Inv, Types
  <2>6. Types'
    BY <1>3, <1>4, <1>6, <2>4, <2>5 DEF Inv, Types
  <2>7. Kept'
    <3>1. \A j \in Own : carried'[j] # {} => j \in DOMAIN rows' \/ j \in Saved'
      BY <1>7, <2>4, <2>5 DEF Inv, Kept
    <3>2. \A j \in Own : carried'[j] \cap draft' = {}
      BY <1>1, <2>1, <2>5 DEF Inv, Kept
    <3>3. \A j, k \in Own : j # k => carried'[j] \cap carried'[k] = {}
      BY <2>5 DEF Inv, Kept
    <3>4. \A j \in Own : j \in Saved' \/ j \in DOMAIN rows' => carried'[j] # {}
      BY <1>7, <2>3, <2>4, <2>5 DEF Inv, Kept
    <3>5. \A d \in calls' : carried'[d.id] # {}
      <4>1. \A d \in calls' : d \in calls /\ d.id \in Own /\ d.id # i
        BY <2>2, <2>3 DEF Inv, Types, CallSet
      <4> QED
        BY <2>5, <4>1 DEF Inv, Kept
    <3> QED
      BY <3>1, <3>2, <3>3, <3>4, <3>5 DEF Kept
  <2>8. Shown'
    <3>1. i \notin DOMAIN Latest.rows
      BY <2>3, LatestCovers, CoversFacts DEF Inv, Types
    <3>2. \A j \in DOMAIN Latest.rows \cap Own : j \in DOMAIN rows'
      BY <2>4, <3>1 DEF Inv, Shown
    <3> QED
      BY <1>2, <1>3, <1>7, <2>4, <3>2 DEF Inv, Shown, Local
  <2>9. NoGapUnlessUnproved'
    <3>1. Confirmed' \subseteq Confirmed
      BY <2>4 DEF Confirmed, Local
    <3>2. DOMAIN rows \cap Saved \subseteq DOMAIN rows'
      BY <2>3, <2>4
    <3> QED
      BY <1>2, <1>3, <1>8, <2>6, <3>1, <3>2, NoGapStays, GrowsNot
  <2> QED
    BY <1>5, <1>6, <1>8, <1>10, <2>6, <2>7, <2>8, <2>9 DEF Inv
<1>13. \/ Marked(i) /\ UNCHANGED <<draft, carried>>
       \/ Rejects(a) /\ sending = i
  <2>1. CASE a \in {"delivered", "failed"}
    <3>1. rows' = Settled(i, a) /\ UNCHANGED <<draft, carried>>
      BY <2>1 DEF Hear, Rejects
    <3>2. a = "delivered" => state[i] = "delivered"
      BY <2>1 DEF Says, Inv, Delivery
    <3> QED
      BY <1>1, <2>1, <3>1, <3>2, SettledMarks
  <2>2. CASE Rejects(a) /\ sending # i
    <3>1. UNCHANGED <<rows, draft, carried>>
      BY <2>2 DEF Hear, Waiting, Rejects
    <3> QED
      BY <1>1, <3>1 DEF Marked, Inv, Types, Shown
  <2>3. CASE a \notin {"delivered", "failed"} /\ ~Rejects(a)
    <3>1. rows' = InDoubt(i) /\ UNCHANGED <<draft, carried>>
      BY <2>3 DEF Hear
    <3> QED
      BY <1>1, <3>1, InDoubtMarks
  <2> QED
    BY <2>1, <2>2, <2>3
<1> QED
  BY <1>11, <1>12, <1>13

LEMMA ReceiveCallStep ==
  ASSUME Inv, NEW c \in calls, ReceiveCall(c)
  PROVE  Inv'
<1>1. /\ c.is \notin {"queued", "attempt"} /\ calls' = calls \ {c} /\ Hear(c, c.is)
      /\ UNCHANGED <<log, state, behind, left>>
  BY DEF ReceiveCall, service
<1>2. Says(c, c.is)
  BY <1>1 DEF Says, Leaves
<1>3. left' \in 0..Budget /\ left' <= left
  BY <1>1, TimelineAssumption DEF Inv, Types
<1> QED
  BY <1>1, <1>2, <1>3, HearStep

LEMMA GiveUpStep ==
  ASSUME Inv, NEW c \in calls, GiveUp(c)
  PROVE  Inv'
<1>1. Hear(c, "lost") /\ UNCHANGED <<log, state, behind>> /\ Fault
  BY DEF GiveUp, service
<1>2. Says(c, "lost")
  <2>1. CASE c.is \in {"queued", "attempt"}
    BY <2>1 DEF GiveUp, Says, Leaves, Unheard
  <2>2. CASE c.is \notin {"queued", "attempt"}
    <3>1. calls' = calls \ {c}
      BY <2>2 DEF GiveUp
    <3> QED
      BY <3>1 DEF Says, Leaves
  <2> QED
    BY <2>1, <2>2
<1>3. left' \in 0..Budget /\ left' <= left
  BY <1>1, TimelineAssumption DEF Fault, Spend, Inv, Types
<1> QED
  BY <1>1, <1>2, <1>3, HearStep

---------------------------------------------------------------------------
(* The service. *)
LEMMA Appended ==
  ASSUME Inv, NEW x \in Ids \ Saved, log' = Append(log, x)
  PROVE  /\ Len(log') = Len(log) + 1 /\ log'[Len(log) + 1] = x
         /\ \A j, k \in DOMAIN log' : log'[j] = log'[k] => j = k
         /\ Saved' = Saved \cup {x} /\ IsFiniteSet(Saved') /\ Cardinality(Saved') = Len(log')
<1>1. log \in Seq(Ids) /\ Len(log) \in Nat /\ DOMAIN log = 1..Len(log)
  BY DEF Inv, Types
<1>2. /\ Len(log') = Len(log) + 1 /\ log'[Len(log) + 1] = x
      /\ \A k \in 1..Len(log) : log'[k] = log[k]
      /\ DOMAIN log' = 1..(Len(log) + 1)
  BY <1>1
<1>3. Saved' = Saved \cup {x}
  <2>1. ASSUME NEW i \in Saved' PROVE i \in Saved \cup {x}
    <3>1. PICK k \in 1..(Len(log) + 1) : i = log'[k]
      BY <1>2 DEF Saved
    <3>2. CASE k = Len(log) + 1
      BY <1>2, <3>1, <3>2
    <3>3. CASE k \in 1..Len(log)
      BY <1>1, <1>2, <3>1, <3>3 DEF Saved
    <3> QED
      BY <1>1, <3>1, <3>2, <3>3
  <2>2. ASSUME NEW i \in Saved \cup {x} PROVE i \in Saved'
    <3>1. CASE i = x
      BY <1>1, <1>2, <3>1 DEF Saved
    <3>2. CASE i \in Saved
      <4>1. PICK k \in 1..Len(log) : i = log[k]
        BY <1>1, <3>2 DEF Saved
      <4>2. k \in 1..(Len(log) + 1) /\ i = log'[k]
        BY <1>1, <1>2, <4>1
      <4> QED
        BY <1>2, <4>2 DEF Saved
    <3> QED
      BY <3>1, <3>2
  <2> QED
    BY <2>1, <2>2
<1>4. \A j, k \in DOMAIN log' : log'[j] = log'[k] => j = k
  <2> SUFFICES ASSUME NEW j \in DOMAIN log', NEW k \in DOMAIN log', log'[j] = log'[k]
               PROVE  j = k
    OBVIOUS
  <2>1. \A m \in 1..Len(log) : log'[m] # x
    BY <1>1, <1>2 DEF Saved
  <2>2. CASE j \in 1..Len(log) /\ k \in 1..Len(log)
    BY <1>1, <1>2, <2>2 DEF Inv, Log
  <2>3. CASE j = Len(log) + 1 \/ k = Len(log) + 1
    BY <1>1, <1>2, <2>1, <2>3
  <2> QED
    BY <1>1, <1>2, <2>2, <2>3
<1>5. IsFiniteSet(Saved) /\ Cardinality(Saved) = Len(log) /\ x \notin Saved
  BY DEF Inv, Log
<1>6. PICK S : S = Saved
  OBVIOUS
<1>7. IsFiniteSet(S \cup {x}) /\ Cardinality(S \cup {x}) = Cardinality(S) + 1
  BY <1>5, <1>6, FS_AddElement
<1> QED
  BY <1>2, <1>3, <1>4, <1>5, <1>6, <1>7

LEMMA ServiceMoves ==
  ASSUME Inv, Types', Log', Grows, behind' = TRUE,
         UNCHANGED <<rows, loaded, cursor, unproved, asks, counts, earlier, missed, carried>>,
         \A k \in (Len(log) + 1)..Len(log') : \A i \in Own : i = log'[k] =>
           i \in DOMAIN rows /\ Local(i)
  PROVE  Shown' /\ Asks' /\ Earlier' /\ UpToDate' /\ NoGapUnlessUnproved'
<1>1. Asks' /\ Earlier'
  BY AsksStay, EarlierStays DEF Extends
<1>2. UpToDate'
  BY DEF UpToDate, Inv
<1>3. NoGapUnlessUnproved'
  BY NoGapStays DEF Confirmed, Local
<1>4. /\ Len(log') \in Nat /\ Len(log) \in Nat /\ Len(log) <= Len(log')
      /\ \A k \in 1..Len(log) : log'[k] = log[k]
      /\ Saved \subseteq Saved'
  BY LogGrows DEF Inv
<1>5. ASSUME NEW i \in DOMAIN Latest'.rows \cap Own
      PROVE  i \in DOMAIN rows
  <2>1. PICK k \in First(Len(log') + 1)..Len(log') : i = log'[k]
    <3>1. DOMAIN Latest'.rows = {log'[k] : k \in First(Len(log') + 1)..(Len(log') + 1 - 1)}
      BY DEF Latest, Page, First
    <3> QED
      BY <1>4, <3>1
  <2>2. First(Len(log') + 1) \in Nat \ {0} /\ First(Len(log) + 1) <= First(Len(log') + 1)
        /\ First(Len(log) + 1) \in Nat
    BY <1>4, TimelineAssumption DEF First
  <2>3. CASE k <= Len(log)
    <3>1. k \in First(Len(log) + 1)..(Len(log) + 1 - 1) /\ i = log[k]
      BY <1>4, <2>1, <2>2, <2>3
    <3>2. i \in DOMAIN Latest.rows
      BY <3>1, LatestCovers DEF Covers, Before, Inv
    <3> QED
      BY <3>2 DEF Inv, Shown
  <2>4. CASE k > Len(log)
    BY <1>4, <2>1, <2>2, <2>4
  <2> QED
    BY <1>4, <2>1, <2>2, <2>3, <2>4
<1>6. Shown'
  <2>1. \A i \in DOMAIN rows : Local(i)' \/ i \in Saved'
    BY <1>4 DEF Inv, Shown, Local
  <2>2. \A i \in DOMAIN rows \cap Own : rows[i].status = "delivered" => state'[i] = "delivered"
    BY DEF Inv, Shown, Grows
  <2> QED
    BY <1>5, <2>1, <2>2 DEF Inv, Shown
<1> QED
  BY <1>1, <1>2, <1>3, <1>6

LEMMA AnswerIs ==
  ASSUME Inv, NEW c \in calls, NEW a \in Outcomes, Answer(c, a)
  PROVE  /\ c \in CallSet /\ c.id \in Own
         /\ \E d \in CallSet : /\ d.id = c.id /\ d.kind = c.kind /\ d.is = a
                               /\ calls' \subseteq (calls \ {c}) \cup {d}
<1>1. c \in CallSet
  BY DEF Inv, Types
<1>2. PICK d : d = [c EXCEPT !.is = a]
  OBVIOUS
<1>3. d \in CallSet /\ d.id = c.id /\ d.kind = c.kind /\ d.is = a
  BY <1>1, <1>2 DEF CallSet
<1>4. calls' \subseteq (calls \ {c}) \cup {d}
  BY <1>2 DEF Answer
<1> QED
  BY <1>1, <1>3, <1>4 DEF CallSet

LEMMA AnswerCalls ==
  ASSUME Inv, NEW c \in calls, NEW a \in Outcomes, Answer(c, a),
         UNCHANGED <<rows, sending, draft, carried>>,
         Saved \subseteq Saved', Saved' \subseteq Saved \cup {c.id} \cup Theirs,
         c.id = sending => /\ a \in {"rejected", "attempt", "delivered", "failed"}
                           /\ a = "rejected" => c.id \notin Saved'
  PROVE  Kept' /\ OneCall' /\ calls' \subseteq CallSet
<1>1. PICK d \in CallSet : /\ d.id = c.id /\ d.kind = c.kind /\ d.is = a
                           /\ calls' \subseteq (calls \ {c}) \cup {d}
  BY AnswerIs
<1>2. c.id \in Own /\ calls \subseteq CallSet /\ Own \cap Theirs = {}
  BY AnswerIs, TimelineAssumption DEF Inv, Types
<1>3. Kept'
  <2>1. \A e \in calls' : carried[e.id] # {}
    BY <1>1 DEF Inv, Kept
  <2>2. \A i \in Own : i \in Saved' => i \in Saved \/ i = c.id
    BY <1>2
  <2>3. \A i \in Own : i \in Saved' \/ i \in DOMAIN rows => carried[i] # {}
    BY <2>2 DEF Inv, Kept
  <2> QED
    BY <2>1, <2>3 DEF Inv, Kept
<1>4. OneCall'
  <2>1. CASE sending = c.id
    <3>1. \A e \in calls : e.id = sending => e = c
      BY <1>2, <2>1, TimelineAssumption DEF Inv, OneCall
    <3>2. \A e \in calls' : e.id = sending => e = d
      BY <1>1, <3>1
    <3>3. d.kind = "send"
      BY <1>1, <1>2, <2>1, TimelineAssumption DEF Inv, OneCall
    <3> QED
      BY <1>1, <2>1, <3>2, <3>3 DEF OneCall
  <2>2. CASE sending # c.id
    <3>1. sending \in Own \cup {None}
      BY DEF Inv, Types
    <3>2. \A e \in calls' : e.id = sending => e \in calls /\ (e.id \notin Saved => e.id \notin Saved')
      BY <1>1, <1>2, <2>2, TimelineAssumption DEF CallSet
    <3> QED
      BY <3>2 DEF Inv, OneCall
  <2> QED
    BY <2>1, <2>2
<1> QED
  BY <1>1, <1>2, <1>3, <1>4

LEMMA ArriveStep ==
  ASSUME Inv, Arrive
  PROVE  Inv'
<1> PICK x : x = Cardinality(Saved \cap Theirs) + 1
  OBVIOUS
<1>1. /\ left >= 1 /\ left' = left - 1 /\ log' = Append(log, x) /\ behind' = TRUE
      /\ UNCHANGED <<state, rows, loaded, cursor, unproved, asks, counts, earlier, device, error,
                     missed, draft, sending, retrying, calls, carried>>
  BY DEF Arrive, Spend, list, reading, writing
<1>2. left \in 0..Budget /\ Budget \in Nat /\ Own \cap Theirs = {}
  BY TimelineAssumption DEF Inv, Types
<1>3. PICK n \in 0..Budget : Saved \cap Theirs = 1..n /\ n + left <= Budget
  BY DEF Inv, Log, Counted
<1>4. x = n + 1
  <2>1. Cardinality(1..n) = n
    BY FS_Interval
  <2> QED
    BY <1>3, <2>1
<1>5. x \in Theirs /\ x \notin Saved /\ x \in Ids /\ x \notin Own
  <2>1. x \in Theirs
    BY <1>1, <1>2, <1>3, <1>4 DEF Theirs
  <2>2. x \notin 1..n
    BY <1>3, <1>4
  <2> QED
    BY <1>2, <1>3, <2>1, <2>2 DEF Ids
<1>6. /\ Len(log') = Len(log) + 1 /\ log'[Len(log) + 1] = x
      /\ \A j, k \in DOMAIN log' : log'[j] = log'[k] => j = k
      /\ Saved' = Saved \cup {x} /\ IsFiniteSet(Saved') /\ Cardinality(Saved') = Len(log')
  BY <1>1, <1>5, Appended
<1>7. Log'
  <2>1. Saved' \cap Theirs = 1..(n + 1)
    <3>1. Saved' \cap Theirs = (1..n) \cup {x}
      BY <1>3, <1>5, <1>6
    <3>2. (1..n) \cup {n + 1} = 1..(n + 1)
      BY <1>3
    <3> QED
      BY <1>4, <3>1, <3>2
  <2>2. n + 1 \in 0..Budget /\ (n + 1) + left' <= Budget
    BY <1>1, <1>2, <1>3
  <2> QED
    BY <1>6, <2>1, <2>2 DEF Log, Counted
<1>8. log' \in Seq(Ids) /\ Len(log) \in Nat
  BY <1>1, <1>5 DEF Inv, Types
<1>9. Types'
  <2>1. left' \in 0..Budget
    BY <1>1, <1>2
  <2>2. cursor <= Len(log') /\ earlier.at <= Len(log') /\ device \in 0..Len(log')
    BY <1>6, <1>8 DEF Inv, Types
  <2> QED
    BY <1>1, <1>8, <2>1, <2>2 DEF Inv, Types
<1>10. Grows
  BY <1>1, <1>5 DEF Grows
<1>11. \A k \in (Len(log) + 1)..Len(log') : log'[k] \notin Own
  BY <1>5, <1>6, <1>8
<1>12. Shown' /\ Asks' /\ Earlier' /\ UpToDate' /\ NoGapUnlessUnproved'
  BY <1>1, <1>7, <1>9, <1>10, <1>11, ServiceMoves
<1>13. \A i \in Own : i \in Saved' <=> i \in Saved
  BY <1>5, <1>6
<1>14. \A c \in calls : c.id \in Own
  BY DEF Inv, Types, CallSet
<1>15. Kept'
  BY <1>1, <1>13 DEF Inv, Kept
<1>16. OneCall' /\ Delivery'
  BY <1>1, <1>13, <1>14 DEF Inv, OneCall, Delivery
<1> QED
  BY <1>7, <1>9, <1>12, <1>15, <1>16 DEF Inv

LEMMA SaveStep ==
  ASSUME Inv, NEW c \in calls, Save(c)
  PROVE  Inv'
<1> PICK x : x = c.id
  OBVIOUS
<1>1. /\ c.is = "queued" /\ x \notin Saved /\ Answer(c, "attempt")
      /\ log' = Append(log, x) /\ state' = [state EXCEPT ![x] = "sending"] /\ behind' = TRUE
      /\ UNCHANGED <<rows, loaded, cursor, unproved, asks, counts, earlier, device, error,
                     missed, draft, sending, retrying, carried, left>>
  BY DEF Save, Change, list, reading
<1>2. /\ x \in Own /\ Own \cap Theirs = {} /\ x \in Ids /\ carried[x] # {}
  BY TimelineAssumption DEF Inv, Types, CallSet, Ids, Kept
<1>3. x \in DOMAIN rows /\ Local(x)
  BY <1>1, <1>2 DEF Inv, Kept, Shown
<1>4. /\ Len(log') = Len(log) + 1 /\ log'[Len(log) + 1] = x
      /\ \A j, k \in DOMAIN log' : log'[j] = log'[k] => j = k
      /\ Saved' = Saved \cup {x} /\ IsFiniteSet(Saved') /\ Cardinality(Saved') = Len(log')
  BY <1>1, <1>2, Appended
<1>5. Log'
  <2>1. Saved' \cap Theirs = Saved \cap Theirs
    BY <1>2, <1>4
  <2> QED
    BY <1>1, <1>4, <2>1 DEF Inv, Log, Counted
<1>6. log' \in Seq(Ids) /\ Len(log) \in Nat
  BY <1>1, <1>2 DEF Inv, Types
<1>7. state' \in [Own -> States] /\ state'[x] = "sending" /\ \A i \in Own : i # x => state'[i] = state[i]
  BY <1>1, <1>2 DEF Inv, Types, States, Status
<1>8. state[x] # "delivered" /\ Grows
  BY <1>1, <1>2, <1>7 DEF Inv, Delivery, Grows
<1>9. Kept' /\ OneCall' /\ calls' \subseteq CallSet
  BY <1>1, <1>4, AnswerCalls DEF Outcomes
<1>10. Types'
  <2>1. cursor <= Len(log') /\ earlier.at <= Len(log') /\ device \in 0..Len(log')
    BY <1>4, <1>6 DEF Inv, Types
  <2> QED
    BY <1>1, <1>6, <1>7, <1>9, <2>1 DEF Inv, Types
<1>11. \A k \in (Len(log) + 1)..Len(log') : \A i \in Own : i = log'[k] =>
         i \in DOMAIN rows /\ Local(i)
  BY <1>3, <1>4, <1>6
<1>12. Shown' /\ Asks' /\ Earlier' /\ UpToDate' /\ NoGapUnlessUnproved'
  BY <1>1, <1>5, <1>8, <1>10, <1>11, ServiceMoves
<1>13. Delivery'
  <2>1. PICK d \in CallSet : /\ d.id = x /\ d.is = "attempt"
                             /\ calls' \subseteq (calls \ {c}) \cup {d}
    BY <1>1, AnswerIs DEF Outcomes
  <2>2. \A i \in Own : i \notin Saved' => state'[i] # "delivered"
    BY <1>4, <1>7 DEF Inv, Delivery
  <2>3. \A e \in calls : e.is = "attempt" => e.id # x
    BY <1>1 DEF Inv, Delivery
  <2>4. \A e \in calls : e.id \in Own
    BY DEF Inv, Types, CallSet
  <2>5. \A e \in calls' : e.is = "attempt" => e.id \in Saved' /\ state'[e.id] = "sending"
    BY <1>4, <1>7, <2>1, <2>3, <2>4 DEF Inv, Delivery
  <2>6. \A e, f \in calls' : e.is = "attempt" /\ f.is = "attempt" /\ e.id = f.id => e = f
    BY <2>1, <2>3 DEF Inv, Delivery
  <2>7. \A e \in calls' : e.is = "delivered" => state'[e.id] = "delivered"
    BY <1>7, <1>8, <2>1, <2>4 DEF Inv, Delivery
  <2> QED
    BY <2>2, <2>5, <2>6, <2>7 DEF Delivery
<1> QED
  BY <1>5, <1>9, <1>10, <1>12, <1>13 DEF Inv

(* An answer that changes nothing that is saved. *)
LEMMA OnlyAnswered ==
  ASSUME Inv, NEW c \in calls, c.is = "queued",
         NEW a \in {"rejected", "missing", "delivered", "busy"}, Answer(c, a),
         UNCHANGED <<log, state, behind, rows, loaded, cursor, unproved, asks, counts, earlier,
                     device, error, missed, draft, sending, retrying, carried>>,
         left' \in 0..Budget, left' <= left,
         c.id = sending => a = "rejected" /\ c.id \notin Saved,
         a = "delivered" => state[c.id] = "delivered"
  PROVE  Inv'
<1>1. Saved' = Saved
  BY LatestStays
<1>2. a \in Outcomes
  BY DEF Outcomes
<1>3. Kept' /\ OneCall' /\ calls' \subseteq CallSet
  BY <1>1, <1>2, AnswerCalls
<1>4. Types'
  BY <1>3 DEF Inv, Types
<1>5. Asks' /\ UpToDate'
  BY <1>4, NothingNewIsAsked DEF Extends
<1>6. Log' /\ Shown' /\ Earlier'
  BY TimelineAssumption, LogStays, ShownStays, EarlierStays, GrowsNot
<1>7. NoGapUnlessUnproved'
  BY <1>4, <1>6, NoGapStays, GrowsNot DEF Confirmed, Local
<1>8. Delivery'
  <2>1. PICK d \in CallSet : d.id = c.id /\ d.is = a /\ calls' \subseteq (calls \ {c}) \cup {d}
    BY <1>2, AnswerIs
  <2>2. d.is # "attempt"
    BY <2>1
  <2> QED
    BY <1>1, <2>1, <2>2 DEF Inv, Delivery
<1> QED
  BY <1>3, <1>4, <1>5, <1>6, <1>7, <1>8 DEF Inv

LEMMA RefuseStep ==
  ASSUME Inv, NEW c \in calls, Refuse(c) \/ Missing(c)
  PROVE  Inv'
<1>1. /\ c.is = "queued" /\ c.id \notin Saved /\ left' \in 0..Budget /\ left' <= left
      /\ UNCHANGED <<log, state, behind, rows, loaded, cursor, unproved, asks, counts, earlier,
                     device, error, missed, draft, sending, retrying, carried>>
  BY TimelineAssumption
     DEF Refuse, Missing, Fault, Spend, service, list, reading, Inv, Types
<1>2. CASE Refuse(c)
  BY <1>1, <1>2, OnlyAnswered DEF Refuse
<1>3. CASE Missing(c)
  <2>1. c.kind = "retry" /\ c.id # None
    BY <1>3, TimelineAssumption DEF Missing, Inv, Types, CallSet
  <2>2. c.id # sending
    BY <2>1 DEF Inv, OneCall
  <2> QED
    BY <1>1, <1>3, <2>2, OnlyAnswered DEF Missing
<1> QED
  BY <1>2, <1>3

(* A step of the delivery of one message that is saved. *)
LEMMA StateMoves ==
  ASSUME Inv, NEW c \in calls, NEW a \in {"attempt", "delivered", "failed"},
         NEW s \in {"sending", "delivered", "failed"},
         Answer(c, a), Change(c.id, s), c.id \in Saved, c.id # sending \/ a # "rejected",
         state[c.id] # "delivered", s = IF a = "attempt" THEN "sending" ELSE a,
         \A e \in calls \ {c} : ~(e.id = c.id /\ e.is = "attempt"),
         UNCHANGED <<log, rows, loaded, cursor, unproved, asks, counts, earlier, device, error,
                     missed, draft, sending, retrying, carried, left>>
  PROVE  Inv'
<1>1. Saved' = Saved
  BY DEF Saved
<1>2. c.id \in Own /\ a \in Outcomes
  BY AnswerIs DEF Outcomes
<1>3. Kept' /\ OneCall' /\ calls' \subseteq CallSet
  BY <1>1, <1>2, AnswerCalls
<1>4. /\ state' \in [Own -> States] /\ state'[c.id] = s /\ behind' = TRUE
      /\ \A i \in Own : i # c.id => state'[i] = state[i]
  BY <1>2 DEF Change, Inv, Types, States, Status
<1>5. Types'
  BY <1>3, <1>4 DEF Inv, Types
<1>6. Grows
  BY <1>4 DEF Grows
<1>7. Log'
  <2>1. left' \in Nat /\ left' <= left
    BY TimelineAssumption DEF Inv, Types
  <2> QED
    BY <2>1, LogStays
<1>8. Shown' /\ Asks' /\ Earlier' /\ UpToDate' /\ NoGapUnlessUnproved'
  <2>1. (Len(log) + 1)..Len(log') = {}
    <3>1. Len(log') = Len(log) /\ Len(log) \in Nat
      BY DEF Inv, Types
    <3> QED
      BY <3>1
  <2> QED
    BY <1>4, <1>5, <1>6, <1>7, <2>1, ServiceMoves
<1>9. Delivery'
  <2>1. PICK d \in CallSet : d.id = c.id /\ d.is = a /\ calls' \subseteq (calls \ {c}) \cup {d}
    BY <1>2, AnswerIs
  <2>2. \A i \in Own : i \notin Saved => state'[i] # "delivered"
    BY <1>4 DEF Inv, Delivery
  <2>3. \A e \in calls : e.id \in Own
    BY DEF Inv, Types, CallSet
  <2>4. \A e \in calls' : e.is = "attempt" => e.id \in Saved /\ state'[e.id] = "sending"
    BY <1>4, <2>1, <2>3 DEF Inv, Delivery
  <2>5. \A e, f \in calls' : e.is = "attempt" /\ f.is = "attempt" /\ e.id = f.id => e = f
    BY <2>1 DEF Inv, Delivery
  <2>6. \A e \in calls' : e.is = "delivered" => state'[e.id] = "delivered"
    BY <1>4, <2>1, <2>3 DEF Inv, Delivery
  <2> QED
    BY <1>1, <2>2, <2>4, <2>5, <2>6 DEF Delivery
<1> QED
  BY <1>3, <1>5, <1>7, <1>8, <1>9 DEF Inv

LEMMA AgainStep ==
  ASSUME Inv, NEW c \in calls, Again(c)
  PROVE  Inv'
<1>1. /\ c.is = "queued" /\ c.id \in Saved /\ c.id \in Own
      /\ UNCHANGED <<rows, loaded, cursor, unproved, asks, counts, earlier, device, error, missed,
                     draft, sending, retrying, carried, left>>
  BY DEF Again, list, reading, Inv, Types, CallSet
<1>2. c.id # sending
  BY <1>1, TimelineAssumption DEF Inv, OneCall
<1>3. left' \in 0..Budget /\ left' <= left
  BY <1>1, TimelineAssumption DEF Inv, Types
<1>4. CASE state[c.id] = "delivered"
  <2>1. Answer(c, "delivered") /\ UNCHANGED <<log, state, behind>>
    BY <1>4 DEF Again, service
  <2> QED
    BY <1>1, <1>2, <1>3, <1>4, <2>1, OnlyAnswered
<1>5. CASE state[c.id] # "delivered" /\ Attempted(c.id)
  <2>1. Answer(c, "busy") /\ UNCHANGED <<log, state, behind>>
    BY <1>5 DEF Again, service
  <2> QED
    BY <1>1, <1>2, <1>3, <2>1, OnlyAnswered
<1>6. CASE state[c.id] # "delivered" /\ ~Attempted(c.id)
  <2>1. Answer(c, "attempt") /\ Change(c.id, "sending") /\ UNCHANGED log
    BY <1>6 DEF Again
  <2> QED
    BY <1>1, <1>2, <1>6, <2>1, StateMoves DEF Attempted
<1> QED
  BY <1>4, <1>5, <1>6

LEMMA DeliverStep ==
  ASSUME Inv, NEW c \in calls, Deliver(c)
  PROVE  Inv'
<1>1. /\ c.is = "attempt"
      /\ UNCHANGED <<log, rows, loaded, cursor, unproved, asks, counts, earlier, device, error,
                     missed, draft, sending, retrying, carried, left>>
  BY DEF Deliver, list, reading
<1>2. PICK a \in {"delivered", "failed"} : Answer(c, a) /\ Change(c.id, a)
  BY DEF Deliver
<1>3. /\ c.id \in Saved /\ state[c.id] = "sending"
      /\ \A e \in calls \ {c} : ~(e.id = c.id /\ e.is = "attempt")
  BY <1>1 DEF Inv, Delivery
<1> QED
  BY <1>1, <1>2, <1>3, StateMoves

---------------------------------------------------------------------------
LEMMA InitInv ==
  ASSUME Init
  PROVE  Inv
<1>1. PICK n \in 0..Budget : log = [k \in 1..n |-> k] /\ device \in 0..n /\ left = Budget - n
  BY DEF Init
<1>2. n \in Nat /\ Budget \in Nat /\ n <= Budget
  BY <1>1, TimelineAssumption
<1>3. /\ log \in Seq(Ids) /\ Len(log) = n /\ DOMAIN log = 1..n /\ \A k \in 1..n : log[k] = k
  BY <1>1, <1>2 DEF Ids, Theirs
<1>4. Saved = 1..n
  BY <1>3 DEF Saved
<1>5. Log
  <2>1. IsFiniteSet(1..n) /\ Cardinality(1..n) = n
    BY <1>2, FS_Interval
  <2>2. Saved \cap Theirs = 1..n
    BY <1>2, <1>4 DEF Theirs
  <2>3. n + left <= Budget
    BY <1>1, <1>2
  <2> QED
    BY <1>3, <1>4, <2>1, <2>2, <2>3 DEF Log, Counted
<1>6. \A i \in Own : i \notin Saved
  BY <1>2, <1>4, TimelineAssumption DEF Theirs
<1> DEFINE a == [page |-> Asked, replace |-> TRUE]
<1>7. a \in Asking /\ a.page = Asked
  BY NoAnswer DEF Asking
<1>8. asks = <<a>> /\ counts = TRUE
  BY DEF Init
<1> HIDE DEF a
<1>9. asks \in Seq(Asking) /\ Len(asks) = 1 /\ DOMAIN asks = 1..1 /\ asks[1] = a /\ asks # <<>>
  BY <1>7, <1>8
<1>10. Types
  <2>1. rows \in RowMaps /\ loaded = FALSE /\ cursor = 0 /\ unproved = {}
    BY EmptyTyped DEF Init
  <2>2. earlier \in [at : Nat, page : Pages, fresh : BOOLEAN] /\ earlier.at = 0
    BY NoAnswer DEF Init
  <2>3. retrying \in [id : Own \cup {None}, resend : BOOLEAN]
    BY DEF Init
  <2>4. state \in [Own -> States] /\ carried \in [Own -> SUBSET Words]
    BY DEF Init, States, Status
  <2>5. left \in 0..Budget /\ device \in 0..Len(log)
    BY <1>1, <1>2, <1>3
  <2>6. /\ behind = FALSE /\ error = "none" /\ missed = FALSE /\ draft = {} /\ sending = None
        /\ calls = {}
    BY DEF Init
  <2> QED
    <3>1. log \in Seq(Ids) /\ cursor \in Nat /\ cursor <= Len(log) /\ earlier.at <= Len(log)
      BY <1>2, <1>3, <2>1, <2>2
    <3>2. asks \in Seq(Asking) /\ counts \in BOOLEAN
      BY <1>8, <1>9
    <3> QED
      BY <2>1, <2>2, <2>3, <2>4, <2>5, <2>6, <3>1, <3>2 DEF Types
<1>11. Kept /\ OneCall /\ Delivery
  <2>1. /\ rows = <<>> /\ DOMAIN rows = {} /\ draft = {} /\ calls = {} /\ sending = None
        /\ \A i \in Own : carried[i] = {} /\ state[i] = "none"
    BY EmptyTyped DEF Init
  <2> QED
    BY <1>6, <2>1 DEF Kept, OneCall, Delivery
<1>12. Shown
  <2>1. /\ rows = <<>> /\ DOMAIN rows = {} /\ cursor = 0 /\ earlier.at = 0
        /\ \A i \in Own : carried[i] = {}
    BY EmptyTyped DEF Init
  <2>2. \A i \in DOMAIN Latest.rows : i \notin Own
    <3>1. Len(log) + 1 \in 1..(Len(log) + 1)
      BY <1>10 DEF Types
    <3>2. Covers(Latest, Len(log) + 1)
      BY <1>10, LatestCovers
    <3>3. DOMAIN Latest.rows \subseteq Saved
      BY <1>10, <3>1, <3>2, CoversFacts
    <3> QED
      BY <1>6, <3>3
  <2> QED
    BY <2>1, <2>2 DEF Shown
<1>13. Asks
  <2>1. Newest = Asked /\ AskedFor = {Asked} /\ ~Answered(Asked)
    BY <1>7, <1>9, NoAnswer DEF Newest, AskedFor, Answered
  <2> QED
    BY <1>9, <2>1 DEF Asks, Sound
<1>14. Earlier
  BY DEF Earlier, Init
<1>15. UpToDate
  <2>1. Newest = Asked /\ ~Answered(Asked)
    BY <1>7, <1>9, NoAnswer DEF Newest, Answered
  <2> QED
    BY <1>8, <2>1 DEF UpToDate
<1>16. NoGapUnlessUnproved
  BY DEF NoGapUnlessUnproved, Init
<1> QED
  BY <1>5, <1>10, <1>11, <1>12, <1>13, <1>14, <1>15, <1>16 DEF Inv

LEMMA Stutters ==
  ASSUME Inv, UNCHANGED vars
  PROVE  Inv'
<1>1. UNCHANGED <<log, state, behind, rows, loaded, cursor, unproved, asks, counts, earlier,
                  device, error, missed, draft, sending, retrying, calls, carried, left>>
  BY DEF vars, service, list, reading, writing
<1>2. Types'
  BY <1>1 DEF Inv, Types
<1>3. Asks' /\ UpToDate' /\ Earlier'
  BY <1>1, <1>2, NothingNewIsAsked, EarlierStays, GrowsNot DEF Extends
<1>4. left' <= left
  BY <1>1, TimelineAssumption DEF Inv, Types
<1> QED
  BY <1>1, <1>2, <1>3, <1>4, ReadingOnly DEF Inv

LEMMA NextInv ==
  ASSUME Inv, [Next]_vars
  PROVE  Inv'
<1>1. CASE Read
  <2>1. ASSUME NEW k \in DOMAIN asks, ReceiveAsk(k)
        PROVE  Inv'
    BY <2>1, TakenAsk, ReconcileStep
  <2> QED
    BY <1>1, <2>1, NoticeStep, CancelStep, WatchStep, AskEarlierStep, AnswerEarlierStep,
       ReceiveEarlierStep, AnswerAskStep DEF Read
<1>2. CASE Write
  BY <1>2, TypeStep, SendStep, RetryStep, ReceiveCallStep, ReceiveMissingStep, GiveUpStep DEF Write
<1>3. CASE Serve
  BY <1>3, ArriveStep, SaveStep, RefuseStep, AgainStep, DeliverStep DEF Serve
<1>4. CASE UNCHANGED vars
  BY <1>4, Stutters
<1> QED
  BY <1>1, <1>2, <1>3, <1>4 DEF Next

THEOREM InvHolds == Spec => []Inv
<1>1. Init => Inv
  BY InitInv
<1>2. Inv /\ [Next]_vars => Inv'
  BY NextInv
<1> QED
  BY <1>1, <1>2, PTL DEF Spec

---------------------------------------------------------------------------
(* The properties. *)

(* Every variable stays within its type, and as many messages are saved as the log is  *)
(* long: no id is saved twice.                                                          *)
THEOREM TypesHold == Spec => []TypeOK
<1>1. Inv => TypeOK
  <2> SUFFICES ASSUME Inv PROVE TypeOK
    OBVIOUS
  <2>1. /\ log \in Seq(Ids) /\ Saved \subseteq Ids /\ Cardinality(Saved) = Len(log)
    BY DEF Inv, Types, Log, Saved
  <2>2. \A f \in RowMaps : Rows(f)
    BY RowsTyped DEF Rows, Ids
  <2>3. rows \in RowMaps /\ earlier.page.rows \in RowMaps
    BY DEF Inv, Types, Pages
  <2>4. ASSUME NEW k \in DOMAIN asks
        PROVE  asks[k].page.rows \in RowMaps /\ asks[k].replace \in BOOLEAN
    <3>1. asks[k] \in Asking
      BY DEF Inv, Types
    <3> QED
      BY <3>1 DEF Asking, Pages
  <2>5. cursor \in 0..Len(log) /\ earlier.at \in 0..Len(log)
    BY <2>1 DEF Inv, Types
  <2>6. state \in [Own -> Status \ {"in"}]
    BY DEF Inv, Types, States
  <2>7. retrying.id \in Own \cup {None} /\ {behind, loaded, counts, missed} \subseteq BOOLEAN
    BY DEF Inv, Types
  <2> QED
    BY <2>1, <2>2, <2>3, <2>4, <2>5, <2>6, <2>7 DEF TypeOK, Inv, Types, Ids
<1> QED
  BY <1>1, InvHolds, PTL

(* send, markDeliveryUnknown, restoreUnsentMessages: whatever is answered, late or never,*)
(* what the owner typed is in exactly one place.                                        *)
THEOREM ComposerHolds == Spec => []ComposerIsExact
<1>1. Inv => ComposerIsExact
  BY DEF Inv, Kept, ComposerIsExact, WordsAreKept, NothingSentTwice
<1> QED
  BY <1>1, InvHolds, PTL

(* refresh: only the page that was asked for last counts, and when it has come and      *)
(* nothing has moved since, the list shows the newest page as it is saved.              *)
THEOREM QuietHolds == Spec => []QuietIsCurrent
<1>1. Inv => QuietIsCurrent
  BY DEF Inv, UpToDate, QuietIsCurrent, Quiet
<1> QED
  BY <1>1, InvHolds, PTL

(* reconcileLatestPage, loadEarlier: from the cursor on the list leaves nothing out     *)
(* unless a page joined it without proof.                                               *)
THEOREM GapHolds == Spec => []NoGapUnlessUnproved
<1>1. Inv => NoGapUnlessUnproved
  BY DEF Inv
<1> QED
  BY <1>1, InvHolds, PTL

---------------------------------------------------------------------------
(* What is shown as delivered, step by step. *)
Stands == \A i \in Own \cap DOMAIN rows \cap DOMAIN rows' :
  rows[i].status = "delivered" => rows'[i].status = "delivered" \/ Failing(i)

LEMMA KeptRowsStand ==
  ASSUME \A i \in DOMAIN rows \cap DOMAIN rows' : rows'[i] = rows[i]
  PROVE  Stands
BY DEF Stands

LEMMA AskStands ==
  ASSUME Inv, NEW k \in DOMAIN asks, ReceiveAsk(k)
  PROVE  Stands
<1> PICK p : p = asks[k].page
  OBVIOUS
<1>1. CASE ~Current(k) \/ p = Failed
  <2>1. rows' = rows
    <3>1. CASE ~Current(k)
      BY <3>1 DEF ReceiveAsk, list
    <3>2. CASE Current(k) /\ p = Failed
      BY <3>2 DEF ReceiveAsk, list
    <3> QED
      BY <1>1, <3>1, <3>2
  <2> QED
    BY <2>1, KeptRowsStand
<1>2. CASE Current(k) /\ p # Failed
  <2>1. p # Asked /\ Reconcile(p, asks[k].replace)
    BY <1>2 DEF ReceiveAsk
  <2>2. counts /\ p = Newest /\ p \in AskedFor
    BY <1>2 DEF Current, Newest, AskedFor
  <2>3. PICK c \in 1..(Len(log) + 1) : Covers(p, c) /\ Knows(p, c)
    BY <1>2, <2>1, <2>2 DEF Inv, Asks, Sound
  <2>4. /\ \A i \in DOMAIN p.rows : rows'[i] = p.rows[i]
        /\ \A i \in DOMAIN rows' \ DOMAIN p.rows : rows'[i] = rows[i]
    <3>1. CASE rows' = Merge(rows, p.rows)
      BY <3>1 DEF Merge
    <3>2. CASE rows' = Merge(Pending, p.rows)
      BY <3>2 DEF Merge, Pending, Restrict
    <3> QED
      BY <2>1, <3>1, <3>2 DEF Reconcile
  <2> SUFFICES ASSUME NEW i \in Own \cap DOMAIN rows \cap DOMAIN rows', rows[i].status = "delivered"
               PROVE  rows'[i].status = "delivered"
    BY DEF Stands
  <2>5. CASE i \in DOMAIN p.rows
    BY <2>3, <2>4, <2>5 DEF Knows
  <2>6. CASE i \notin DOMAIN p.rows
    BY <2>4, <2>6
  <2> QED
    BY <2>5, <2>6
<1> QED
  BY <1>1, <1>2

LEMMA WatchStands ==
  ASSUME Inv, WatchLatest
  PROVE  Stands
<1>1. PICK n \in device..Len(log) : Published(n)
  BY DEF WatchLatest
<1> PICK p : p = Page(n + 1)
  OBVIOUS
<1>2. CASE loaded
  <2>1. rows' = Merge(rows, Restrict(p.rows, DOMAIN p.rows \ DOMAIN rows))
    BY <1>1, <1>2 DEF Published
  <2>2. \A i \in DOMAIN rows : rows'[i] = rows[i]
    BY <2>1, RestrictFacts DEF Merge
  <2> QED
    BY <2>2, KeptRowsStand
<1>3. CASE ~loaded
  <2>1. DOMAIN rows = {}
    BY <1>3 DEF Inv, Shown
  <2> QED
    BY <2>1, KeptRowsStand
<1> QED
  BY <1>2, <1>3

LEMMA EarlierStands ==
  ASSUME Inv, ReceiveEarlier
  PROVE  Stands
<1>1. rows' = rows \/ rows' = Merge(earlier.page.rows, rows)
  <2>1. CASE ~SameChain
    BY <2>1 DEF ReceiveEarlier, list
  <2>2. CASE SameChain /\ earlier.page = Failed
    BY <2>2 DEF ReceiveEarlier, list
  <2>3. CASE SameChain /\ earlier.page # Failed
    BY <2>3 DEF ReceiveEarlier
  <2> QED
    BY <2>1, <2>2, <2>3
<1>2. \A i \in DOMAIN rows : rows'[i] = rows[i]
  BY <1>1 DEF Merge
<1> QED
  BY <1>2, KeptRowsStand

LEMMA SendStands ==
  ASSUME Inv, NEW i \in Own, Send(i)
  PROVE  Stands
<1> PICK r : r = Row("sending", TRUE, TRUE)
  OBVIOUS
<1>1. carried[i] = {} /\ rows' = Merge(rows, [j \in {i} |-> r])
  BY DEF Send, Fresh
<1>2. i \notin DOMAIN rows
  BY <1>1 DEF Inv, Kept
<1>3. \A j \in DOMAIN rows : rows'[j] = rows[j]
  BY <1>1, <1>2 DEF Merge
<1> QED
  BY <1>3, KeptRowsStand

LEMMA HearStands ==
  ASSUME Inv, NEW c \in calls, NEW a, Hear(c, a), a = "failed" => Failing(c.id),
         a \in Outcomes \cup {"lost"}
  PROVE  Stands
<1> PICK i : i = c.id
  OBVIOUS
<1>1. DOMAIN rows \subseteq Ids /\ \A j \in DOMAIN rows : rows[j] \in RowSet
  BY RowsTyped DEF Inv, Types
<1>2. CASE a \in {"delivered", "failed"}
  <2>1. rows' = Settled(i, a)
    BY <1>2 DEF Hear, Rejects
  <2>2. CASE i \notin DOMAIN rows
    BY <2>1, <2>2, KeptRowsStand DEF Settled
  <2>3. CASE i \in DOMAIN rows
    <3>1. PICK r : r = Row(a, FALSE, rows[i].unconfirmed)
      OBVIOUS
    <3>2. rows' = [rows EXCEPT ![i] = r] /\ r.status = a
      BY <2>1, <2>3, <3>1 DEF Settled, Row
    <3> QED
      BY <1>2, <2>3, <3>2 DEF Stands
  <2> QED
    BY <2>2, <2>3
<1>3. CASE Rejects(a)
  <2>1. rows' = rows \/ rows' = Restrict(rows, DOMAIN rows \ {i})
    <3>1. CASE Waiting(c) = "send"
      BY <1>3, <3>1 DEF Hear, Rejects
    <3>2. CASE Waiting(c) = "retry"
      BY <1>3, <3>2 DEF Hear, Rejects
    <3> QED
      BY <3>1, <3>2 DEF Waiting
  <2>2. \A j \in DOMAIN rows' : rows'[j] = rows[j]
    BY <2>1, RestrictFacts
  <2> QED
    BY <2>2, KeptRowsStand
<1>4. CASE a \notin {"delivered", "failed"} /\ ~Rejects(a)
  <2>1. rows' = InDoubt(i)
    BY <1>4 DEF Hear
  <2>2. CASE ~(i \in DOMAIN rows /\ rows[i].status # "delivered")
    BY <2>1, <2>2, KeptRowsStand DEF InDoubt
  <2>3. CASE i \in DOMAIN rows /\ rows[i].status # "delivered"
    <3>1. PICK r : r = Row("sending", rows[i].retry, TRUE)
      OBVIOUS
    <3>2. rows' = [rows EXCEPT ![i] = r]
      BY <2>1, <2>3, <3>1 DEF InDoubt
    <3> QED
      BY <2>3, <3>2 DEF Stands
  <2> QED
    BY <2>2, <2>3
<1> QED
  BY <1>2, <1>3, <1>4

LEMMA WriteStands ==
  ASSUME Inv, Write
  PROVE  Stands
<1>1. ASSUME NEW w \in Words, Type(w)
      PROVE  Stands
  BY <1>1, KeptRowsStand DEF Type, list
<1>2. ASSUME NEW i \in Own, Send(i) \/ Retry(i)
      PROVE  Stands
  BY <1>2, SendStands, KeptRowsStand DEF Retry, list
<1>3. ASSUME NEW c \in calls, ReceiveCall(c)
      PROVE  Stands
  <2>1. c.is \in Outcomes
    BY DEF Inv, Types, CallSet
  <2>2. c.is = "failed" => Failing(c.id)
    BY <1>3 DEF ReceiveCall, Failing
  <2> QED
    BY <1>3, <2>1, <2>2, HearStands DEF ReceiveCall
<1>4. ASSUME NEW c \in calls, ReceiveMissing(c)
      PROVE  Stands
  BY <1>4, KeptRowsStand DEF ReceiveMissing, list
<1>5. ASSUME NEW c \in calls, GiveUp(c)
      PROVE  Stands
  BY <1>5, HearStands DEF GiveUp
<1> QED
  BY <1>1, <1>2, <1>3, <1>4, <1>5 DEF Write

(* send, retry, refresh: what is shown as delivered does not fall back into doubt while *)
(* it stays in the list, whichever page or answer comes in between.                      *)
THEOREM DeliveredHolds == Spec => DeliveredStands
<1>1. Inv /\ [Next]_vars => [Stands]_vars
  <2> SUFFICES ASSUME Inv, Next PROVE Stands
    OBVIOUS
  <2>1. CASE Read
    <3>1. ASSUME \/ Notice \/ TryAgain \/ CancelRefresh \/ AskEarlier \/ AnswerEarlier
                 \/ \E k \in DOMAIN asks : AnswerAsk(k)
          PROVE  rows' = rows
      BY <3>1 DEF Notice, TryAgain, CancelRefresh, AskEarlier, AnswerEarlier, AnswerAsk, list
    <3> QED
      BY <2>1, <3>1, KeptRowsStand, AskStands, WatchStands, EarlierStands DEF Read
  <2>2. CASE Write
    BY <2>2, WriteStands
  <2>3. CASE Serve
    <3>1. rows' = rows
      BY <2>3 DEF Serve, Arrive, Save, Refuse, Missing, Again, Deliver, list
    <3> QED
      BY <3>1, KeptRowsStand
  <2> QED
    BY <2>1, <2>2, <2>3 DEF Next
<1>2. Inv /\ [Next]_vars =>
        [\A i \in Own \cap DOMAIN rows \cap DOMAIN rows' :
          rows[i].status = "delivered" => rows'[i].status = "delivered" \/ Failing(i)]_vars
  BY <1>1 DEF Stands
<1> QED
  BY <1>2, InvHolds, PTL DEF DeliveredStands, Spec
=============================================================================
