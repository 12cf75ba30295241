-------------------------------- MODULE Feed --------------------------------
(* The community feed in the app: index.jsx (acceptFeed and what calls it), the    *)
(* merge of reconciliation.js, the search of boardNavigation.js, and the loading    *)
(* of earlier posts in ui/Board.jsx.                                               *)
(*                                                                                *)
(* One list is filled by a copy saved on the device, by whole loads, by refreshes   *)
(* of the first page, by pages before the cursor, by the pages searched for a       *)
(* notification's post and by what the owner has just published. No request is      *)
(* numbered: every answer is accepted, in whatever order the answers come.         *)
(* Posts are numbered as they are created; two in a row have the same timestamp.    *)
EXTENDS Naturals, Sequences, FiniteSets, Lists

CONSTANTS
  PageSize,  \* BOARD_PAGE_SIZE
  MaxPosts, MaxAsks,
  Budget     \* bound on what is created, deleted, reloaded, searched for and restarted

FeedAssumption ==
  {PageSize, MaxAsks} \subseteq Nat \ {0} /\ {MaxPosts, Budget} \subseteq Nat

VARIABLES
  board, made,   \* the posts at the community host, and how many there ever were
  feed, cursor,  \* feedNextCursor; 0 is null, and then feedHasEarlier is false
  loaded,        \* freshFeedLoaded
  cache,         \* cache/board.json: a first page, and its cursor
  asks,          \* the requests under way
  search,        \* revealBoardTarget
  landing,       \* the owner's posts that are stored and not yet confirmed
  left           \* of the budget

service == <<board, made, landing>>
view == <<feed, cursor, loaded, cache>>
vars == <<service, view, asks, search, left>>

Time(p) == (p + 1) \div 2

Oldest(s) == CHOOSE p \in s : \A q \in s : p <= q

(* The page of the posts s before position c, and where the next one starts.         *)
Everything == MaxPosts + 1
Page(s, c) ==
  LET before == {p \in s : p < c}
      posts == {p \in before : Cardinality({q \in before : q > p}) < PageSize} IN
  [posts |-> posts, next |-> IF posts # before THEN Oldest(posts) ELSE 0]
Top == Page(board, Everything)

NoPage == [posts |-> {}, next |-> 0]
Request(kind, c) == [kind |-> kind, at |-> c, is |-> "sent", page |-> NoPage]
NoSearch == [on |-> FALSE, target |-> 0, found |-> {}, at |-> 0]

Init ==
  /\ made \in 0..MaxPosts /\ board = 1..made /\ landing = {}
  /\ feed = {} /\ cursor = 0 /\ loaded = FALSE
  /\ cache \in {Page(1..n, Everything) : n \in 0..made}
  /\ asks = <<Request("boot", Everything)>> /\ search = NoSearch /\ left = Budget

Spend == left > 0 /\ left' = left - 1
Ask(kind, c) == Len(asks) < MaxAsks /\ asks' = Append(asks, Request(kind, c))

---------------------------------------------------------------------------
(* The host, and the service that reads it.                                  *)
Create(mine) ==
  /\ made < MaxPosts /\ Spend /\ made' = made + 1 /\ board' = board \cup {made'}
  /\ landing' = IF mine THEN landing \cup {made'} ELSE landing
  /\ UNCHANGED <<view, asks, search>>

Delete(p) ==
  /\ p \in board /\ Spend /\ board' = board \ {p}
  /\ UNCHANGED <<made, landing, view, asks, search>>

Serve(k) ==
  /\ asks[k].is = "sent"
  /\ asks' = [asks EXCEPT ![k].is = "answered", ![k].page = Page(board, asks[k].at)]
  /\ UNCHANGED <<service, view, search, left>>

---------------------------------------------------------------------------
(* acceptFeed.                                                               *)

\* Mutant: every post that is not in the first page is kept.
Reconcile_Keeps(page, current) == page.posts \cup current

(* reconcileFeedPage: the page owns what is newer than its last timestamp.           *)
Reconcile(page, current) ==
  IF Cardinality(page.posts) < PageSize THEN page.posts
  ELSE page.posts \cup {p \in current : Time(p) <= Time(Oldest(page.posts))}

\* Mutant: a whole load leaves the cursor where the earlier pages had brought it.
MovesCursor_Short(page, background) == Cardinality(page.posts) < PageSize

MovesCursor(page, background) == ~background \/ Cardinality(page.posts) < PageSize

AcceptFeed(page, background) ==
  /\ feed' = IF background THEN Reconcile(page, feed) ELSE page.posts
  /\ cursor' = IF MovesCursor(page, background) THEN page.next ELSE cursor
  /\ loaded' = TRUE /\ cache' = page

Drop(k) == asks' = RemoveAt(asks, k)

(* loadBootstrap, loadFeed.                                                          *)
Poll == Ask("poll", Everything) /\ UNCHANGED <<service, view, search, left>>
Reload == Spend /\ Ask("full", Everything) /\ UNCHANGED <<service, view, search>>
Accept(k) ==
  /\ asks[k].is = "answered" /\ asks[k].kind # "earlier"
  /\ AcceptFeed(asks[k].page, asks[k].kind = "poll")
  /\ Drop(k)
  /\ UNCHANGED <<service, search, left>>

(* A bootstrap that fails is followed by a load of its own. (What fails before it is     *)
(* answered has the same effect.)                                                    *)
Fail(k) ==
  /\ asks[k].is = "answered"
  /\ IF asks[k].kind = "boot" THEN asks' = [asks EXCEPT ![k] = Request("full", Everything)]
     ELSE Drop(k)
  /\ UNCHANGED <<service, view, search, left>>

(* The copy on the device is shown before anything else, or not at all.               *)
PaintCached ==
  /\ ~loaded /\ feed = {} /\ cache # NoPage
  /\ feed' = cache.posts /\ cursor' = cache.next
  /\ UNCHANGED <<service, loaded, cache, asks, search, left>>

---------------------------------------------------------------------------
(* loadEarlierPosts, loadEarlierFeed                                                 *)
LoadEarlier ==
  /\ feed # {} /\ cursor # 0 /\ \A k \in DOMAIN asks : asks[k].kind # "earlier"
  /\ Ask("earlier", cursor) /\ UNCHANGED <<service, view, search, left>>
AcceptEarlier(k) ==
  /\ asks[k].is = "answered" /\ asks[k].kind = "earlier"
  /\ feed' = feed \cup asks[k].page.posts /\ cursor' = asks[k].page.next
  /\ Drop(k)
  /\ UNCHANGED <<service, loaded, cache, search, left>>

(* acceptPublishedPost: the owner's post is confirmed.                               *)
Confirm(p) ==
  /\ p \in landing /\ landing' = landing \ {p}
  /\ feed' = feed \cup {p}
  /\ UNCHANGED <<board, made, cursor, loaded, cache, asks, search, left>>

---------------------------------------------------------------------------
(* revealBoardTarget, locateBoardPost: page by page from the top, for one target;     *)
(* a new target or another tab ends the search.                                      *)
Reveal(p) ==
  /\ Spend /\ search' = [NoSearch EXCEPT !.on = TRUE, !.target = p, !.at = Everything]
  /\ UNCHANGED <<service, view, asks>>
Searching == search.on /\ search.target \notin search.found /\ search.at # 0
SearchPage ==
  LET page == Page(board, search.at) IN
  /\ Searching
  /\ search' = [search EXCEPT !.found = @ \cup page.posts, !.at = page.next]
  /\ UNCHANGED <<service, view, asks, left>>
EndSearch ==
  /\ search.on /\ search' = NoSearch
  /\ UNCHANGED <<service, view, asks, left>>

(* discoveryExtendsFeed                                                              *)
Extends(found, current) ==
  current = {} \/ (found # {} /\ Oldest(found) <= Oldest(current))
Found ==
  /\ search.on /\ search.target \in search.found
  /\ feed' = feed \cup search.found
  /\ cursor' = IF Extends(search.found, feed) THEN search.at ELSE cursor
  /\ search' = NoSearch
  /\ UNCHANGED <<service, loaded, cache, asks, left>>

(* The app is opened again.                                                          *)
Restart ==
  /\ Spend
  /\ feed' = {} /\ cursor' = 0 /\ loaded' = FALSE /\ landing' = {}
  /\ asks' = <<Request("boot", Everything)>> /\ search' = NoSearch
  /\ UNCHANGED <<board, made, cache>>

---------------------------------------------------------------------------
Next ==
  \/ \E mine \in BOOLEAN : Create(mine)
  \/ \E p \in 1..MaxPosts : Delete(p) \/ Confirm(p) \/ Reveal(p)
  \/ \E k \in DOMAIN asks : Serve(k) \/ Accept(k) \/ AcceptEarlier(k) \/ Fail(k)
  \/ Poll \/ Reload \/ PaintCached \/ LoadEarlier
  \/ SearchPage \/ Found \/ EndSearch \/ Restart

(* While the board is on screen it is polled again and again, requests end, and it is  *)
(* not so that all of them fail.                                                      *)
Served == \E k \in DOMAIN asks : Serve(k)
Answered == \E k \in DOMAIN asks : Accept(k) \/ AcceptEarlier(k)
Fairness ==
  /\ WF_vars(Poll) /\ WF_vars(\E p \in landing : Confirm(p))
  /\ WF_vars(Served) /\ SF_vars(Answered)
Spec == Init /\ [][Next]_vars /\ Fairness

---------------------------------------------------------------------------
TypeOK ==
  /\ board \subseteq 1..made /\ feed \subseteq 1..made /\ landing \subseteq 1..made
  /\ made \in 0..MaxPosts /\ cursor \in 0..MaxPosts /\ Len(asks) <= MaxAsks
  /\ cache.posts \subseteq 1..made /\ search.found \subseteq 1..made

(* A post that is neither shown nor brought by the first page nor by the cursor.       *)
Hidden == {p \in board \ feed : p \notin Top.posts /\ p >= cursor}

(* What an answer cannot know: the posts that were created after it was given.         *)
After(page) == {p \in board : \A q \in page : p > q}
Unknown ==
  {p \in board : \/ \E k \in DOMAIN asks : Accept(k) /\ p \in After(asks[k].page.posts)
                 \/ Found /\ p \in After(search.found)}

(* acceptFeed, loadEarlierFeed, revealBoardTarget: the list has no holes. A post within *)
(* reach stays within reach in whatever order the answers come, but for what was created *)
(* after the answer, and for what was created beyond a page since the list was refreshed. *)
(* A page of earlier posts asked for at another cursor is not covered.                   *)
LateEarlier == \E k \in DOMAIN asks : asks[k].at # cursor /\ AcceptEarlier(k)
StaysInReach ==
  [][feed # {} /\ feed' # {} /\ made' = made /\ ~LateEarlier
       => Hidden' \subseteq Hidden \cup Unknown]_vars

(* The newest page of the list is that of the board: nothing missing, and nothing that  *)
(* was deleted but for posts that share the timestamp of its last one.                    *)
FirstPageIsRight ==
  /\ Top.posts \subseteq feed
  /\ IF Cardinality(Top.posts) < PageSize THEN feed = board
     ELSE {p \in feed : Time(p) > Time(Oldest(Top.posts))} \subseteq board

(* The poll of ui/Board.jsx: once the board rests, its newest page is shown for good.      *)
FirstPageSettles == <>[]FirstPageIsRight
=============================================================================
