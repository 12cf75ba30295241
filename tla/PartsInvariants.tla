-------------------------- MODULE PartsInvariants --------------------------
(* What is so in every state of the parts of the app's screens: for each part the inductive *)
(* invariant that PartsProofs proves, with the named conjuncts its proofs go by.            *)
EXTENDS MCParts, Integers, Sequences, FiniteSets

(* Of sequences: without the element at k; what it holds; each once.                       *)
Without(s, k) == SubSeq(s, 1, k - 1) \o SubSeq(s, k + 1, Len(s))
Elements(s) == {s[k] : k \in DOMAIN s}
Distinct(s) == \A j, k \in DOMAIN s : s[j] = s[k] => j = k

(* Drafts: what a window has under way with the file. Since a change of the file moves *)
(* its version, a write that still meets its condition finds the file as it was read.  *)
MaybeDraft == Drafts \cup {None}
Slips ==
  [at : {"idle", "sent", "read", "write", "load", "join"}, of : MaybeDraft, shown : MaybeDraft,
   version : Nat]
SlipSound(l, t) ==
  /\ t.version <= version
  /\ t.at = "write" /\ t.version = version =>
       stored = IF l = "continue" THEN None ELSE t.shown
  /\ l = "continue" /\ t.at = "write" => t.of \notin Legacy
  /\ l # "continue" /\ t.at \in {"read", "write"} => t.of = t.shown
  /\ l = "discard" => t.of = t.shown
DraftTypes ==
  /\ stored \in MaybeDraft /\ version \in 0..MaxWrites /\ member \in [Windows -> BOOLEAN]
  /\ intent \in [Windows -> MaybeDraft] /\ intents \in [Windows -> {"loading", "ready", "error"}]
  /\ draftTaps \in 0..DraftTaps
  /\ draft \in [Windows -> [Draft!Lanes -> Slips]]
DraftInv ==
  /\ DraftTypes
  /\ \A w \in Windows, l \in Draft!Lanes : SlipSound(l, draft[w][l])

(* Invitations: how the timestamps stand to each other. What was refused is remembered by   *)
(* the record until every copy of it is too old to be accepted.                         *)
Times == 0..(MaxTime + Skew)
Invitation == [status : {"none", "pending", "declined"}, at : Times, declined : 0..MaxTime]
InvitedTypes ==
  /\ now \in 0..MaxTime /\ sent \subseteq [of : Objects, at : 1..(MaxTime + Skew)]
  /\ received \in [Objects -> Invitation] /\ remote \subseteq Objects
  /\ lane \in sent \cup {Invited!NoEnvelope} /\ accepting \in [Objects -> {"no", "asked", "saved"}]
  /\ refused \in [Objects -> Times] /\ crossed \subseteq Objects
Remembered(r, d) ==
  /\ r.status = "none" => d = 0 \/ d + Skew < now
  /\ r.status = "pending" => r.at > d /\ r.at <= now + Skew
  /\ r.status = "declined" => d = r.at /\ r.at <= r.declined + Skew /\ r.declined <= now
Admitted ==
  lane # Invited!NoEnvelope =>
    /\ received[lane.of].status # "pending" /\ lane.at > refused[lane.of] /\ lane.at <= now + Skew
InvitedInv ==
  /\ InvitedTypes /\ Admitted /\ Invited!JoinedIsNotInvited
  /\ \A o \in Objects : Remembered(received[o], refused[o])

(* Upkeep: every job is in the queue once or under way, and a poller in a tick has one. *)
QueueTyped(q, a, d) ==
  /\ q \in Seq(Lanes!Upkeep) /\ Distinct(q)
  /\ a \in Lanes!Upkeep \cup {None} /\ a \notin Elements(q) /\ d \subseteq Elements(q) \cap Errands
LanesTypes ==
  /\ out \subseteq Owner /\ {onScreen, started} \subseteq BOOLEAN /\ hides \in 0..MaxHides
  /\ asked \in 0..MaxOwner /\ timers \subseteq Pollers /\ running \subseteq Pollers
LanesInv ==
  /\ LanesTypes /\ QueueTyped(requests, active, dead)
  /\ requests # <<>> => out # {} \/ active # None
  /\ \A p \in Pollers : p \in running <=> p = active \/ p \in Elements(requests)

(* Thumbnails: the lists name no path twice, and every thumbnail on the device is in the   *)
(* list, or is being removed, or has been stored and is yet to be listed, or was lost.    *)
Shelf(s) == s \in Seq(Paths) /\ Distinct(s) /\ Len(s) <= ThumbnailLimit
StoredNow == {saves[i][1] : i \in {j \in DOMAIN saves : saves[j][2]}}
ThumbTypes ==
  /\ blobs \subseteq Paths /\ orphans \subseteq Paths /\ removes \subseteq Paths
  /\ timer \in BOOLEAN /\ thumbAsks \in 0..ThumbnailAsks
  /\ saves \in Seq(Paths \X BOOLEAN) /\ Shelf(index)
ThumbInv ==
  /\ ThumbTypes
  /\ thumbs = None => saves = <<>> /\ ~timer
  /\ thumbs # None =>
       Shelf(thumbs) /\ blobs \subseteq Elements(thumbs) \cup removes \cup orphans \cup StoredNow

(* Photos: which URLs the tile and the viewer hold. The viewer's own are never the tile's, *)
(* and the gallery image the viewer waits for has not come.                              *)
TileUrls == {<<"poster", e>> : e \in Nat} \cup {<<"original", e>> : e \in Nat}
TileSound ==
  /\ tile.urls \subseteq TileUrls /\ tile.e \in 1..(MaxEffects + 1) /\ tile.on \in BOOLEAN
  /\ tile.on => tile.e <= MaxEffects
  /\ tile.shows # None => tile.shows \in tile.urls /\ tile.shows = Photo!Poster(tile.e) /\ tile.on
BoxSound ==
  box # None =>
    /\ box \in Photo!Boxes
    /\ IF box.owns THEN \E k \in Nat : box.url = Photo!Full(k) ELSE box.url \in TileUrls
    /\ box.item # None => \E k \in Nat : box.item = Photo!Item(k)
    /\ box.wants \in items => box.item = None
PhotoInv ==
  /\ TileSound /\ BoxSound
  /\ live = tile.urls \cup Photo!Owned(box)
  /\ fullTaps \in 0..FullTaps /\ shownItems \in 0..MaxItems /\ items \subseteq 1..shownItems
  /\ loads \subseteq (1..MaxEffects) \X {"image", "still"} /\ fulls \subseteq Nat \X TileUrls

(* The open thread. What is known of the deletions and the posts, of the cache's entry,   *)
(* of the read that may replace it, and of the rows on screen.                          *)
Rows == SUBSET Thread!Replies
Entries == [has : BOOLEAN, rows : Rows, fresh : BOOLEAN, read : 0..MaxReads, quiet : BOOLEAN]
Answers == [is : {"free", "asked", "failed", "rows"}, rows : Rows]
Posts == [id : Own \cup {None}, is : {"none", "asked", "ok", "failed", "gone", "reading"}, read : 0..MaxReads]
ThreadTypes ==
  /\ host \in Rows /\ buried \in Rows /\ host \cap buried = {} /\ count \in 0..Cardinality(Thread!Replies)
  /\ replyCache \in Entries /\ reads \in [1..MaxReads -> Answers]
  /\ open \in BOOLEAN /\ rows \in Rows /\ pending \in Rows /\ state \in {"idle", "loading", "ready", "error"}
  /\ awaited \in [read : 0..MaxReads, quiet : BOOLEAN] /\ posting \in Posts
  /\ deleting \in [Own -> {"no", "asked", "ok", "failed"}] /\ threadLeft \in 0..ThreadBudget
  /\ done \subseteq Own /\ gone \subseteq Own
ChangesSound ==
  /\ gone \subseteq buried \cap done
  /\ \A r \in Own : deleting[r] # "no" =>
       r \in done /\ r \in host \cup buried /\ r \notin gone /\ replyCache.has
  /\ \A r \in Own : deleting[r] = "ok" => r \in buried
  /\ posting.is # "none" => posting.id \in Own /\ posting.id \notin gone
  /\ posting.is = "ok" => posting.id \in host \cup buried
EntrySound ==
  /\ ~replyCache.has => replyCache.rows = {}
  /\ replyCache.rows \subseteq host \cup buried /\ replyCache.rows \cap gone = {}
ReadsSound ==
  /\ \A n \in 1..MaxReads : reads[n].rows \subseteq host \cup buried
  /\ replyCache.read # 0 =>
       /\ reads[replyCache.read].rows \cap gone = {}
       /\ reads[replyCache.read].is = "rows" =>
            replyCache.rows \cap host \subseteq reads[replyCache.read].rows \cup Thread!Deleting
ScreenSound ==
  /\ rows \subseteq host \cup buried /\ rows \cap Own \subseteq done
  /\ awaited.read # 0 => open /\ awaited.read = replyCache.read
  /\ open => /\ rows # {} => replyCache.has
             /\ rows \cap host \subseteq replyCache.rows \cup Thread!Deleting /\ rows \cap gone = {}
ThreadInv == ThreadTypes /\ ChangesSound /\ EntrySound /\ ReadsSound /\ ScreenSound

(* Reactions: a tap made on what the host had is opposite to it, on screen and, once the *)
(* host has stored it, there too; the answer waits as the host gave it.                 *)
Reacted == {r \in [mine : BOOLEAN, count : 0..3] : ~r.mine => r.count <= 2}
TapTypes ==
  [is : {"none", "sent", "stored", "confirmed", "read"}, before : Reacted, answer : Reacted, agreed : BOOLEAN]
ReactionTypes ==
  /\ mine \in BOOLEAN /\ others \in 0..2 /\ row \in Reacted /\ over \in Reacted \cup {None}
  /\ tap \in TapTypes
  /\ polls \in Seq(Reacted)
TapSound ==
  tap.is # "none" /\ tap.agreed =>
    /\ over # None /\ over.mine = ~tap.before.mine
    /\ tap.is = "sent" => mine = tap.before.mine
    /\ tap.is # "sent" => mine = ~tap.before.mine
    /\ tap.is \in {"stored", "confirmed"} => tap.answer.mine = ~tap.before.mine
ReactionInv == ReactionTypes /\ TapSound

(* Faces: what the record and the saved copy say is the last definite word, and a job is *)
(* void exactly when that word came after it was queued; the owner's primed picture is   *)
(* the owner's own, saved unless it was discarded since.                              *)
Picture == Faces!Picture
FaceRecords ==
  [in : BOOLEAN, url : Picture, seen : {"none", "fresh", "old"}, miss : {"none", "absent", "failed"},
   recent : BOOLEAN, digest : Picture, checked : Picture, primed : Picture \cup {None}]
FaceJobs ==
  [at : {"idle", "restoring", "queued", "asked"}, back : BOOLEAN, void : BOOLEAN, digest : Picture]
FaceCopies ==
  [has : BOOLEAN, broken : BOOLEAN, old : BOOLEAN, face : Picture, digest : Picture, checked : Picture]
FaceTypes ==
  /\ rec \in [Hosts -> FaceRecords] /\ job \in [Hosts -> FaceJobs] /\ saved \in [Hosts -> FaceCopies]
  /\ hint \in [Hosts -> Picture] /\ self \in Hosts \cup {None} /\ own \in Picture
  /\ known \in [Hosts -> Picture \cup {None}] /\ overruled \in [Hosts -> BOOLEAN]
FaceSound(h) ==
  /\ rec[h].url # 0 => rec[h].url = known[h]
  /\ rec[h].miss = "absent" => known[h] = 0
  /\ saved[h].has /\ ~saved[h].broken => saved[h].face = known[h]
  /\ saved[h].broken => known[h] = None
  /\ known[h] # None => saved[h].has \/ h = self
  /\ rec[h].primed # None =>
       h = self /\ rec[h].primed = own /\ known[h] \in {own, None} /\ ~saved[h].broken
  /\ overruled[h] = (job[h].at \in {"queued", "asked"} /\ job[h].void)
FaceInv == FaceTypes /\ \A h \in Hosts : FaceSound(h)

(* The feed: an answered page, or what a search has found, holds every post of the board  *)
(* from its cursor on, but for those created since; a page of earlier posts was asked for *)
(* below the newest post, so that nothing is created within it.                          *)
Requests ==
  [kind : {"boot", "poll", "full", "earlier"}, at : 0..Feeds!Everything, is : {"sent", "answered"},
   page : [posts : SUBSET (1..MaxPosts), next : 0..MaxPosts]]
PageSound(g) ==
  /\ g.posts \subseteq 1..made /\ g.next \in g.posts \cup {0}
  /\ g.next # 0 => \A q \in g.posts : g.next <= q
RequestSound(r) ==
  /\ r.kind # "earlier" => r.at = Feeds!Everything
  /\ r.kind = "earlier" => r.at <= made
  /\ r.is = "answered" =>
       /\ PageSound(r.page)
       /\ \A p \in board : p < r.at => \/ p \in r.page.posts
                                       \/ r.page.next # 0 /\ p < r.page.next
                                       \/ r.kind # "earlier" /\ p \in Feeds!After(r.page.posts)
SearchSound ==
  /\ search.found # {} => search.at <= made
  /\ search.on => \A p \in board : \/ p \in search.found \/ p \in Feeds!After(search.found)
                                   \/ search.at # 0 /\ p < search.at
FeedTypes ==
  /\ made \in 0..MaxPosts /\ board \subseteq 1..made /\ feed \subseteq 1..made /\ landing \subseteq 1..made
  /\ cursor \in 0..made /\ PageSound(cache)
  /\ search \in [on : BOOLEAN, target : 0..MaxPosts, found : SUBSET (1..made), at : 0..Feeds!Everything]
  /\ asks \in Seq(Requests)
AsksSound == \A r \in Elements(asks) : RequestSound(r)
FeedInv == FeedTypes /\ AsksSound /\ SearchSound
(* The ways in which the host's board changes. *)
BoardChanges ==
  \/ UNCHANGED <<board, made>>
  \/ made' = made + 1 /\ board' = board \cup {made'}
  \/ made' = made /\ \E p : board' = board \ {p}

(* The hints: a request under way was made with the hint of now, or the hint overtook it;   *)
(* and what is void once it is queued leaves a record that is primed or failed.            *)
Follows(h) ==
  \/ rec[h].checked = hint[h] \/ (rec[h].url # 0 /\ rec[h].digest = hint[h])
  \/ job[h].at # "idle" \/ overtaken[h] \/ rec[h].miss = "failed"
HintSound(h) ==
  /\ h \in mounted /\ Faces!Answered(rec[h]) /\ hint[h] # 0 /\ rec[h].primed = None => Follows(h)
  /\ job[h].at = "asked" => job[h].digest = hint[h] \/ overtaken[h]
  /\ job[h].at \in {"queued", "asked"} /\ job[h].void => rec[h].primed # None \/ rec[h].miss = "failed"
HintInv ==
  /\ mounted \subseteq Hosts /\ overtaken \in [Hosts -> BOOLEAN]
  /\ \A h \in Hosts : HintSound(h)

(* The conversations: of the records a load has read, those the device did not answer for   *)
(* are the service's, unless a change was made that the window is about to hear of; and     *)
(* whoever closes the thread starts a load.                                             *)
Answered == [act : {"no", "accepted", "declined"}, at : {"idle", "asked", "done", "failed"}, mounted : BOOLEAN]
ChatTypes ==
  /\ convs \in [Chats!Convs -> Chats!Record] /\ list \in [Chats!Convs -> Chats!Record]
  /\ due \in BOOLEAN /\ behind \in BOOLEAN /\ access \in BOOLEAN /\ foreground \in BOOLEAN /\ stale \in BOOLEAN
  /\ listState \in {"loading", "ready", "error"} /\ clears \subseteq Chats!Convs /\ lost \subseteq Chats!Convs
  /\ load \in Chats!Load \union {None} /\ thread \in Chats!Thread \union {None}
  /\ decisions \in [Chats!Convs -> Answered] /\ notice \in Chats!Convs \union {None}
  /\ making \in {"closed", "creating", "opening", "created", "reopening"} /\ spent \in 0..ChatBudget
ChatsSound ==
  /\ \A c \in Chats!Convs : convs[c].unread => convs[c].status = "accepted"
  /\ \A c \in Chats!Convs : decisions[c].mounted => Chats!On(c)
  /\ \A c \in Chats!Convs : decisions[c].at = "asked" => decisions[c].act # "no"
Listing ==
  /\ load # None /\ ~load.listed => load.todo = {} /\ \A c \in Chats!Convs : load.got[c] = Chats!Absent
  /\ access /\ ~due /\ ~behind /\ load # None /\ load.listed /\ ~load.old =>
       \A c \in Chats!Convs : c \in load.todo \/ load.got[c] = convs[c]
ChatInv == ChatTypes /\ ChatsSound /\ Listing /\ Chats!ListIsCurrent

(* The group on screen: its creator decides nothing and nobody else invites, so whoever is   *)
(* said to be invited is in every roster that may still come on screen; and a refresh has   *)
(* the service's record, unless a change was made that the window is about to hear of.      *)
GroupAnswers == [act : {"no", "accepted", "declined"}, at : {"idle", "asked", "served", "read"},
                 got : Roster!Record \union {None}]
Sheets == [mode : {"closed", "details", "invite", "delete", "deleted"}, at : {"idle", "asked", "served", "partly"},
           who : Members \union {None}, got : Roster!Record \union {None}]
GroupTypes ==
  /\ creator \in BOOLEAN /\ group \in Roster!Record /\ shown \in Roster!Record
  /\ groupDue \in BOOLEAN /\ groupBehind \in BOOLEAN /\ groupOpen \in BOOLEAN /\ failed \in BOOLEAN /\ older \in BOOLEAN
  /\ refresh \in Roster!Read \union {None} /\ decision \in GroupAnswers /\ sheet \in Sheets
  /\ acked \subseteq Members /\ groupSpent \in 0..GroupBudget
Asking == sheet.at \in {"asked", "served"}
Managed == {"invite", "delete", "deleted"}
(* Who may do what. *)
RolesSound ==
  /\ creator => group.status = "accepted" /\ shown.status = "accepted" /\ decision = Roster!Undecided
  /\ ~creator => acked = {}
  /\ creator /\ refresh # None /\ refresh.at = "read" => refresh.got.status = "accepted"
  /\ creator /\ Asking /\ sheet.mode = "invite" => sheet.got.status = "accepted"
  /\ sheet.mode \in Managed => creator
  /\ Asking => sheet.mode \in Managed
  /\ decision.at \in {"asked", "served"} => decision.act # "no"
(* What an answer to come would put on screen. *)
AnswersSound ==
  /\ refresh # None /\ refresh.at = "read" =>
       refresh.got \in Roster!Record /\ acked \subseteq refresh.got.members
  /\ refresh # None => groupOpen
  /\ refresh # None /\ refresh.at = "read" /\ ~groupDue /\ ~groupBehind => refresh.got = group
  /\ decision.at = "read" => decision.got \in Roster!Record
  /\ Asking /\ sheet.mode = "invite" => sheet.who \in Members /\ sheet.got \in Roster!Record
  /\ sheet.at = "served" /\ sheet.mode = "invite" => acked \union {sheet.who} \subseteq sheet.got.members
  /\ acked \subseteq group.members
GroupInv == GroupTypes /\ RolesSound /\ AnswersSound /\ Roster!InvitedIsShown /\ Roster!ShownIsCurrent

(* The badge: revisions grow, what a report says of the newest revision is what is noted,  *)
(* and Möbius either shows that or nothing is acknowledged; a report that is still on its  *)
(* way then says the same, or is too old for Möbius to take.                             *)
Reporters == {q1, q2}
Steps == {"idle", "changed", "bumped", "due", "read", "put", "unsupported", "answered", "reset", "accepted"}
Told == {"read", "put", "unsupported", "answered", "reset", "accepted"}
Notes == [rev : Sidebar!Revision, count : Sidebar!Count]
Acks == [rev : Sidebar!Revision, unsupported : {"no", "recent", "old"}]
Reports == [at : Steps, rev : Sidebar!Revision, count : Sidebar!Count, stored : Sidebar!Revision]
BadgeTypes ==
  /\ unread \in Sidebar!Count /\ storedVersion \in 0..MaxVersion /\ supports \in BOOLEAN /\ badgeLeft \in 0..BadgeBudget
  /\ noted \in Notes /\ mobius \in Notes /\ ack \in Acks /\ reports \in [Reporters -> Reports]
  /\ torn \in BOOLEAN /\ astray \in {"no", "restored", "beyond"}
Harmless(j) == j.at \in {"read", "put"} => j.count = noted.count \/ j.rev <= mobius.rev
Settled == mobius.count = noted.count /\ \A r \in Reporters : Harmless(reports[r])
ReportSound(j) ==
  /\ j.at \in Told => 0 <= j.rev /\ j.rev <= noted.rev
  /\ j.at \in {"read", "put"} /\ j.rev = noted.rev => j.count = noted.count
  /\ j.at = "changed" => storedVersion < MaxVersion
  /\ j.at = "bumped" => j.rev = storedVersion /\ noted.rev < storedVersion
  /\ astray = "no" /\ j.at \in {"answered", "accepted"} /\ j.rev = noted.rev => Settled
  /\ astray = "restored" => j.at # "accepted" /\ (j.at = "answered" => j.stored = mobius.rev)
Writing(j) == j.at \in {"changed", "bumped"}
OneWriter == \A r, s \in Reporters : Writing(reports[r]) /\ Writing(reports[s]) => r = s
BadgeOrder ==
  /\ noted.rev <= storedVersion /\ ack.rev <= noted.rev
  /\ astray = "no" => /\ mobius.rev <= noted.rev
                      /\ noted.rev # -1 /\ mobius.rev = noted.rev => mobius.count = noted.count
                      /\ noted.rev # -1 /\ ack.rev = noted.rev => Settled
  /\ astray = "restored" => storedVersion < mobius.rev /\ ack.rev = -1
BadgeInv == BadgeTypes /\ OneWriter /\ BadgeOrder /\ \A r \in Reporters : ReportSound(reports[r])

(* Reactions: the bounds. *)
TapBounds == Len(polls) <= MaxPolls /\ taps \in 0..ReactionTaps /\ changes \in 0..OthersChanges

(* Membership: a window that reads holds a profile, and what it checks was not yet checked. *)
MemberReads == [at : {"idle", "profile", "check", "joining"}, got : Joining!Profiles]
MemberInv ==
  /\ Joining!TypeOK
  /\ profiles \in [{w1} -> [Joining!Readers -> MemberReads]]
  /\ \A r \in Joining!Readers : profiles[w1][r].got.reg # "registered"

(* Feed: the requests under way are never more than the bound. *)
FewAsks == Len(asks) <= MaxAsks

(* Invitations: there is room for the records, and for the one the public lane is about to   *)
(* write.                                                                                   *)
Filed(r) == {o \in Objects : r[o].status # "none"}
RoomSound ==
  /\ Cardinality(Filed(received)) <= InvitationLimit
  /\ lane # Invited!NoEnvelope => Cardinality(Filed(received) \cup {lane.of}) <= InvitationLimit

(* Faces: the queue holds each host whose job is queued, once; and whoever is on screen, is  *)
(* asked for or has been answered has a record in the cache.                                *)
QueueSound ==
  /\ queue \in Seq(Hosts) /\ Distinct(queue)
  /\ \A h \in Hosts : h \in Elements(queue) <=> job[h].at = "queued"
Wanted(h, r, j, m) == h \in m \/ j[h].at # "idle" \/ Faces!Answered(r[h])
HeldSound == \A h \in Hosts : Wanted(h, rec, job, mounted) => rec[h].in
CacheInv == QueueSound /\ HeldSound /\ watched \subseteq mounted
=============================================================================
