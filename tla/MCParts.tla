------------------------------ MODULE MCParts --------------------------------
(* The parts of the app's screens, each against the service as its module has it, and *)
(* two of the service's own. They share no state beyond what those modules model, so a  *)
(* behaviour runs one part, and the others keep an initial state.                      *)
EXTENDS Naturals

CONSTANTS
  None,
  PageSize, MaxPosts, MaxAsks, FeedBudget,               \* Feed
  Own, Others, MaxReads, ThreadBudget,                   \* BoardThread
  MaxPolls, ReactionTaps, OthersChanges,                 \* Reactions
  Hosts, MaxFace, BatchSize, MaxIdle, FaceChanges,       \* AvatarCache
  Paths, ThumbnailLimit, MaxSaves, ThumbnailAsks,        \* Thumbnails
  MaxEffects, FullTaps, MaxItems,                        \* Photos
  Peers, Groups, ChatBudget,                             \* Conversations
  Members, GroupBudget,                                  \* GroupScreen
  Windows, Drafts, Legacy, DraftTaps, MaxWrites,         \* Participation
  JoinTaps,                                              \* Membership
  Owner, Pollers, Errands, MaxOwner, MaxHides,           \* RequestLanes
  Objects, Skew, InvitationLimit, MaxSent, MaxTime,      \* ObjectInvitations
  MaxUnread, MaxVersion, BadgeBudget,                    \* Badge
  h1, w1, p1, q1, q2  \* whose waiting the fairness and NobodyWaits are about

VARIABLES part, board, made, feed, cursor, loaded, cache, asks, search, landing, left
feeds == <<board, made, feed, cursor, loaded, cache, asks, search, landing, left>>
Feeds == INSTANCE Feed WITH Budget <- FeedBudget

VARIABLES host, buried, count, replyCache, reads, open, rows, pending, state, awaited,
          posting, deleting, threadLeft, done, gone
threads == <<host, buried, count, replyCache, reads, open, rows, pending, state, awaited,
             posting, deleting, threadLeft, done, gone>>
Thread == INSTANCE BoardThread WITH
  Budget <- ThreadBudget, cache <- replyCache, left <- threadLeft

VARIABLES mine, others, row, over, tap, polls, taps, changes, stuck
reactions == <<mine, others, row, over, tap, polls, taps, changes, stuck>>
Emoji == INSTANCE Reactions WITH Taps <- ReactionTaps, Changes <- OthersChanges

VARIABLES rec, job, queue, mounted, watched, visible, hint, self, own, saved, faceLeft,
          known, overruled, overtaken
faces == <<rec, job, queue, mounted, watched, visible, hint, self, own, saved, faceLeft,
           known, overruled, overtaken>>
Faces == INSTANCE AvatarCache WITH Changes <- FaceChanges, left <- faceLeft

VARIABLES blobs, index, thumbs, saves, removes, timer, thumbAsks, orphans
thumbnails == <<blobs, index, thumbs, saves, removes, timer, thumbAsks, orphans>>
Thumbs == INSTANCE Thumbnails WITH
  Limit <- ThumbnailLimit, Asks <- ThumbnailAsks, saved <- index, list <- thumbs, asks <- thumbAsks

VARIABLES live, tile, loads, fulls, fullTaps, box, items, shownItems
photos == <<live, tile, loads, fulls, fullTaps, box, items, shownItems>>
Photo == INSTANCE Photos WITH
  MaxTaps <- FullTaps, taps <- fullTaps, asked <- shownItems

VARIABLES convs, due, behind, access, list, listState, load, thread, foreground, clears,
          decisions, notice, making, stale, lost, spent
conversations == <<convs, due, behind, access, list, listState, load, thread, foreground,
                   clears, decisions, notice, making, stale, lost, spent>>
Chats == INSTANCE Conversations WITH
  Budget <- ChatBudget, rec <- convs, state <- listState, tap <- notice

VARIABLES creator, group, groupDue, groupBehind, groupOpen, shown, refresh, failed, decision,
          sheet, acked, older, groupSpent
groups == <<creator, group, groupDue, groupBehind, groupOpen, shown, refresh, failed, decision,
            sheet, acked, older, groupSpent>>
Roster == INSTANCE GroupScreen WITH
  Others <- Members, Budget <- GroupBudget, mine <- creator, due <- groupDue, behind <- groupBehind,
  open <- groupOpen, spent <- groupSpent

VARIABLES stored, version, member, intent, intents, draft, draftTaps
drafts == <<stored, version, member, intent, intents, draft, draftTaps>>
Draft == INSTANCE Participation WITH
  Taps <- DraftTaps, MaxVersion <- MaxWrites, load <- intents, taps <- draftTaps

VARIABLES account, me, profiles, handoff, joinTaps
membership == <<account, me, profiles, handoff, joinTaps>>
Joining == INSTANCE Membership WITH Windows <- {w1}, Taps <- JoinTaps, reads <- profiles, taps <- joinTaps

VARIABLES out, requests, active, dead, onScreen, started, hides, timers, running, asked
lanes == <<out, requests, active, dead, onScreen, started, hides, timers, running, asked>>
Lanes == INSTANCE RequestLanes WITH queue <- requests, visible <- onScreen, timer <- timers

VARIABLES now, sent, received, remote, lane, accepting, refused, crossed
invitations == <<now, sent, received, remote, lane, accepting, refused, crossed>>
Invited == INSTANCE ObjectInvitations WITH
  Limit <- InvitationLimit, record <- received, joining <- accepting

VARIABLES unread, storedVersion, noted, ack, mobius, supports, reports, badgeLeft, torn, astray
badge == <<unread, storedVersion, noted, ack, mobius, supports, reports, badgeLeft, torn, astray>>
Sidebar == INSTANCE Badge WITH
  Requests <- {q1, q2}, Budget <- BadgeBudget, version <- storedVersion, job <- reports, left <- badgeLeft

ASSUME PartsAssumption ==
  /\ h1 \in Hosts /\ p1 \in Pollers
  /\ Feeds!FeedAssumption /\ Thread!BoardThreadAssumption /\ Emoji!ReactionsAssumption
  /\ Faces!AvatarAssumption /\ Thumbs!ThumbnailsAssumption /\ Photo!PhotosAssumption
  /\ Chats!ConversationsAssumption /\ Roster!GroupScreenAssumption /\ Draft!ParticipationAssumption
  /\ Joining!MembershipAssumption /\ Lanes!LanesAssumption
  /\ Invited!InvitationsAssumption /\ Sidebar!BadgeAssumption

---------------------------------------------------------------------------
Parts == {"feed", "thread", "reactions", "faces", "thumbnails", "photos", "conversations",
          "group", "drafts", "membership", "lanes", "invitations", "badge"}

vars == <<part, feeds, threads, reactions, faces, thumbnails, photos, conversations, groups,
          drafts, membership, lanes, invitations, badge>>

Init ==
  /\ part \in Parts
  /\ Feeds!Init /\ (part # "feed" => made = 0)
  /\ Thread!Init /\ (part # "thread" => host = {})
  /\ Emoji!Init /\ (part # "reactions" => ~mine /\ others = 0)
  /\ Faces!Init /\ (part # "faces" => self = None /\ \A h \in Hosts : ~saved[h].has)
  /\ Thumbs!Init /\ (part # "thumbnails" => index = <<>>)
  /\ Photo!Init
  /\ Chats!Init /\ (part # "conversations" => \A c \in Peers \cup Groups : convs[c].status = "none")
  /\ Roster!Init /\ (part # "group" => ~creator /\ group.members = {})
  /\ Draft!Init /\ (part # "drafts" => stored = None /\ \A w \in Windows : ~member[w])
  /\ Joining!Init /\ (part # "membership" => ~account.linked)
  /\ Lanes!Init /\ (part # "lanes" => ~onScreen)
  /\ Invited!Init
  /\ Sidebar!Init /\ (part # "badge" => unread = 0 /\ noted = Sidebar!NotNoted /\ supports)

StandStill ==
  /\ part # "feed" => UNCHANGED feeds
  /\ part # "thread" => UNCHANGED threads
  /\ part # "reactions" => UNCHANGED reactions
  /\ part # "faces" => UNCHANGED faces
  /\ part # "thumbnails" => UNCHANGED thumbnails
  /\ part # "photos" => UNCHANGED photos
  /\ part # "conversations" => UNCHANGED conversations
  /\ part # "group" => UNCHANGED groups
  /\ part # "drafts" => UNCHANGED drafts
  /\ part # "membership" => UNCHANGED membership
  /\ part # "lanes" => UNCHANGED lanes
  /\ part # "invitations" => UNCHANGED invitations
  /\ part # "badge" => UNCHANGED badge

Next ==
  /\ \/ part = "feed" /\ Feeds!Next
     \/ part = "thread" /\ Thread!Next
     \/ part = "reactions" /\ Emoji!Next
     \/ part = "faces" /\ Faces!Next
     \/ part = "thumbnails" /\ Thumbs!Next
     \/ part = "photos" /\ Photo!Next
     \/ part = "conversations" /\ Chats!Next
     \/ part = "group" /\ Roster!Next
     \/ part = "drafts" /\ Draft!Next
     \/ part = "membership" /\ Joining!Next
     \/ part = "lanes" /\ Lanes!Next
     \/ part = "invitations" /\ Invited!Next
     \/ part = "badge" /\ Sidebar!Next
  /\ part' = part /\ StandStill

(* The fairness of each module, while its part runs. The thread, the faces, the           *)
(* conversations and the lanes have nothing to do in the state they rest in.              *)
polled == <<feeds, reactions, membership, badge>>
Feeding(A) == part = "feed" /\ A /\ UNCHANGED <<reactions, membership, badge>>
Tapping(A) == part = "reactions" /\ A /\ UNCHANGED <<feeds, membership, badge>>
Joins(A) == part = "membership" /\ A /\ UNCHANGED <<feeds, reactions, badge>>
Reporting(A) == part = "badge" /\ A /\ UNCHANGED <<feeds, reactions, membership>>
Fairness ==
  /\ Thread!Fairness /\ Faces!Fairness /\ Chats!Fairness /\ Lanes!Fairness
  /\ WF_polled(Feeding(Feeds!Poll) \/ Tapping(Emoji!Poll) \/ Joins(Joining!Return(w1))
                \/ Reporting(Sidebar!Runs(q1)))
  /\ WF_polled(Feeding(\E p \in landing : Feeds!Confirm(p)) \/ Joins(Joining!Join(w1))
                \/ Reporting(Sidebar!Runs(q2)))
  /\ WF_polled(Feeding(Feeds!Served) \/ Tapping(Emoji!Ends) \/ Joins(Joining!Ends(w1, "boot"))
                \/ Reporting(Sidebar!Age))
  /\ WF_polled(Joins(Joining!Ends(w1, "refresh"))) /\ WF_polled(Joins(Joining!Ends(w1, "join")))
  /\ SF_polled(Feeding(Feeds!Answered) \/ Tapping(Emoji!Arrives)
                \/ Joins(Joining!ProfileArrives(w1, "refresh")))
Spec == Init /\ [][Next]_vars /\ Fairness

---------------------------------------------------------------------------
(* The types of every part's state. *)
TypeOK ==
  /\ part \in Parts /\ Feeds!TypeOK /\ Thread!TypeOK /\ Emoji!TypeOK /\ Faces!TypeOK
  /\ Thumbs!TypeOK /\ Photo!TypeOK /\ Chats!TypeOK /\ Roster!TypeOK
  /\ Draft!TypeOK /\ Joining!TypeOK /\ Lanes!TypeOK /\ Invited!TypeOK /\ Sidebar!TypeOK

(* An older answer does not undo a newer word: the deletion of a reply the owner was told  *)
(* of, the reaction the owner tapped for as long as the tap is under way, the last definite *)
(* answer about a face, the refusal of an invitation (updateReplies, useBoardReactions,    *)
(* resolveBatch, receive_invitation).                                                     *)
NewestWordStands ==
  /\ Thread!GoneStaysGone /\ Emoji!TapStands /\ Faces!LastWordStands
  /\ Invited!DeclineStands

(* With nothing under way, what is on screen is what the service has: the faces whose hint  *)
(* changed, the conversations, the group, the members just invited; and the sidebar's       *)
(* badge once it is acknowledged (onAvatarDigestChange, loadConversations, refreshGroup,   *)
(* reconcile_badge). Each part excludes an order in which the code does not see to it:     *)
(* overtaken in AvatarCache, stale in Conversations, older in GroupScreen, astray in Badge. *)
ScreensAreCurrent ==
  /\ Faces!OnScreenFollowsHint /\ Chats!ListIsCurrent
  /\ Roster!InvitedIsShown /\ Roster!ShownIsCurrent /\ Sidebar!AcknowledgedIsShown

(* Nothing is kept, or kept waiting, that nobody is going to see to: thumbnails on the      *)
(* device, object URLs, queued requests, invitations to what is joined already              *)
(* (boardMediaCache.js, ui/Media.jsx, pumpBackground, join_object).                        *)
NothingIsForgotten ==
  /\ Thumbs!NothingIsForgotten /\ Photo!UrlsAreOwned /\ Lanes!NothingWaitsIdle
  /\ Invited!JoinedIsNotInvited

(* No answer, however late, takes from the feed or from the open thread what the host still  *)
(* has (acceptFeed, loadEarlierFeed, loadReplies).                                        *)
NothingSlipsAway == Feeds!StaysInReach /\ Thread!RepliesStay

(* A saved draft goes only because someone discarded or submitted that very draft, in        *)
(* whatever order the windows of one account do so (participation.js, compareAndSet).     *)
GoesByChoice == Draft!GoesByChoice

(* Once the owner waits for a request, no more upkeep goes out before it (call, api.js).    *)
OwnerGoesFirst == Lanes!OwnerGoesFirst

(* The board's first page, an open thread and the counts of a reaction come to be the        *)
(* host's for good once people let the board be: Feeds!FirstPageSettles,                  *)
(* Thread!ThreadCatchesUp and Emoji!SettlesUnlessStuck, each of the part that runs.    *)
Calm == CASE part = "thread" -> open [] part = "reactions" -> ~stuck [] OTHER -> TRUE
Right == CASE part = "feed" -> Feeds!FirstPageIsRight
           [] part = "thread" -> Thread!CaughtUp
           [] part = "reactions" -> Emoji!Agrees
           [] OTHER -> TRUE
BoardSettles == <>[]Calm => <>[]Right

(* Nobody waits for good: a blank face whose answer failed, an unread mark on the thread on   *)
(* screen, an owner whose new username or membership a window has not heard of, a poller on   *)
(* screen, an unread message the sidebar's badge does not count: Faces!BlankRecovers,      *)
(* Chats!ReadClears, Joining!AccountIsSeen, Lanes!PollsWhileVisible and                    *)
(* Sidebar!BadgeSettles, each of the part that runs.                                      *)
Waiting == CASE part = "faces" -> Faces!Wanting(h1)
             [] part = "conversations" -> Chats!Unseen
             [] part = "membership" -> Joining!Behind(w1)
             [] part = "lanes" -> Lanes!Waits(p1)
             [] part = "badge" -> Sidebar!Behind
             [] OTHER -> FALSE
NobodyWaits == []<>~Waiting
=============================================================================
