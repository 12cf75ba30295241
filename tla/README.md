# Verification of Social

TLA+ models, TLC runs and TLAPS proofs for the Social app: direct messages,
groups, shared objects, the public board, the read models behind the conversations
and the board, the unread badge, and the app's own screens. Social is
federated: every instance stores its own files, serves its owner's requests in a
private lane and its peers' signed envelopes in a public lane, and reaches other
instances over HTTP. Three facts about how it runs shape every model:

* each service request of an app instance is a process of its own; the public lane handles one
  request after another, the private lane runs beside it (`README.md`,
  `social_objects.py:149`). A request has 15 seconds and may die at any step. The
  community host, which serves the board, is one process with an event loop and threads;
* `app_storage_lock` (`service_runtime.py:61`), `_host_group_transaction`
  (`social_groups.py:105`) and the board's `_mutation_lock` (`common_public.py:309`) are file
  locks and hold across processes. `_group_lock` and `_object_lock` are `asyncio.Lock`s and do not;
* the app is one thread of JavaScript in a frame. It asks its service, goes on, and takes the
  answers in whatever order they come; views unmount and frames close while answers are under way.

## Inventory

| part | state it keeps | operations | what is hard |
|---|---|---|---|
| Message history, `message_history.py` | SQLite rows, `indexed_version`, coverage run, dirty markers, latest-page cache | begin, mirror and finish a mutation; cover a metadata change; reconcile; read a page | a process may die, or a transaction fail, between any two writes; reads skip the scan |
| Direct messages, `social_routes.py` | `msgs/<id>.json` (status, lease, `encrypted`), `meta.json` (request state, counters) | send, retry, claim, seal, post, settle; receive, decide, mark read | lost and late answers, expired leases, two requests for one message |
| Groups, `social_groups.py` | host: `<gid>.json`; everyone: `meta.json`, message files | create, invite, accept, decline, post, relay, retry, close | reordered and lost envelopes between host and members, decisions racing invitations |
| Shared objects, `social_objects.py` | host: `object.json`, `doc.json`; members: membership and invitation records | read, write, join, leave, invite, mint, revoke, delete | compare and swap between processes that share no lock |
| Received invitations, `social_objects.py` | one record per invitation, one membership per object | receive, decline, join, leave | the two lanes of the invitee, copies that come late |
| Community board, `common_public.py` | post and reply files, directory, SQLite index, cursors | post, reply, react, edit, delete, page | the same index discipline as the history, threads and processes |
| Community host, `community_host.py` | refresh tasks, signing key | refresh, sweep | coalescing |
| Identity, `social_routes.py` | `identity.json` | load, refresh profile, join, register | awaits between reading and saving |
| Unread badge, `service_runtime.py` | `badge.json`, `badge-ack.json` | record, report, acknowledge | reports of concurrent requests overtake each other, a backup is put back |
| Activity notices, `social_routes.py` | replay journal | claim, notify, finish | claims that expire, processes that die |
| Media and avatar caches, `social_routes.py` | bounded file caches | fetch, refresh, evict | eviction beside refresh |
| Envelope protocol, `common_protocol.py`, `common_transport.py`, `net_utils.py` | none | sign, verify, validate, send | pure functions and I/O |
| App: timeline, `ui/useMessageTimeline.jsx`, `message_ui_state.js`, `reconciliation.js` | the list, its cursor, requests under way, the composer | refresh, paint the published page, load earlier, send, retry, cancel | three readers fill one list; a call given up may still be carried out |
| App: requests, `api.js`, `visibility.js` | the foreground requests, the background queue, poll timers | call, abort, poll while visible | pollers must neither starve nor go in front of the owner |
| App: board, `index.jsx`, `ui/Board.jsx`, `boardNavigation.js`, `ui/boardEdits.js` | feed, cursor, cached board, open thread, cache of replies, optimistic rows | load, poll, search, open, prefetch, reply, delete | no request of the feed is numbered; shared reads are overtaken by changes |
| App: reactions, `ui/ReactionControls.jsx` | an override for each emoji | tap, refresh | polls from before the tap |
| App: participation and membership, `participation.js`, `community.js`, `index.jsx` | one saved draft with a version, the profile of each window | save, continue, discard, complete; hand over, join | several windows of one account |
| App: conversations and groups, `index.jsx`, `ui/Thread.jsx`, `ui/Messages.jsx`, `ui/Group*.jsx` | the list, the thread on screen, the group's record | load, open, mark read, decide, create, invite, close | records read one by one while they change |
| App: faces and pictures, `avatarCache.js`, `boardMediaCache.js`, `ui/Media.jsx` | records and saved copies of faces, the list of thumbnails, object URLs | restore, batch, hint, recover; remember, evict; show, revoke | late answers, frames that close, what nobody would free |
| App: presentation, `theme.js`, other `ui/` | - | - | no protocol state |

The parts meet in few places. `_store_message` and `_store_group_message` are the
writers of the message history; both bump the version that the history, the badge
and the app's polling read. A group's host and members, an author and a receiver,
an object's host and its members only exchange signed envelopes. The app and its service
exchange JSON requests, all of them through `api.js`. The models take
an envelope that arrives as authentic: signatures are not modelled.

What makes each part correct, and where it is hard to test, is listed line by line
under `hazards` in `PROJECT.json`; the properties below are aimed at that list.

## Modules

| module | models | notes |
|---|---|---|
| `SavedHistory` | what the history promises | abstract: save a message, show exactly what is saved |
| `MessageHistory` | `message_history.py` and its callers' steps | implements `SavedHistory` (`Saved == INSTANCE SavedHistory WITH ...`) |
| `DirectMessages`, `MCDirectMessages`, `MCDirectPair` | direct messages between two instances | both ends and the network; the pair plays two scenarios for TLC |
| `Groups`, `MCGroups`, `MCGroupsPair` | one group, its host and members | both ends and the network; the pair is two instances for TLC |
| `SharedObjects`, `MCSharedObjects` | one hosted object, its host's processes, its peers | |
| `ObjectInvitations` | what an invitee keeps of invitations and joined objects | its public lane beside its owner's processes |
| `BoardIndex`, `MCBoardIndex` | the board's post files and the table that serves its feed | which post changes is arbitrary |
| `CommunityBoard`, `MCCommunityBoard` | posts and replies: composers, owner routes, host | what a post says; no index |
| `Badge` | the badge's files, requests that report it, and Möbius | Möbius is external |
| `Timeline` | one open conversation in the app | over a log of saved messages |
| `Feed`, `BoardThread`, `Reactions` | the board on screen: the feed, one open thread, one emoji | each against the host as it needs it |
| `Conversations`, `GroupScreen` | the list with the thread on screen; one group on screen | |
| `Participation`, `Membership` | the saved draft; how a newcomer becomes a member | several windows of one account |
| `AvatarCache`, `Thumbnails`, `Photos` | faces; thumbnails on the device; object URLs | |
| `MessageHistoryProofs`, `DirectMessagesProofs`, `GroupsProofs`, `SharedObjectsProofs`, `BoardIndexProofs`, `CommunityBoardProofs`, `TimelineProofs`, `PartsProofs` | - | the theorems about the module each extends |
| `RequestLanes` | the queueing of requests and the polls | |
| `Lists` | - | the operators on sequences that the parts share |
| `MCParts` | the thirteen parts that are small enough to be checked together | see below |
| `PartsInvariants` | - | the inductive invariant of each part, by which `PartsProofs` goes |

An operation of the code is an action of the module, named after it where TLA+
allows. Code between two awaits, or inside one file lock, is one action, except
where it writes more than one file: then each write after which a process may
die is a step of its own (`MessageHistory`, `SharedObjects`, `Badge`, `ObjectInvitations`) or an
alternative of the action (`StoreTorn` in `DirectMessages`, `Publish` and `Commit` in `Groups`). An operator
called `X_Something` next to `X` is a mutant: `X` with a plausible bug, which no action
uses; it shows that a property depends on `X`. Where there are more mutants than `PROJECT.json`
lists, the others are for trying by hand.

**MessageHistory.** `files` are the message files, `version` is `state/version.json`,
`dirty` the markers, `rows` and `indexed_version` and `covered_from..covered_through` the
tables, `page` the published latest page. All of it happens under `app_storage_lock`,
so `job` is the one request that holds it. `Crash` drops the job after any step,
`MirrorFails` and `IndexFails` are failing transactions, `RollbackWrite` is a message file
written by an older release that knows no index, `LoseIndex` deletes the index. A
content is the number of writes, which stands for record and file signature.

**DirectMessages.** `file` holds the message files of both hosts, `conv` their `meta.json`,
`request` the owner's requests that are between two steps, `wire` the envelopes under way
and `replies` the answers not yet read. `sealed`, `fresh` and `torn` are history variables. Envelopes and answers may be lost,
an envelope may arrive after its request gave up, and a lease expires whenever the
code allows it. Payloads are ids; a text is a model value, because id reuse with
another text is refused.

**Groups.** `group` is the host's record, `roster` the copy its own app reads, `posts` the
committed posts, `meta` and `copy` what each member has, `request` the members' requests
between two steps, `wire` the envelopes. Fan-out puts the envelopes of all members on
the wire at once and each arrives, or is lost, on its own. `stale`, `consented` and
`audience` are history variables.

**SharedObjects.** `proc` holds what each process of the host has in memory: it loads
`object.json` in one step and writes `doc.json` and `object.json` in later ones, and another
process may run in between. `view` is the version and document each app last read.
A document is the set of edits it contains. `overlapped` records that two changes
were under way together.

**BoardIndex.** `files` are the post files, `table`, `rows` and `dirty` the SQLite index and its
marker, `ready` what each process believes of it; `task` is where each request is and which
locks it holds. Requests that change posts run on an event loop, one at a time for each
process; `read_board` runs on threads and holds no lock. A content is the number of the
write. The table's creation and its filling are two steps, because SQLite commits the
first by itself; an upgrade of the table's format is one transaction and no step. `Crash`,
`FileOnlyRelease` and `Damage` are the environment. `during` records what each post said at
the moments of a reader's request, `undermined` that a table was created under a reader.

**CommunityBoard.** `board` is the host's record of each post and reply, `tombs` the deleted ids it
remembers for each post, `sent` every request in the order it was signed, with its answer
on the way. `draft` is a member's composer, `view` what the app has been shown. Any request
may be handled at any later time, and again; answers get lost in `GiveUp`. An edit's clock
is the request's number. A post may already be on the board at the start. `told`,
`stored`, `removed` and `applied` are history variables. A composer writes posts or replies,
not both, and photos, handles and the post limit (which is in `BoardIndex`) are left out.

**Badge.** `unread` and `version` are the storage, `noted` is `badge.json`, `ack` is `badge-ack.json`, `job` is
where each request is between its transaction, its report and its acknowledgement. `Reconcile`
is `reconcile_badge` after every request, read, report and answer a step each; `mobius` is what the
host's platform shows, which takes the report with the highest revision and may be too old
to know badges. `Restore` puts a backup back. `torn` and `astray` are history variables: a
request died before it noted what it changed; the storage is behind Möbius.

**ObjectInvitations.** `sent` are the signed invitations, each with its timestamp, `record` and `remote`
the two files, `lane` the invitation that the public lane has checked and not written, `joining`
where `join_object` of each object is. `Receive` is the check of `receive_invitation` (skew, limit,
the record there is) and `Write` its end; `Decline`, `Join`, `SaveRemote`, `Consume` and `Leave` are the owner's
processes. Time is the invitee's clock. `refused` and `crossed` are history variables.

**Timeline.** `log` is the saved conversation in its order and `state` the status of the owner's own
messages; the app has `rows` (null while not `loaded`), `cursor`, the refreshes under way (`asks`, of which the
last counts, `counts`), one page of earlier messages, and the published page, which paints first.
`Ask`, `ReceiveAsk`, `AskEarlier`, `ReceiveEarlier`, `Published` and `Send` to `ReceiveCall` translate
`useMessageTimeline.jsx`; `Merge`, `LostContinuity`, `Reconcile` and `Settled` the merges of `message_ui_state.js`. `calls` are the requests that send, each of which may be
carried out after the app gave it up. `carried`, `missed` and `unproved` are history variables; `unproved` names
the page (published or offline) that joined the list without overlapping it.

**Feed.** `board` is the host's feed, `feed`, `cursor` and `cache` the app's; `asks` the requests, each with the page it
was answered with, accepted in any order as `acceptFeed` does. `search` is the walk of
`revealBoardTarget`. Posts are numbered as they are created, two in a row share a timestamp, which
is what the merge compares.

**BoardThread.** `reads` are the requests for the replies of one post and `cache` the entry they
are shared through; `awaited` is the one the thread still wants. `pending` are optimistic rows, `posting` and
`deleting` what the owner has under way. `done` and `gone` are history variables.

**Reactions.** `row` is what polls bring, `over` the override in its place, `tap` the reaction under way from
tap to refresh. Toggling at the host is one step. `stuck` is a history variable.

**AvatarCache.** `rec` is the record of each host (face, digest, when checked, which miss), `job` its promise from
the restored copy to the answer of a batch, `queue` what waits for a batch of its lane, `watched`
whom the recovery timer waits for. A face is a number and its digest the same number. `known`, `overruled` and
`overtaken` are history variables.

**Thumbnails**, **Photos.** The list in memory, the blobs and `index.json` change in separate steps, and `Close`
drops what is in memory. `live` are the object URLs not revoked; the effects of a tile, the full
sizes and the gallery's images arrive at any later time.

**Conversations.** The service writes a record and then its change counter (`rec`, `due`, `behind`). A load lists the
directories and then reads each record in a step of its own (`load.todo`). `clears` are read
receipts under way, `decisions` answers to requests, `tap` a notification being followed, `making`
the group sheet. **GroupScreen** does the same for one group, whose record reaches the screen by the
refresh, by the answer to an invitation and by the read after a decision.

**Participation.** `stored` and `version` are the file, `draft` what each window's three lanes have under way: each reads
the version and writes on condition (`compareAndSet`). **Membership.** `account` is what the service and the directory
know, `reads` the profile reads of boot, return and join, each showing what it found.

**RequestLanes.** `out` are the owner's requests, `queue` and `active` the upkeep, `dead` the jobs aborted before they were
queued, `timer` and `running` the polls. `Pump` is `pumpBackground`.

**MCParts.** `part` names one of thirteen parts, chosen at the start. A behaviour runs that part's `Next`; the variables of
all others keep an initial state. The parts share no state in the models, so this
checks each of them by itself, in one run; the fairness of a part's module is assumed while the part runs.
Each property is a conjunction, or a choice by `part`, of the parts' own properties, with which they
share their definitions. The values of the parts' constants are in `Parts.cfg`; `PartsAssumption` is the conjunction of the parts'
assumptions. `MCGroupsPair` puts a second instance beside the first in the same way; `MCDirectPair` is one
instance of which a behaviour plays one of two scenarios.

## Runs

| run | instance | shows |
|---|---|---|
| `history` | 2 conversations, 2 messages, 3 versions, 1 write per file | `SkipIsSound`, `DifferencesAreExplained`, `ImplementsSavedHistory` |
| `dm` | one message: 2 texts, 2 requests, 2 faults, fairness; dialogue: 3 messages in both directions, 1 request, 1 fault | `DeliveredIsStored`, `OneAttemptAtATime`, `ConsentIsKept` (nobody sends without consent, counters are exact), `NothingIsUndone` (no plaintext after sealing, delivery is final, decisions stand), `SavedIsDelivered` |
| `dm_torn` | 1 message, 1 crash | violation of `DeliveredIsListed` |
| `groups` | 1 member, a post each way, 2 requests, 2 invitations, 2 faults; persistent: 1 post, 1 request, fairness | `MembershipIsMutual`, `PostsReachMembers`, `NothingIsUndone`, `TryingHelps` |
| `groups_reinvite` | 1 member, 1 fault, fairness | violation of `DeclinedCanBeInvited` |
| `objects` | host and 1 peer, an edit each, 1 code, 3 versions, 3 membership changes, 1 fault | `SoundUnlessOverlapped` (edits are kept, a code admits once), `OnlyEditorsWrite` |
| `objects_clobber` | the same with 1 membership change and no faults | violation of `AcknowledgedIsKept` |
| `board_index` | 2 posts, limit 1, the host's loop and thread and a second process, 3 writes, 2 faults | `ReadsAreCurrentUnlessUndermined`, `DifferencesAreAnnounced`, `WithinLimit` |
| `community_board` | a post and two replies of two members, 2 texts, 4 requests, 1 deleted id remembered | `ConfirmedIsStored`, `LateRequestsUndoNothing` (edits follow their signatures, deleted replies stay away), `DraftsAreNotLost` |
| `timeline` | pages of 2, 1 own message, 2 refreshes, budget 4 | `NoGapUnlessUnproved`, `QuietIsCurrent`, `ComposerIsExact`, `DeliveredStands` |
| `timeline_gap` | pages of 2, nothing sent | violation of `NoHiddenGap` |
| `parts` | thirteen parts, see below | `NewestWordStands`, `ScreensAreCurrent`, `NothingIsForgotten`, `NothingSlipsAway`, `GoesByChoice`, `OwnerGoesFirst`, `BoardSettles`, `NobodyWaits` |

Every module also has one type invariant, checked by its run.

The instances of `parts`: `Feed` with pages of 2, 3 posts, 2 requests, budget 2; `BoardThread` with an own and another's
reply, 2 reads, budget 3; `Reactions` with 2 taps, 2 polls, 1 change of others; `AvatarCache` with 1 host, 2 pictures, batches
of 1, 3 changes; `Thumbnails` with 3 paths and a limit of 2; `Photos` with 2 effects, 2 taps, 2 gallery images; `Conversations` with
a peer and a group, budget 2; `GroupScreen` with 2 others, budget 2; `Participation` with 2 windows, 2 drafts, 2 taps, 4 versions;
`Membership` with 1 window, 2 taps; `RequestLanes` with 2 owner requests under way of 3, 2 pollers, 1 errand, hidden twice; `Badge` with
2 requests, 1 unread message, 2 versions, 1 fault; `ObjectInvitations` with 2 objects, a limit and a skew of 1, 2 invitations, 3
ticks.

Bounds. `MaxVersion`, `MaxWrites`, `MaxInvites`, `MaxChanges`, `MaxSends`, `MaxFaults`, `Budget` and the like stand in guards and are
the only bounds. Three versions are enough for coverage that starts, is extended and
is left behind, which is what `MarkVersionCovered` distinguishes. Two requests on one
message are needed, and enough, for an expired lease and a late settlement. Two
invitations are needed for an old one to meet a newer one. Two faults allow a crash
and a lost answer in one behaviour; the dialogue, whose properties are about consent and
counters, has one. Members of a group never interact except
through the host's record, so one member meets all orders; two would only multiply
them. On the board, a limit of one post and two posts is the least that can be exceeded; two
processes and a thread are needed for a reader, a writer and a rebuild that meet. Four
requests allow a reply sent twice and deleted twice, or two replies sent and deleted, which
is more than one remembered id. In the app's modules two requests under way are the least that
can be answered in the wrong order, and a list one longer than a page is the least that has
an earlier page; the timeline has twice a page. A budget of 2 or more allows something to happen between the question and the
answer and something else to fail. One owner's window is enough for `Membership`, whose windows only meet in the account; drafts
need two. The mutants confirm that the bounds reach what the properties are about: each
property fails for its mutant within the same bounds.

Deadlock is checked in every run but `objects`, `objects_clobber` and `parts`: a deleted object
stops, and thumbnails, photos, drafts, the group on screen and the invitations stop when their bounds are
spent.

## Fairness

`dm`, `groups` and `groups_reinvite` assume

* weak fairness for the steps of a request that is running: a process that is not killed
  goes on, and every await ends at a timeout;
* weak fairness for handling, or in `Groups` losing, an envelope that is on the wire: an
  HTTP request ends one way or the other. Losing counts as a fault, so it stops;
* weak fairness for the end of a lease, which is the passing of 30 seconds;
* strong fairness for the owner's `Retry`, `RetryPost` and `BeginAccept`: the app goes on
  showing a failed message with its retry button, a pending invitation with its accept
  button, and the owner presses it again and again, although it is refused while another
  attempt is running;
* in `Groups`, weak fairness for the host's owner inviting again a member that has not
  joined, which is what `add_group_member` calls a deliberate retry.

The number of faults is bounded: the network and the processes fail finitely often.
Nothing is assumed of declining, closing, or posting anything new.

`parts` assumes of each part while it runs,

* weak fairness for the polls of what is on screen (`pollWhileVisible`) and for the end of a request, by its answer or by
  its deadline or the platform's;
* strong fairness for an answer that arrives, where polls are repeated without end (`Feed`, `Reactions`, the profile reads of
  `Membership`): not every poll fails. Conversations and threads have a budget of failures instead;
* weak fairness for the timers: the age of an answer, the recovery of a blank face, a batch;
* of the owner, only that they come back to a window of the app again and again and go on joining (`Membership`): the
  handover happens in another app;
* of the badge, that requests of some kind keep coming and that the hours pass after which a Möbius
  without badges is asked again.

## Findings

* `dm_torn`: a receiver that dies between a message's file and its `meta.json` answers the
  repeat with `duplicate`; the author shows it as delivered, and the conversation is never listed.
* `groups_reinvite`: the host cannot invite again a member whose refusal was lost.
* `objects_clobber`: `_object_lock` does not order the owner's process and the public
  lane's, so compare and swap loses an acknowledged edit.
* `timeline_gap`: the published page joins a list it does not overlap, and the refresh that follows takes the
  list for continuous; what lies between is not shown by any later refresh or page.

Two more disagreements have no run of their own. While the board's table is rebuilt, or for good if the rebuilding process
dies right after creating it (`common_public.py:361`), readers that trust the index show an empty board, where
`docs/chat-foundation.md:33` says that the index is disposable and "any index failure falls back to the files". `ReadsAreCurrent` of `BoardIndex` is the
property without its hypothesis; as an invariant of `board_index` it fails with one fault.

And when the refresh after a confirmed reaction fails, the override stays in place of the row, which polls go on
replacing, until the next tap: what others do in between is not seen, where the comment at
`ReactionControls.jsx:42` says "next poll reconciles". The hypothesis of `SettlesUnlessStuck` excludes it: `stuck` records
that a tap or its refresh failed. Without the hypothesis, `<>[]Agrees` fails.

Met on the way, promised nowhere in the repository, and hence excluded by a hypothesis of the property or outside the
models:

* Board. `store_post` remembers no deleted ids, so a request for a post that is handled after `delete_post` stores
  it again; for replies `delete_reply` prevents this. More than a page of new posts since the last refresh, or a page
  of earlier posts asked for before the list was replaced, leaves posts that only a reload shows. A late receipt
  for a reply that was seen and deleted shows it until the next read. A tap whose answer is lost leaves the state before
  it in the override until the next tap, and a poll from before a tap, answered after the tap and its refresh, shows the old row until the next
  poll (`TapStands` speaks of the tap while it is under way).
* Groups and conversations. Two roster refreshes of one invitation version that arrive in the wrong order leave the older
  roster (`social_groups.py:621`). An acceptance whose answer is lost, followed by a refusal, leaves the member
  active at the host (`social_groups.py:568`). A list that was read in part from the device keeps those records until it is read
  again (`stale` in `Conversations`). `createGroup` sends no id of its own, so a repeat after
  a lost answer makes a second group. A refusal's answer closes whichever thread is open. An answer to a decision or an invitation may be older than
  the refresh it replaces (`older` in `GroupScreen`).
* Shared objects. A receipt that overlaps `join_object`, or a join that dies between its two writes, leaves an
  invitation for an object that is joined (`crossed` in `ObjectInvitations`); declining it leaves the membership at the
  host. Joining and leaving forgets an earlier refusal.
* Timeline. A late "failed" overwrites "delivered" until the next refresh (`Failing` in `DeliveredStands`); the offline page has no
  cursor; loading earlier messages clears the error of a refresh.
* Caches. A hint that changes while its batch is under way is not asked for again until the face is mounted again
  (`overtaken` in `AvatarCache`). A picture of the owner that is discarded and chosen again while its record is in
  memory is not written to the device again (`avatarCache.js:305`, `:337`) before the next frame primes it. A frame closed before the delayed write of the list leaves thumbnails that nothing removes, and
  so does a list that cannot be read (`orphans` in `Thumbnails`).
* Badge. A request that dies between its messages and `badge.json` leaves the badge wrong until the next
  write (`torn`). After a restore a stale report, or a version that catches up with Möbius's revision, leaves an acknowledged wrong
  count (`astray`).
* Membership. An owner who joined before usernames were asked for, sent to choose one, and who returns
  without one, is not waited for a second time.

## Proofs

Every safety and action property of every run that passes is proved from the specification and the
module's named assumption on its constants, for every value of them. No theorem assumes anything
else; fairness is not used. Each rests on an inductive invariant, which TLC checked as an invariant of the module's run
before it was proved, and its proof has one step or lemma per action.

| module | theorems | inductive invariant |
|---|---|---|
| `MessageHistoryProofs` | `TypeCorrect`, `DifferencesStayExplained`, `SkippingIsSound`, `HistoryImplementsSavedHistory` | `TypeOK`, `VersionsOrdered`, `DifferencesAreExplained` |
| `DirectMessagesProofs` | `TypesHold`, `DeliveredHolds`, `OneAttemptHolds`, `ConsentHolds`, `NothingUndoneHolds` | `IInv` |
| `GroupsProofs` | `TypesHold`, `MembershipHolds`, `PostsHold`, `NothingUndoneHolds` | `IInv` |
| `SharedObjectsProofs` | `TypesHold`, `SoundHolds`, `EditorsHold` | `IInv` |
| `BoardIndexProofs` | `TypeCorrect`, `DifferencesStayAnnounced`, `ReadsStayCurrent`, `LimitHolds` | `TInv`, `AInv`, `IInv`, `LInv` |
| `CommunityBoardProofs` | `TypesHold`, `ConfirmedHolds`, `LateHolds`, `DraftsHold` | `IInv` |
| `TimelineProofs` | `TypesHold`, `ComposerHolds`, `QuietHolds`, `GapHolds`, `DeliveredHolds` | `Inv` |
| `PartsProofs` | `OwnerHolds`, `DraftsGoByChoice`, `RefusalsHold`, `NothingIsForgottenHolds`, `NewestHolds`, `NothingSlipsAwayHolds`, `ScreensHold`, `TypesHold` | `DraftInv`, `InvitedInv`, `LanesInv`, `ThumbInv`, `PhotoInv`, `ThreadInv`, `ReactionInv`, `FaceInv`, `FeedInv`, `HintInv`, `ChatInv`, `GroupInv`, `BadgeInv`, `MemberInv`, `CacheInv`, `RoomSound`, `FewAsks`, `TapBounds` |

Why each property needs more than itself:

**MessageHistory.** `SkipIsSound` says nothing of what happens while a scan may not be skipped.
`VersionsOrdered` bounds the versions that `DifferencesAreExplained` compares, and the latter
says where each difference between rows and files is remembered: in a dirty marker, in a
version the conversation has not been reconciled at and coverage does not reach, or in
the mutation in flight. The implementation proof uses it in `WriteLatestPage`, the one step that shows a page.

**DirectMessages.** That a message shown as delivered arrived depends on answers still under way and on
requests that have read theirs: `FlightSound` and `RequestSound` carry `Reached` along. One
attempt at a time follows from a request in an attempt holding the record's lease with its own
attempt number. `CountSound` relates each counter to the set of messages it should count, whatever state the
conversation was in when they came.
Decisions stand (`DecisionsStand`, a part of `NothingIsUndone`) needs the types alone: `StepDecides` goes through
every step that writes a conversation's state.

**Groups.** An acceptance is true from the member's request to the host's record to the answer, so `RequestSound` and
`EnvelopeSound` say at each place what the host has by then. `HostGrows` names what a
step of anyone else cannot take back: an active member, the number of invitations, committed posts and consent.
`OneAnswer` keeps a second answer from settling a request twice.

**SharedObjects.** Everything beyond types holds while no two changes have overlapped: `JobsSound` says what the one process
that changes the object will save, relative to what is on disk. The hypothesis is the finding `objects_clobber`.

**BoardIndex.** `TInv` adds to the types what kind of request is at what step and that the changes under
way have room for their writes. `AInv` adds the mutual exclusion of the board's file lock
and what the holder of the lock knows: from the marker to the row, that the marker
stands; with a marker of its own, that nothing else differs; after a rebuild, that nothing
differs at all. A process that is about to trust the table (`trust`, outside the file lock)
counts as one that does, or the step that makes it ready would not keep the invariant.
`IInv` adds what a reader on each path has: the files are within what was so during the
request, and so is the table from the moment the request found it trusted. `LInv` adds to `AInv` that who is about to write has room:
the count was taken in a table that has the rows of the files, or in the files. The hypothesis
"undermined" cannot be dropped: TLC finds a counterexample to `ReadsAreCurrent` (see Findings).

**CommunityBoard.** An id stands for the same words at the composer, in every request and on the board (`WordsSound`), and
a member waits for one write at a time (`OneWrite`), so an answer empties the composer of the words it confirms. `EditSound` says
that the clock is that of the last edit applied; `TombSound` that the list of deleted replies has all of them until
more were deleted than it holds.

**Timeline.** Two facts that no property states. A page that was answered covers the log up to some position
(`Covers`), however long ago it was read. And while a refresh still counts, the list already knows better than its page
wherever the page is behind (`Knows`): what was saved since is in the list with a mark, so that a reset
keeps it, and what the page calls undelivered the list calls undelivered too.

**Parts.** One invariant for each part, of which a step of any other part changes nothing. `OwnerGoesFirst` needs none: it
follows from what `MayStart` and `Pump` do in each action. The invariants are in `PartsInvariants`.

* Drafts (`DraftInv`): a version stands for a content. Whoever has read the file and is about to write, and still finds its version,
  finds the draft it read, because every change of the file moves the version.
* Invitations (`InvitedInv`): a refusal is remembered, by the tombstone or by the joined object, for as long as a copy of what
  was refused is young enough to be admitted; so is the copy that the public lane has checked and not written.
* Requests (`LanesInv`): a job is queued at most once or is the one under way, never both, and a poller is in its tick exactly
  when it is one of these. Taking the first live job out of the queue and the aborted ones before it then leaves no poller that
  thinks it is running.
* Thumbnails (`ThumbInv`): the list, when it is known, names no path twice, within the limit, and every blob is on it, on its way in
  (a save that has stored), on its way out, or was left behind by a closed frame or a failing removal.
* Photos (`PhotoInv`): the tile's URLs and the viewer's are of different kinds, unless the viewer was lent one, and an
  image still on its way was never made a URL of. What one of them revokes is then never what the other shows as its own.
* Threads (`ThreadInv`): a read that may still replace the cached entry is behind the host only in replies whose deletion
  is under way, which no read shows; the read the thread waits for is the entry's; what was confirmed as deleted
  is deleted at the host, so no read from now on brings it.
* Reactions (`ReactionInv`): a tap made on what the host had is the opposite of it, in the override, and at the host from the moment
  it is stored until the override goes.
* Faces (`FaceInv`): a record and its saved copy say the last definite word or none, a job is void exactly when that word
  came after it was queued, and the owner's primed picture is the owner's own.
* Feed (`FeedInv`): an answered page, or what a search has found, holds every post of the board from its cursor on, but for those
  created since; a page of earlier posts was asked for below the newest post. Deletions only shorten what a page lacks
  (`TopGrows`).
* Hints (`HintInv`): a face on screen whose answer counts follows today's hint; a request under way was made with today's hint, or
  the hint is known to have changed since. A job that was voided on its way leaves its record primed by the owner, or failed.
* Conversations (`ChatInv`): of the records that a load has listed, those the device did not answer for are the service's, unless the
  load is outdated, access is lost or a change was made that the window is about to hear of.
* Group (`GroupInv`): the creator has no decision to make and nobody else invites. Whoever the creator was told is invited is in
  the service's roster, in a refresh that was read and in an answer on its way. A refresh that was read has the service's
  record, unless a change was made that the window is about to hear of.
* Badge (`BadgeInv`): one request at a time changes the unread messages and the version. Revisions only grow, and what any
  report says of the newest revision is what is noted. If the newest revision is acknowledged, Möbius shows its count,
  and what other reports still send says the same or is too old for Möbius to take.
* Types. Most follow from the invariants above. `CacheInv` adds that the queue of faces holds each queued host once, and that
  every face on screen, asked for or answered has its record in the cache, so pruning takes none of them. `RoomSound`
  keeps room on the list for the invitation the public lane has already checked: its owner's processes, beside it, only
  take objects off the list. `MemberInv`: a profile whose check is under way does not yet say that the directory
  lists it. `FewAsks` and `TapBounds` bound the feed's requests and the polls.

`Merge` of `Timeline` is a function constructor where `@@` and `:>` would do, which the provers cannot expand; the
folds of the other modules are functions or library operators, without `RECURSIVE`.

The parts take their few operators on sequences from `Lists`, not from `SequencesExt`: the prover reads every
definition in sight before each obligation, and each part is an instance with its own copy of them.

Only model-checked: all liveness (`SavedIsDelivered`, `TryingHelps`, `BoardSettles`, `NobodyWaits`): temporal properties
under fairness, and `ENABLED`, are beyond the prover.

## Not modelled, and the plan

* Signatures, canonical bytes, HTTP, image validation and address checks: pure functions and I/O, no order of events matters to them.
* The host's side of reactions, photos and activity notices: each is one transaction under the board's lock with a
  replay journal; the app's side of reactions is modelled and takes the host's toggle as one step. A claimed
  notice whose handler dies is refused when repeated (`social_routes.py:1271`), but the host sends a notice once.
* The service's side of identity, avatars and media: `Membership` and `AvatarCache` have a step
  for each answer, which may be any the service can give, and not the files it comes from.
* The community host's process: its refreshes are independent and its key is made once.
* Power loss with SQLite in `synchronous=NORMAL` (`message_history.py:374`): the models' crashes are of processes, which keep what was written.
* Layout, styling, wording, scroll positions, pickers and cropping; deployment.
