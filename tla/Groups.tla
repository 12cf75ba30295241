------------------------------ MODULE Groups ------------------------------
(* One group conversation (social_groups.py): the host's authoritative record, *)
(* the copies the members keep, and the six signed envelopes between them.     *)
(*                                                                             *)
(* The host changes its record under _host_group_transaction, a file lock, and *)
(* its fan-out leaves after the commit. At a member, peers' envelopes are      *)
(* handled one after the other by the public lane, while its owner's requests  *)
(* run in processes of their own: what such a request read before it contacted *)
(* the host may be stale when the answer comes.                                *)
(*                                                                             *)
(* An invitation is its version: a new invitation of a member gets a new id and *)
(* the next version together. Handles, names, times, photos, member-side       *)
(* rosters and unread counts are left out.                                     *)
EXTENDS Naturals, FiniteSets

CONSTANTS
  Members,     \* the instances other than the host
  Host,        \* the creator's instance
  Messages,    \* message ids, minted by the author's app
  Author,      \* the instance each id belongs to
  Requests,    \* concurrent requests of the members' owners
  None,        \* no request waits for the answer
  MaxInvites,  \* bound on the invitations of one member
  MaxFaults    \* bound on crashes, losses, refusals and timeouts

ASSUME GroupAssumption ==
  /\ Host \notin Members /\ None \notin Requests
  /\ Members # {} /\ Messages # {}
  /\ Author \in [Messages -> Members \cup {Host}]
  /\ MaxInvites \in Nat /\ MaxFaults \in Nat

VARIABLES
  group,    \* common/groups/<gid>.json at the host
  roster,   \* "members" in the host's own groups/<gid>/meta.json
  posts,    \* groups/<gid>/msgs at the host
  meta,     \* groups/<gid>/meta.json of each member
  copy,     \* groups/<gid>/msgs of each member
  request,  \* what each running owner request remembers
  wire,     \* envelopes sent and not yet handled
  faults,   \* faults so far
  (* history of the run, read by no action *)
  consented,  \* members whose owner asked to join
  audience,   \* of each post: the members that had asked when it was committed
  stale       \* a process died between the record and the roster

vars == <<group, roster, posts, meta, copy, request, wire, faults,
          consented, audience, stale>>
host == <<group, roster, posts, audience, stale>>
member == <<meta, copy>>

---------------------------------------------------------------------------
NoMember == [status |-> "none", inv |-> 0]
NoMeta == [state |-> "none", inv |-> 0, closed |-> FALSE]
Idle == [step |-> "idle", kind |-> "accept", member |-> CHOOSE m \in Members : TRUE,
         inv |-> 0, msg |-> CHOOSE x \in Messages : TRUE, ok |-> FALSE]

Init ==
  /\ group = [state |-> "absent", members |-> [m \in Members |-> NoMember]]
  /\ roster = {}
  /\ posts = {}
  /\ meta = [m \in Members |-> NoMeta]
  /\ copy = [m \in Members |-> [x \in Messages |-> "none"]]
  /\ request = [r \in Requests |-> Idle]
  /\ wire = {}
  /\ faults = 0
  /\ consented = {}
  /\ audience = [x \in Messages |-> {}]
  /\ stale = FALSE

Status(m) == group.members[m].status
Invited == {m \in Members : Status(m) # "none"}
Fault == faults < MaxFaults /\ faults' = faults + 1
Set(r, update) == request' = [request EXCEPT ![r] = update]

Envelope(kind, m, inv, x, r) == [kind |-> kind, member |-> m, inv |-> inv, msg |-> x, req |-> r]
Notice(kind, m, inv) == Envelope(kind, m, inv, Idle.msg, None)

\* The request no longer waits for its answer; what it sent is still under way.
Detached(r) == {IF e.req = r THEN [e EXCEPT !.req = None] ELSE e : e \in wire}

Tell(e, ok) ==
  request' = IF e.req = None THEN request
             ELSE [request EXCEPT ![e.req] = [@ EXCEPT !.step = "answered", !.ok = ok]]

\* No answer arrives: it is lost, or the handler died.
NoAnswer(e) == Fault /\ Tell(e, FALSE)

Answer(e, ok) == (Tell(e, ok) /\ UNCHANGED faults) \/ NoAnswer(e)

---------------------------------------------------------------------------
(* The host's owner.                                                            *)

\* _members_snapshot: everyone but those who declined.
Snapshot(members) == {m \in Members : members[m].status \notin {"none", "declined"}}

\* _store_group_meta inside the host's transaction; the process may die before it.
Publish(members) ==
  \/ roster' = Snapshot(members) /\ stale' = FALSE /\ UNCHANGED faults
  \/ UNCHANGED roster /\ stale' = TRUE /\ Fault

\* Inviting m: a new member, or one who declined and gets a new invitation.
Invite(m) ==
  IF Status(m) \in {"none", "declined"}
  THEN [group.members EXCEPT ![m] = [status |-> "invited", inv |-> @.inv + 1]]
  ELSE group.members

Invitations(members) ==
  {Notice("added", m, members[m].inv) : m \in Snapshot(members)}

\* create_group: the record, the roster, then the invitations.
Create(invitees) ==
  LET members == [m \in Members |-> IF m \in invitees
                                    THEN [status |-> "invited", inv |-> 1] ELSE NoMember]
  IN
  /\ group.state = "absent"
  /\ MaxInvites > 0
  /\ group' = [state |-> "open", members |-> members]
  /\ Publish(members)
  /\ wire' = IF stale' THEN wire ELSE wire \cup Invitations(members)
  /\ UNCHANGED <<posts, member, request, consented, audience>>

\* add_group_member: invites, or repeats the invitation and the roster, to everyone
\* who has not declined.
AddMember(m) ==
  LET members == Invite(m) IN
  /\ group.state = "open"
  /\ members[m].inv <= MaxInvites
  /\ group' = [group EXCEPT !.members = members]
  /\ Publish(members)
  /\ wire' = IF stale' THEN wire ELSE wire \cup Invitations(members)
  /\ UNCHANGED <<posts, member, request, consented, audience>>

\* delete_group: also repeats the notices of a closed group.
Delete ==
  /\ group.state \in {"open", "deleted"}
  /\ group' = [group EXCEPT !.state = "deleted"]
  /\ wire' = wire \cup {Notice("deleted", m, 0) : m \in Invited}
  /\ UNCHANGED <<roster, posts, member, request, faults, consented, audience, stale>>

\* Mutant: everyone on the roster gets the message.
Relays_Roster(x) ==
  {Envelope("message", m, 0, x, None) : m \in {n \in Members : n # Author[x] /\ n \in Snapshot(group.members)}}

\* The active members but the author, at the moment of the commit.
Relays(x) ==
  {Envelope("message", m, 0, x, None) :
     m \in {n \in Members : n # Author[x] /\ Status(n) = "active"}}

\* _host_commit_post and its fan-out, which a process that dies never starts.
Commit(x) ==
  /\ posts' = posts \cup {x}
  /\ audience' = [audience EXCEPT ![x] = consented]

\* send_group_message at the host.
HostPost(x) ==
  /\ Author[x] = Host
  /\ group.state = "open" /\ x \notin posts
  /\ Commit(x)
  /\ \/ wire' = wire \cup Relays(x) /\ UNCHANGED faults
     \/ UNCHANGED wire /\ Fault
  /\ UNCHANGED <<group, roster, stale, member, request, consented>>

---------------------------------------------------------------------------
(* The host's public lane: _accept_group_envelope.                              *)

AcceptAllowed(e) ==
  /\ group.state = "open"
  /\ Status(e.member) = "invited"
  /\ group.members[e.member].inv = e.inv

\* Mutant: only the first acceptance is answered as one.
Repeated_Refused(e) == FALSE

\* A repeated acceptance is answered like the first.
Repeated(e) ==
  /\ group.state = "open"
  /\ group.members[e.member] = [status |-> "active", inv |-> e.inv]

HandleAccept(e) ==
  /\ e.kind = "accept"
  /\ \/ /\ AcceptAllowed(e)
        /\ group' = [group EXCEPT !.members[e.member].status = "active"]
        /\ \/ /\ roster' = Snapshot(group'.members) /\ stale' = FALSE
              /\ Answer(e, TRUE)
           \/ /\ UNCHANGED roster /\ stale' = TRUE
              /\ NoAnswer(e)
     \/ /\ ~AcceptAllowed(e)
        /\ Answer(e, Repeated(e))
        /\ UNCHANGED <<group, roster, stale>>
  /\ wire' = wire \ {e}
  /\ UNCHANGED <<posts, audience, member, consented>>

DeclineAllowed(e) ==
  /\ group.state = "open"
  /\ Status(e.member) = "invited"
  /\ group.members[e.member].inv = e.inv

\* Mutant: a refusal leaves the roster to the next change.
HandleDecline_OldRoster(e) ==
  /\ e.kind = "decline"
  /\ group' = IF DeclineAllowed(e)
              THEN [group EXCEPT !.members[e.member].status = "declined"] ELSE group
  /\ wire' = wire \ {e}
  /\ UNCHANGED <<roster, stale, faults, posts, audience, member, request, consented>>

\* What the host answers to a refusal changes nothing at the member.
HandleDecline(e) ==
  /\ e.kind = "decline"
  /\ \/ /\ DeclineAllowed(e)
        /\ group' = [group EXCEPT !.members[e.member].status = "declined"]
        /\ Publish(group'.members)
     \/ ~DeclineAllowed(e) /\ UNCHANGED <<group, roster, stale, faults>>
  /\ wire' = wire \ {e}
  /\ UNCHANGED <<posts, audience, member, request, consented>>

\* Mutant: a closed group still takes its members' posts.
MayPost_Closed(e) == group.state # "absent" /\ Status(e.member) = "active"

MayPost(e) == group.state = "open" /\ Status(e.member) = "active"

\* A post of an active member is committed and relayed once; the process may die
\* before the fan-out.
HandlePost(e) ==
  /\ e.kind = "post"
  /\ \/ /\ MayPost(e) /\ e.msg \notin posts
        /\ Commit(e.msg)
        /\ \/ wire' = (wire \ {e}) \cup Relays(e.msg) /\ Answer(e, TRUE)
           \/ wire' = wire \ {e} /\ NoAnswer(e)
     \/ /\ ~MayPost(e)
        /\ wire' = wire \ {e}
        /\ Answer(e, FALSE)
        /\ UNCHANGED <<posts, audience>>
  /\ UNCHANGED <<group, roster, stale, member, consented>>

\* Mutant: a repeated post is an error.
HandleDuplicate_Refused(e) ==
  /\ e.kind = "post"
  /\ MayPost(e) /\ e.msg \in posts
  /\ wire' = wire \ {e}
  /\ Answer(e, FALSE)
  /\ UNCHANGED <<host, member, consented>>

\* A post the host already has is acknowledged again and relayed to nobody.
HandleDuplicate(e) ==
  /\ e.kind = "post"
  /\ MayPost(e) /\ e.msg \in posts
  /\ wire' = wire \ {e}
  /\ Answer(e, TRUE)
  /\ UNCHANGED <<host, member, consented>>

---------------------------------------------------------------------------
(* A member's public lane.                                                      *)

\* Mutant: an older invitation replaces a newer one.
Merge_AnyVersion(old, inv) ==
  IF old.closed THEN old
  ELSE [old EXCEPT !.inv = inv,
                   !.state = IF @ = "none" \/ (@ = "declined" /\ old.inv # inv)
                             THEN "pending" ELSE @]

\* _apply_member_group_lifecycle, group_added: a closed group and an older invitation
\* change nothing; a newer invitation asks again an owner who declined.
Merge(old, inv) ==
  IF old.closed \/ inv < old.inv THEN old
  ELSE [old EXCEPT !.inv = inv,
                   !.state = IF @ = "none" \/ (@ = "declined" /\ old.inv # inv)
                             THEN "pending" ELSE @]

HandleAdded(e) ==
  /\ e.kind = "added"
  /\ meta' = [meta EXCEPT ![e.member] = Merge(@, e.inv)]
  /\ wire' = wire \ {e}
  /\ UNCHANGED <<host, copy, request, faults, consented>>

Tombstone(old) ==
  [old EXCEPT !.closed = TRUE,
              !.state = IF @ = "accepted" THEN "accepted" ELSE "declined"]

\* group_deleted: a tombstone, also ahead of a delayed first invitation.
HandleDeleted(e) ==
  /\ e.kind = "deleted"
  /\ meta' = [meta EXCEPT ![e.member] = Tombstone(@)]
  /\ wire' = wire \ {e}
  /\ UNCHANGED <<host, copy, request, faults, consented>>

\* group_message: an unknown or closed group, or a saved message, stores nothing.
HandleMessage(e) ==
  LET m == e.member IN
  /\ e.kind = "message"
  /\ copy' = IF meta[m].state = "none" \/ meta[m].closed \/ copy[m][e.msg] # "none"
             THEN copy ELSE [copy EXCEPT ![m][e.msg] = "in"]
  /\ wire' = wire \ {e}
  /\ UNCHANGED <<host, meta, request, faults, consented>>

---------------------------------------------------------------------------
(* A member's owner.                                                            *)

Pending(m) == meta[m].state = "pending" /\ ~meta[m].closed

\* accept_group_invitation asks the host first ...
BeginAccept(r, m) ==
  /\ request[r].step = "idle"
  /\ Pending(m)
  /\ Set(r, [Idle EXCEPT !.step = "await", !.kind = "accept", !.member = m, !.inv = meta[m].inv])
  /\ wire' = wire \cup {Envelope("accept", m, meta[m].inv, Idle.msg, r)}
  /\ consented' = consented \cup {m}
  /\ UNCHANGED <<host, member, faults>>

\* _transition_member_group_request: only the invitation that was presented.
MayDecide(m, inv) == Pending(m) /\ meta[m].inv = inv

\* Mutant: the acceptance is recorded whether or not the host agreed.
FinishAccept_Alone(r) ==
  LET m == request[r].member IN
  /\ request[r].step = "answered" /\ request[r].kind = "accept"
  /\ meta' = IF MayDecide(m, request[r].inv) THEN [meta EXCEPT ![m].state = "accepted"] ELSE meta
  /\ Set(r, Idle)
  /\ UNCHANGED <<host, copy, wire, faults, consented>>

\* ... and records the acceptance when it agrees.
FinishAccept(r) ==
  LET m == request[r].member IN
  /\ request[r].step = "answered" /\ request[r].kind = "accept"
  /\ meta' = IF request[r].ok /\ MayDecide(m, request[r].inv)
             THEN [meta EXCEPT ![m].state = "accepted"] ELSE meta
  /\ Set(r, Idle)
  /\ UNCHANGED <<host, copy, wire, faults, consented>>

\* decline_group_invitation: locally final, then the host is told once.
Decline(m) ==
  /\ Pending(m)
  /\ meta' = [meta EXCEPT ![m].state = "declined"]
  /\ wire' = wire \cup {Notice("decline", m, meta[m].inv)}
  /\ UNCHANGED <<host, copy, request, faults, consented>>

Joined(m) == meta[m].state = "accepted" /\ ~meta[m].closed

\* send_group_message at a member: the host first, the own copy after its answer.
SendPost(r, x) ==
  LET m == Author[x] IN
  /\ request[r].step = "idle"
  /\ m # Host
  /\ Joined(m)
  /\ copy[m][x] = "none"
  /\ Set(r, [Idle EXCEPT !.step = "await", !.kind = "post", !.member = m, !.msg = x])
  /\ wire' = wire \cup {Envelope("post", m, 0, x, r)}
  /\ UNCHANGED <<host, member, faults, consented>>

\* A failed send into a group closed meanwhile is refused (410), a successful one kept.
CheckOpen(r) ==
  /\ request[r].step = "answered" /\ request[r].kind = "post"
  /\ Set(r, IF ~request[r].ok /\ meta[request[r].member].closed
            THEN Idle ELSE [request[r] EXCEPT !.step = "store"])
  /\ UNCHANGED <<host, member, wire, faults, consented>>

\* Mutant: the copy of a concurrent send is overwritten.
Outcome_Last(old, ok) == IF ok THEN "delivered" ELSE "failed"

\* Mutant: a failed send has a status of its own.
Outcome_Sending(old, ok) == IF ok THEN "delivered" ELSE IF old = "none" THEN "sending" ELSE old

\* A failure never replaces what an earlier or concurrent send of the id recorded.
Outcome(old, ok) == IF ok THEN "delivered" ELSE IF old = "none" THEN "failed" ELSE old

\* _store_group_message, or _mark_group_message_delivered on the copy of a
\* concurrent send.
StorePost(r) ==
  LET m == request[r].member  x == request[r].msg IN
  /\ request[r].step = "store"
  /\ copy' = [copy EXCEPT ![m][x] = Outcome(@, request[r].ok)]
  /\ Set(r, Idle)
  /\ UNCHANGED <<host, meta, wire, faults, consented>>

\* _retry_saved_group_message: the saved copy again under its own id ...
RetryPost(r, x) ==
  LET m == Author[x] IN
  /\ request[r].step = "idle"
  /\ m # Host
  /\ Joined(m)
  /\ copy[m][x] = "failed"
  /\ Set(r, [Idle EXCEPT !.step = "await", !.kind = "retry", !.member = m, !.msg = x])
  /\ wire' = wire \cup {Envelope("post", m, 0, x, r)}
  /\ UNCHANGED <<host, member, faults, consented>>

\* Mutant: any end of a retry upgrades the copy.
FinishRetry_Any(r) ==
  /\ request[r].step = "answered" /\ request[r].kind = "retry"
  /\ copy' = [copy EXCEPT ![request[r].member][request[r].msg] = "delivered"]
  /\ Set(r, Idle)
  /\ UNCHANGED <<host, meta, wire, faults, consented>>

\* ... which a success upgrades in place.
FinishRetry(r) ==
  LET m == request[r].member  x == request[r].msg IN
  /\ request[r].step = "answered" /\ request[r].kind = "retry"
  /\ copy' = IF request[r].ok THEN [copy EXCEPT ![m][x] = "delivered"] ELSE copy
  /\ Set(r, Idle)
  /\ UNCHANGED <<host, meta, wire, faults, consented>>

\* The connection breaks or its time is over; the host may still handle the envelope.
TimeOut(r) ==
  /\ request[r].step = "await"
  /\ \/ Fault
     \/ (\A e \in wire : e.req # r) /\ UNCHANGED faults
  /\ Set(r, [request[r] EXCEPT !.step = "answered"])
  /\ wire' = Detached(r)
  /\ UNCHANGED <<host, member, consented>>

\* The owner's request dies.
Crash(r) ==
  /\ request[r].step # "idle"
  /\ Fault
  /\ Set(r, Idle)
  /\ wire' = Detached(r)
  /\ UNCHANGED <<host, member, consented>>

\* An envelope nobody waits for is lost, or refused by an instance that is not reachable,
\* cannot verify it or has not joined.
Lose(e) ==
  /\ e.req = None
  /\ Fault
  /\ wire' = wire \ {e}
  /\ UNCHANGED <<host, member, request, consented>>

---------------------------------------------------------------------------
Handle(e) ==
  \/ HandleAccept(e) \/ HandleDecline(e) \/ HandlePost(e) \/ HandleDuplicate(e)
  \/ HandleAdded(e) \/ HandleDeleted(e) \/ HandleMessage(e)

Progress(r) == FinishAccept(r) \/ CheckOpen(r) \/ StorePost(r) \/ FinishRetry(r) \/ TimeOut(r)

Next ==
  \/ \E invitees \in SUBSET Members : Create(invitees)
  \/ \E m \in Members : AddMember(m) \/ Decline(m)
  \/ Delete
  \/ \E x \in Messages : HostPost(x)
  \/ \E e \in wire : Handle(e) \/ Lose(e)
  \/ \E r \in Requests :
       \/ \E m \in Members : BeginAccept(r, m)
       \/ \E x \in Messages : SendPost(r, x) \/ RetryPost(r, x)
       \/ Progress(r) \/ Crash(r)

Spec == Init /\ [][Next]_vars

\* What is fair: running requests go on, envelopes are handled or lost, a member's
\* owner keeps accepting or declining what is pending and keeps retrying what failed,
\* the host's owner keeps inviting whoever has not joined.
Fairness ==
  /\ \A r \in Requests : WF_vars(Progress(r))
  /\ \A m \in Members :
       /\ SF_vars(\E r \in Requests : BeginAccept(r, m))
       /\ WF_vars(Status(m) # "active" /\ AddMember(m))
       /\ \A kind \in {"accept", "post", "added"} :
            WF_vars(\E e \in wire : e.kind = kind /\ e.member = m /\ (Handle(e) \/ Lose(e)))
  /\ \A x \in Messages : SF_vars(\E r \in Requests : RetryPost(r, x))

FairSpec == Spec /\ Fairness

---------------------------------------------------------------------------
\* Types of the state.
TypeOK ==
  /\ group \in [state : {"absent", "open", "deleted"},
                members : [Members -> [status : {"none", "invited", "active", "declined"}, inv : Nat]]]
  /\ roster \subseteq Members
  /\ posts \subseteq Messages
  /\ meta \in [Members -> [state : {"none", "pending", "accepted", "declined"}, inv : Nat,
                           closed : BOOLEAN]]
  /\ copy \in [Members -> [Messages -> {"none", "in", "failed", "delivered"}]]
  /\ request \in [Requests -> [step : {"idle", "await", "answered", "store"},
                               kind : {"accept", "post", "retry"}, member : Members,
                               inv : Nat, msg : Messages, ok : BOOLEAN]]
  /\ wire \subseteq [kind : {"accept", "decline", "post", "added", "deleted", "message"},
                     member : Members, inv : Nat, msg : Messages, req : Requests \cup {None}]
  /\ faults \in 0..MaxFaults
  /\ consented \subseteq Members
  /\ audience \in [Messages -> SUBSET Members]
  /\ stale \in BOOLEAN

\* A member that shows itself as joined is an active member at the host under the very
\* invitation it accepted, whatever was delayed, repeated or replaced
\* (_accept_group_envelope, _transition_member_group_request).
JoinedIsActive ==
  \A m \in Members :
    meta[m].state = "accepted" =>
      group.members[m] = [status |-> "active", inv |-> meta[m].inv]

\* The roster the host's app shows is the one of its record, but after a process died
\* between the two (_accept_group_envelope: "must not be overwritten by this older
\* roster after it has already committed").
RosterIsCurrent ==
  group.state # "absent" /\ ~stale => roster = Snapshot(group.members)

\* A member receives the posts committed after its owner asked to join, and no earlier
\* one (README.md, "new members receive future messages, not the earlier conversation
\* history"; accept_group_invitation, "only after the owner explicitly accepts").
OnlyLaterPosts ==
  \A m \in Members, x \in Messages : copy[m][x] = "in" => x \in posts /\ m \in audience[x]

\* A message its author sees as delivered is in the host's copy of the group.
DeliveredIsCommitted ==
  \A m \in Members, x \in Messages : copy[m][x] = "delivered" => x \in posts

\* An owner's decision is changed by nobody: an acceptance is final, and a refusal is
\* asked again only under a newer invitation (_apply_member_group_lifecycle: "a delayed
\* roster refresh cannot undo an owner's acceptance or a newer invitation").
DecisionsHold ==
  [][\A m \in Members :
       /\ meta[m].inv <= meta'[m].inv
       /\ meta[m].state = "accepted" => meta'[m].state = "accepted"
       /\ meta[m].state = "declined" /\ meta'[m].state # "declined"
            => meta'[m].state = "pending" /\ meta'[m].inv > meta[m].inv]_vars

\* A closed group stays closed at the host and takes no more posts; a member that knows
\* of it receives no more of them (delete_group, _require_open).
ClosedIsFinal ==
  [][/\ group.state = "deleted" => group'.state = "deleted" /\ posts' = posts
     /\ \A m \in Members : meta[m].closed =>
          /\ meta'[m].closed
          /\ \A x \in Messages : copy'[m][x] = "in" => copy[m][x] = "in"]_vars

\* A settled message stays settled: a failure of a repeated or concurrent send of the
\* same id never hides a delivery (send_group_message).
DeliveryHolds ==
  [][\A m \in Members, x \in Messages :
       copy[m][x] = "delivered" => copy'[m][x] = "delivered"]_vars

\* Membership is mutual: who shows itself as joined is active at the host under that very
\* invitation, and the roster shown is the record's (_accept_group_envelope).
MembershipIsMutual == JoinedIsActive /\ RosterIsCurrent

\* What an author sees as delivered is committed, and a member holds only posts committed
\* after it asked to join (send_group_message, _fan_out).
PostsReachMembers == DeliveredIsCommitted /\ OnlyLaterPosts

\* Decisions, the closing of a group and deliveries are not undone by delayed or repeated
\* envelopes (_apply_member_group_lifecycle, delete_group).
NothingIsUndone == DecisionsHold /\ ClosedIsFinal /\ DeliveryHolds

\* An owner who keeps accepting a pending invitation joins, unless the owner declines
\* it or the group is closed: no lost answer or replaced invitation is in the way.
AcceptanceSettles ==
  \A m \in Members : []<>~(meta[m].state = "pending" /\ group.state # "deleted")

\* A failed message its author keeps retrying is delivered, or the group is closed.
FailedIsDelivered ==
  \A m \in Members, x \in Messages :
    []<>~(copy[m][x] = "failed" /\ group.state # "deleted")

\* social_groups.py:926, "Declining is locally final even when the host is offline. It
\* never grants membership, and the host can retry an invitation later": a host that
\* keeps inviting a member who declined gets the invitation presented again.
DeclinedCanBeInvited ==
  \A m \in Members :
    meta[m].state = "declined" /\ Status(m) = "invited" /\ meta[m].inv < MaxInvites
      ~> (meta[m].state # "declined" \/ Status(m) = "active" \/ group.state = "deleted")
============================================================================
