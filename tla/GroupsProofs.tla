----------------------------- MODULE GroupsProofs -----------------------------
(* What TLAPS proves of Groups, for any members, messages, requests and bounds:    *)
(* membership is mutual, posts reach only who asked before, and what is decided,    *)
(* closed or delivered stays so.                                                    *)
EXTENDS Groups, TLAPS

---------------------------------------------------------------------------
EnvelopeType ==
  [kind : {"accept", "decline", "post", "added", "deleted", "message"},
   member : Members, inv : Nat, msg : Messages, req : Requests \cup {None}]
MetaType ==
  [state : {"none", "pending", "accepted", "declined"}, inv : Nat, closed : BOOLEAN]
CopyType == [Messages -> {"none", "in", "failed", "delivered"}]
MemberType == [status : {"none", "invited", "active", "declined"}, inv : Nat]

(* Nobody is invited to a group that is not there, and who is active asked to join. *)
GroupSound ==
  /\ group.state = "absent" => \A m \in Members : group.members[m] = NoMember
  /\ \A m \in Members : Status(m) = "active" => m \in consented

(* What a request was told by the host is so, and only a post is stored.            *)
RequestSound(r) ==
  LET req == request[r] IN
  /\ req.step = "store" => req.kind = "post"
  /\ req.ok => IF req.kind = "accept"
               THEN group.members[req.member] = [status |-> "active", inv |-> req.inv]
               ELSE req.msg \in posts

(* An invitation is not newer than the record, a post under way is committed for its *)
(* receiver, and a request waits for the answer to the envelope it sent.            *)
EnvelopeSound(e) ==
  /\ e.kind = "added" => e.inv <= group.members[e.member].inv
  /\ e.kind = "accept" => e.member \in consented
  /\ e.kind = "message" => e.msg \in posts /\ e.member \in audience[e.msg]
  /\ e.req # None =>
       LET req == request[e.req] IN
       /\ req.step = "await"
       /\ \/ e.kind = "accept" /\ req.kind = "accept"
             /\ req.member = e.member /\ req.inv = e.inv
          \/ e.kind = "post" /\ req.kind \in {"post", "retry"} /\ req.msg = e.msg

(* A request waits for one answer.                                                  *)
OneAnswer == \A e, f \in wire : e.req = f.req /\ e.req # None => e = f

RequestsSound == \A r \in Requests : RequestSound(r)
WireSound == \A e \in wire : EnvelopeSound(e)

IInv == /\ TypeOK /\ GroupSound /\ RosterIsCurrent
        /\ JoinedIsActive /\ DeliveredIsCommitted /\ OnlyLaterPosts
        /\ RequestsSound /\ WireSound /\ OneAnswer

---------------------------------------------------------------------------
(* What the host's record only gains, and what is therefore still so after a step.   *)

HostGrows ==
  /\ \A m \in Members : Status(m) = "active" => group'.members[m] = group.members[m]
  /\ \A m \in Members : group.members[m].inv <= group'.members[m].inv
  /\ posts \subseteq posts'
  /\ \A x \in posts : audience'[x] = audience[x]
  /\ consented \subseteq consented'

LEMMA NothingGrows ==
  ASSUME TypeOK, UNCHANGED <<group, posts, audience>>, consented \subseteq consented'
  PROVE  HostGrows
BY DEF HostGrows, TypeOK

LEMMA RequestTyped ==
  ASSUME TypeOK, NEW r \in Requests
  PROVE  /\ request[r].step \in {"idle", "await", "answered", "store"}
         /\ request[r].kind \in {"accept", "post", "retry"}
         /\ request[r].member \in Members /\ request[r].inv \in Nat
         /\ request[r].msg \in Messages /\ request[r].ok \in BOOLEAN
BY DEF TypeOK

RequestType ==
  [step : {"idle", "await", "answered", "store"}, kind : {"accept", "post", "retry"},
   member : Members, inv : Nat, msg : Messages, ok : BOOLEAN]

LEMMA IdleTyped ==
  /\ Idle \in RequestType /\ Idle.ok = FALSE /\ Idle.step = "idle" /\ Idle.msg \in Messages
BY GroupAssumption DEF Idle, RequestType

LEMMA RequestSet ==
  ASSUME TypeOK, NEW r \in Requests, NEW update \in RequestType, Set(r, update)
  PROVE  /\ request' \in [Requests -> RequestType] /\ request'[r] = update
         /\ \A q \in Requests : q # r => request'[q] = request[q]
BY DEF TypeOK, Set, RequestType

LEMMA FaultTyped == faults \in 0..MaxFaults /\ Fault => faults' \in 0..MaxFaults
BY GroupAssumption DEF Fault

LEMMA EnvelopeTyped ==
  ASSUME TypeOK, NEW e \in wire
  PROVE  /\ e \in EnvelopeType /\ e.member \in Members /\ e.msg \in Messages
         /\ e.inv \in Nat /\ e.req \in Requests \cup {None}
BY DEF TypeOK, EnvelopeType

\* A request that is told nothing new.
LEMMA RequestKept ==
  ASSUME IInv, HostGrows, NEW r \in Requests, request'[r] = request[r]
  PROVE  RequestSound(r)'
<1>1. RequestSound(r)
  BY DEF IInv, RequestsSound
<1>2. request[r].member \in Members
  BY RequestTyped DEF IInv
<1>3. QED
  BY <1>1, <1>2 DEF RequestSound, HostGrows, Status

\* An envelope under way whose request, if any, still waits.
LEMMA EnvelopeKept ==
  ASSUME IInv, HostGrows, TypeOK', NEW e \in wire,
         e.req = None \/ request'[e.req] = request[e.req]
  PROVE  EnvelopeSound(e)'
<1>1. EnvelopeSound(e)
  BY DEF IInv, WireSound
<1>2. e.member \in Members /\ e.inv \in Nat
  BY EnvelopeTyped DEF IInv
<1>3. e.kind = "added" => e.inv <= group'.members[e.member].inv
  <2>1. group.members[e.member].inv \in Nat /\ group'.members[e.member].inv \in Nat
    BY <1>2 DEF IInv, TypeOK
  <2>2. group.members[e.member].inv <= group'.members[e.member].inv
    BY <1>2 DEF HostGrows
  <2>3. QED
    BY <1>1, <1>2, <2>1, <2>2 DEF EnvelopeSound
<1>4. e.kind = "accept" => e.member \in consented'
  BY <1>1 DEF EnvelopeSound, HostGrows
<1>5. e.kind = "message" => e.msg \in posts' /\ e.member \in audience'[e.msg]
  BY <1>1 DEF EnvelopeSound, HostGrows
<1>6. QED
  BY <1>1, <1>3, <1>4, <1>5 DEF EnvelopeSound

\* What is under way after a step was so before, or is new and sound; a new envelope that
\* asks for an answer is the only one to do so for its request.
LEMMA WireKept ==
  ASSUME IInv, HostGrows, TypeOK',
         \A e \in wire' :
           \/ e \in wire /\ (e.req = None \/ request'[e.req] = request[e.req])
           \/ /\ EnvelopeSound(e)'
              /\ e.req # None => \A f \in wire' : f.req = e.req => f = e
  PROVE  WireSound' /\ OneAnswer'
<1>1. WireSound'
  BY EnvelopeKept DEF WireSound
<1>2. OneAnswer'
  BY DEF OneAnswer, IInv
<1>3. QED
  BY <1>1, <1>2

\* Steps that leave what members keep, or what the host keeps.
LEMMA MembersKept ==
  ASSUME IInv, HostGrows, UNCHANGED <<meta, copy>>
  PROVE  JoinedIsActive' /\ DeliveredIsCommitted' /\ OnlyLaterPosts'
<1>1. JoinedIsActive'
  BY DEF IInv, JoinedIsActive, HostGrows, Status
<1>2. DeliveredIsCommitted' /\ OnlyLaterPosts'
  BY DEF IInv, DeliveredIsCommitted, OnlyLaterPosts, HostGrows
<1>3. QED
  BY <1>1, <1>2

LEMMA HostKept ==
  ASSUME IInv, UNCHANGED <<group, roster, stale>>, consented \subseteq consented'
  PROVE  GroupSound' /\ RosterIsCurrent'
BY DEF IInv, GroupSound, RosterIsCurrent, Status, Snapshot

---------------------------------------------------------------------------
(* The host's owner. *)

\* The roster is written with the record, or is known to be stale.
LEMMA PublishFacts ==
  ASSUME TypeOK, Publish(group'.members)
  PROVE  /\ roster' \subseteq Members /\ stale' \in BOOLEAN /\ faults' \in 0..MaxFaults
         /\ ~stale' => roster' = Snapshot(group'.members)
BY FaultTyped DEF Publish, Snapshot, TypeOK

\* The envelopes the host sends wait for no answer.
LEMMA NoticeTyped ==
  ASSUME NEW kind \in {"decline", "added", "deleted"}, NEW m \in Members, NEW inv \in Nat
  PROVE  /\ Notice(kind, m, inv) \in EnvelopeType
         /\ Notice(kind, m, inv).kind = kind /\ Notice(kind, m, inv).member = m
         /\ Notice(kind, m, inv).inv = inv /\ Notice(kind, m, inv).req = None
BY IdleTyped DEF Notice, Envelope, EnvelopeType

\* A record with these members is published and the invitations leave: to nobody but
\* under the version recorded.
LEMMA KeepInvitations ==
  ASSUME IInv, NEW members \in [Members -> MemberType],
         group' \in [state : {"absent", "open", "deleted"}, members : [Members -> MemberType]],
         group'.members = members, group'.state # "absent", Publish(members), HostGrows,
         \A m \in Members : members[m].status = "active" => Status(m) = "active",
         wire' = IF stale' THEN wire ELSE wire \cup Invitations(members),
         UNCHANGED <<posts, meta, copy, request, consented, audience>>
  PROVE  IInv'
<1>1. /\ roster' \subseteq Members /\ stale' \in BOOLEAN /\ faults' \in 0..MaxFaults
      /\ ~stale' => roster' = Snapshot(group'.members)
  BY PublishFacts DEF IInv
<1>2. \A e \in wire' : e \in wire \/
        \E m \in Members : e = Notice("added", m, members[m].inv)
  BY DEF Invitations, Snapshot
<1>3. \A m \in Members : members[m].inv \in Nat
  BY DEF MemberType
<1>4. wire' \subseteq EnvelopeType
  BY <1>2, <1>3, NoticeTyped, EnvelopeTyped DEF IInv
<1>5. TypeOK'
  BY <1>1, <1>4 DEF IInv, TypeOK, EnvelopeType, MemberType
<1>6. ASSUME NEW m \in Members PROVE EnvelopeSound(Notice("added", m, members[m].inv))'
  <2> DEFINE n == Notice("added", m, members[m].inv)
  <2>1. PICK e \in EnvelopeType : e = n
    BY <1>3, NoticeTyped
  <2>2. e.kind = "added" /\ e.member = m /\ e.inv = members[m].inv /\ e.req = None
    BY <1>3, <2>1, NoticeTyped
  <2>3. e.inv <= group'.members[m].inv
    BY <1>3, <2>2
  <2>4. EnvelopeSound(e)'
    BY <2>2, <2>3 DEF EnvelopeSound
  <2>5. QED
    BY <2>1, <2>4
<1>7. WireSound' /\ OneAnswer'
  <2>1. \A e \in wire' : \/ e \in wire /\ (e.req = None \/ request'[e.req] = request[e.req])
                         \/ EnvelopeSound(e)' /\ e.req = None
    BY <1>2, <1>3, <1>6, NoticeTyped
  <2>2. QED
    BY <1>5, <2>1, WireKept
<1>8. RequestsSound'
  BY RequestKept DEF RequestsSound
<1>9. GroupSound'
  BY DEF GroupSound, IInv, Status
<1>10. RosterIsCurrent'
  BY <1>1 DEF RosterIsCurrent
<1>11. QED
  BY <1>5, <1>7, <1>8, <1>9, <1>10, MembersKept DEF IInv

LEMMA KeepCreate ==
  ASSUME IInv, NEW invitees \in SUBSET Members, Create(invitees)
  PROVE  IInv'
<1> DEFINE members == [m \in Members |-> IF m \in invitees
                                         THEN [status |-> "invited", inv |-> 1] ELSE NoMember]
<1>1. /\ members \in [Members -> MemberType]
      /\ \A m \in Members : members[m].status # "active" /\ 0 <= members[m].inv
  BY DEF MemberType, NoMember
<1>2. /\ group.state = "absent" /\ group' = [state |-> "open", members |-> members]
      /\ Publish(members)
      /\ wire' = IF stale' THEN wire ELSE wire \cup Invitations(members)
      /\ UNCHANGED <<posts, meta, copy, request, consented, audience>>
  BY DEF Create, member
<1> HIDE DEF members
<1>3. \A m \in Members : group.members[m] = NoMember
  BY <1>2 DEF IInv, GroupSound
<1>4. HostGrows
  BY <1>1, <1>2, <1>3 DEF HostGrows, Status, NoMember
<1>5. QED
  BY <1>1, <1>2, <1>4, KeepInvitations

LEMMA KeepAddMember ==
  ASSUME IInv, NEW m \in Members, AddMember(m)
  PROVE  IInv'
<1> DEFINE members == Invite(m)
<1>1. group.members \in [Members -> MemberType]
  BY DEF IInv, TypeOK, MemberType
<1>2. /\ members \in [Members -> MemberType]
      /\ \A n \in Members : members[n].status = "active" => Status(n) = "active"
      /\ \A n \in Members : Status(n) = "active" => members[n] = group.members[n]
      /\ \A n \in Members : group.members[n].inv <= members[n].inv
  BY <1>1 DEF Invite, MemberType, Status
<1>3. /\ group.state = "open" /\ group' = [group EXCEPT !.members = members]
      /\ Publish(members)
      /\ wire' = IF stale' THEN wire ELSE wire \cup Invitations(members)
      /\ UNCHANGED <<posts, meta, copy, request, consented, audience>>
  BY DEF AddMember, member
<1> HIDE DEF members
<1>4. /\ group'.members = members /\ group'.state = "open"
      /\ group' \in [state : {"absent", "open", "deleted"}, members : [Members -> MemberType]]
  BY <1>2, <1>3 DEF IInv, TypeOK
<1>5. HostGrows
  BY <1>2, <1>3, <1>4 DEF HostGrows
<1>6. QED
  BY <1>2, <1>3, <1>4, <1>5, KeepInvitations

\* A notice of the end repeats nothing that must be so.
LEMMA KeepDelete == ASSUME IInv, Delete PROVE IInv'
<1>1. /\ group.state \in {"open", "deleted"} /\ group' = [group EXCEPT !.state = "deleted"]
      /\ wire' = wire \cup {Notice("deleted", m, 0) : m \in Invited}
      /\ UNCHANGED <<roster, posts, meta, copy, request, faults, consented, audience, stale>>
  BY DEF Delete, member
<1>2. group'.members = group.members /\ group'.state = "deleted"
  BY <1>1 DEF IInv, TypeOK
<1>3. Invited \subseteq Members
  BY DEF Invited
<1>4. \A e \in wire' : e \in wire \/ \E m \in Members : e = Notice("deleted", m, 0)
  BY <1>1, <1>3
<1>5. wire' \subseteq EnvelopeType
  BY <1>4, NoticeTyped, EnvelopeTyped DEF IInv
<1>6. TypeOK'
  BY <1>1, <1>5 DEF IInv, TypeOK, EnvelopeType
<1>7. HostGrows
  BY <1>1, <1>2 DEF HostGrows, IInv, TypeOK
<1>8. \A e \in wire' : e \in wire \/ (EnvelopeSound(e)' /\ e.req = None)
  BY <1>4, NoticeTyped DEF EnvelopeSound
<1>9. WireSound' /\ OneAnswer'
  BY <1>1, <1>6, <1>7, <1>8, WireKept
<1>10. RequestsSound'
  BY <1>1, <1>7, RequestKept DEF RequestsSound
<1>11. GroupSound' /\ RosterIsCurrent'
  BY <1>1, <1>2 DEF IInv, GroupSound, RosterIsCurrent, Status, Snapshot
<1>12. QED
  BY <1>1, <1>6, <1>7, <1>9, <1>10, <1>11, MembersKept DEF IInv

\* A post is committed for those who asked to join before, and goes to no one else: who
\* is active asked.
LEMMA CommitFacts ==
  ASSUME IInv, NEW x \in Messages, x \notin posts, Commit(x), UNCHANGED <<group, consented>>
  PROVE  /\ HostGrows /\ posts' \subseteq Messages /\ x \in posts'
         /\ audience' \in [Messages -> SUBSET Members]
         /\ Relays(x) \subseteq EnvelopeType
         /\ \A e \in Relays(x) : EnvelopeSound(e)' /\ e.req = None
<1>1. /\ posts' \subseteq Messages /\ x \in posts'
      /\ audience' \in [Messages -> SUBSET Members]
  BY DEF Commit, IInv, TypeOK
<1>2. audience'[x] = consented /\ \A y \in posts : audience'[y] = audience[y]
  BY DEF Commit, IInv, TypeOK
<1>3. HostGrows
  BY <1>2 DEF HostGrows, Commit, IInv, TypeOK
<1>4. ASSUME NEW e \in Relays(x)
      PROVE  e \in EnvelopeType /\ EnvelopeSound(e)' /\ e.req = None
  <2>1. PICK m \in Members :
          Status(m) = "active" /\ e = Envelope("message", m, 0, x, None)
    BY <1>4 DEF Relays
  <2>2. /\ e \in EnvelopeType
        /\ e.kind = "message" /\ e.member = m /\ e.msg = x /\ e.req = None
    BY <2>1 DEF Envelope, EnvelopeType
  <2>3. m \in audience'[x]
    BY <1>2, <2>1 DEF IInv, GroupSound
  <2>4. QED
    BY <1>1, <2>2, <2>3 DEF EnvelopeSound
<1>5. QED
  BY <1>1, <1>3, <1>4

LEMMA KeepHostPost ==
  ASSUME IInv, NEW x \in Messages, HostPost(x)
  PROVE  IInv'
<1>1. /\ x \notin posts /\ Commit(x) /\ faults' \in 0..MaxFaults
      /\ wire' \subseteq wire \cup Relays(x)
      /\ UNCHANGED <<group, roster, stale, meta, copy, request, consented>>
  BY FaultTyped DEF HostPost, member, IInv, TypeOK
<1>2. /\ HostGrows /\ posts' \subseteq Messages /\ audience' \in [Messages -> SUBSET Members]
      /\ Relays(x) \subseteq EnvelopeType
      /\ \A e \in Relays(x) : EnvelopeSound(e)' /\ e.req = None
  BY <1>1, CommitFacts
<1>3. wire' \subseteq EnvelopeType
  BY <1>1, <1>2, EnvelopeTyped DEF IInv
<1>4. TypeOK'
  BY <1>1, <1>2, <1>3 DEF IInv, TypeOK, EnvelopeType
<1>5. WireSound' /\ OneAnswer'
  BY <1>1, <1>2, <1>4, WireKept
<1>6. RequestsSound'
  BY <1>1, <1>2, RequestKept DEF RequestsSound
<1>7. QED
  BY <1>1, <1>2, <1>4, <1>5, <1>6, MembersKept, HostKept DEF IInv

---------------------------------------------------------------------------
(* The host's public lane. *)

\* The request that waits for the answer to this envelope, and for no other, is told
\* something that is so; who waits for nothing is told nothing.
LEMMA ToldSound ==
  ASSUME IInv, HostGrows, NEW e \in wire, NEW ok \in BOOLEAN, Tell(e, ok), TypeOK',
         ok => IF e.kind = "accept"
               THEN group'.members[e.member] = [status |-> "active", inv |-> e.inv]
               ELSE e.msg \in posts',
         \A f \in wire' : (f \in wire /\ f # e) \/ (EnvelopeSound(f)' /\ f.req = None)
  PROVE  RequestsSound' /\ WireSound' /\ OneAnswer'
<1>1. EnvelopeSound(e) /\ e.req \in Requests \cup {None}
  BY EnvelopeTyped DEF IInv, WireSound
<1>2. \A r \in Requests : r # e.req => request'[r] = request[r]
  BY DEF Tell, IInv, TypeOK
<1>3. ASSUME NEW r \in Requests, r = e.req PROVE RequestSound(r)'
  <2>1. e.req # None
    BY <1>3, GroupAssumption
  <2>2. request'[r] = [request[r] EXCEPT !.step = "answered", !.ok = ok]
    BY <1>3, <2>1 DEF Tell, IInv, TypeOK
  <2>3. /\ request'[r].step = "answered" /\ request'[r].ok = ok /\ request'[r].kind = request[r].kind
        /\ request'[r].member = request[r].member /\ request'[r].inv = request[r].inv
        /\ request'[r].msg = request[r].msg
    BY <2>2 DEF IInv, TypeOK
  <2>4. \/ e.kind = "accept" /\ request[r].kind = "accept"
           /\ request[r].member = e.member /\ request[r].inv = e.inv
        \/ e.kind = "post" /\ request[r].kind \in {"post", "retry"} /\ request[r].msg = e.msg
    BY <1>1, <1>3, <2>1 DEF EnvelopeSound
  <2>5. QED
    BY <2>3, <2>4 DEF RequestSound
<1>4. RequestsSound'
  BY <1>2, <1>3, RequestKept DEF RequestsSound
<1>5. ASSUME NEW f \in wire, f # e PROVE f.req = None \/ request'[f.req] = request[f.req]
  <2>1. f.req \in Requests \cup {None}
    BY EnvelopeTyped DEF IInv
  <2>2. f.req # None => f.req # e.req
    BY <1>5 DEF IInv, OneAnswer
  <2>3. QED
    BY <1>2, <2>1, <2>2
<1>6. WireSound' /\ OneAnswer'
  BY <1>5, WireKept
<1>7. QED
  BY <1>4, <1>6

LEMMA TellTyped ==
  ASSUME TypeOK, NEW e \in wire, NEW ok \in BOOLEAN, Tell(e, ok)
  PROVE  request' \in [Requests -> RequestType]
<1>1. CASE e.req = None
  BY <1>1 DEF Tell, TypeOK, RequestType
<1>2. CASE e.req # None
  <2>1. PICK r \in Requests : r = e.req
    BY <1>2, EnvelopeTyped
  <2>2. request[r] \in RequestType
    BY DEF TypeOK, RequestType
  <2>3. [request[r] EXCEPT !.step = "answered", !.ok = ok] \in RequestType
    BY <2>2 DEF RequestType
  <2>4. request' = [request EXCEPT ![r] = [request[r] EXCEPT !.step = "answered", !.ok = ok]]
    BY <1>2, <2>1 DEF Tell
  <2>5. QED
    BY <2>3, <2>4 DEF TypeOK, RequestType
<1>3. QED
  BY <1>1, <1>2

\* Either answer leaves the request told, of a fault or of the result.
LEMMA AnswerTells ==
  ASSUME TypeOK, NEW e, NEW ok \in BOOLEAN, Answer(e, ok) \/ NoAnswer(e)
  PROVE  /\ faults' \in 0..MaxFaults
         /\ \E told \in BOOLEAN : Tell(e, told) /\ (told => ok)
BY FaultTyped DEF Answer, NoAnswer, TypeOK

\* The host settles the invitation of one member.
LEMMA StatusSet ==
  ASSUME TypeOK, NEW m \in Members, NEW status \in {"active", "declined"},
         group' = [group EXCEPT !.members[m].status = status]
  PROVE  /\ group' \in [state : {"absent", "open", "deleted"}, members : [Members -> MemberType]]
         /\ group'.state = group.state
         /\ group'.members[m] = [status |-> status, inv |-> group.members[m].inv]
         /\ \A n \in Members : n # m => group'.members[n] = group.members[n]
<1> DEFINE record == [group.members[m] EXCEPT !.status = status]
           members == [group.members EXCEPT ![m] = record]
<1>1. group.members \in [Members -> MemberType] /\ group.members[m] \in MemberType
  BY DEF TypeOK, MemberType
<1>2. record \in MemberType /\ record = [status |-> status, inv |-> group.members[m].inv]
  BY <1>1 DEF MemberType
<1>3. members \in [Members -> MemberType]
  BY <1>1, <1>2
<1>4. group' = [group EXCEPT !.members = members]
  BY DEF TypeOK
<1> HIDE DEF members, record
<1>5. /\ group' \in [state : {"absent", "open", "deleted"}, members : [Members -> MemberType]]
      /\ group'.state = group.state /\ group'.members = members
  BY <1>3, <1>4 DEF TypeOK
<1>6. QED
  BY <1>1, <1>2, <1>5 DEF members

LEMMA KeepAccept ==
  ASSUME IInv, NEW e \in wire, HandleAccept(e)
  PROVE  IInv'
<1>0. PICK m \in Members : m = e.member
  BY EnvelopeTyped DEF IInv
<1>1. /\ e.kind = "accept" /\ wire' = wire \ {e} /\ m \in consented
      /\ UNCHANGED <<posts, audience, meta, copy, consented>>
  BY <1>0 DEF HandleAccept, member, IInv, WireSound, EnvelopeSound
<1>2. wire' \subseteq EnvelopeType
  BY <1>1, EnvelopeTyped DEF IInv
<1>3. CASE AcceptAllowed(e)
  <2>1. /\ group.state = "open" /\ Status(m) = "invited" /\ group.members[m].inv = e.inv
        /\ group' = [group EXCEPT !.members[m].status = "active"]
        /\ \/ roster' = Snapshot(group'.members) /\ stale' = FALSE
           \/ UNCHANGED roster /\ stale' = TRUE
        /\ Answer(e, TRUE) \/ NoAnswer(e)
    BY <1>0, <1>3 DEF HandleAccept, AcceptAllowed
  <2>2. PICK told \in BOOLEAN : Tell(e, told)
    BY <2>1, AnswerTells DEF IInv
  <2>3. faults' \in 0..MaxFaults /\ request' \in [Requests -> RequestType]
    BY <2>1, <2>2, AnswerTells, TellTyped DEF IInv
  <2>4. /\ group' \in [state : {"absent", "open", "deleted"}, members : [Members -> MemberType]]
        /\ group'.state = "open"
        /\ group'.members[m] = [status |-> "active", inv |-> e.inv]
        /\ \A n \in Members : n # m => group'.members[n] = group.members[n]
    BY <2>1, StatusSet DEF IInv
  <2>5. roster' \subseteq Members /\ stale' \in BOOLEAN
    BY <2>1 DEF Snapshot, IInv, TypeOK
  <2>6. TypeOK'
    BY <1>1, <1>2, <2>3, <2>4, <2>5 DEF IInv, TypeOK, RequestType, MemberType, EnvelopeType
  <2>7. HostGrows
    BY <1>1, <2>1, <2>4 DEF HostGrows, Status, IInv, TypeOK
  <2>8. RequestsSound' /\ WireSound' /\ OneAnswer'
    BY <1>0, <1>1, <2>2, <2>4, <2>6, <2>7, ToldSound
  <2>9. GroupSound' /\ RosterIsCurrent'
    BY <1>1, <2>1, <2>4 DEF IInv, GroupSound, RosterIsCurrent, Status
  <2>10. QED
    BY <1>1, <2>6, <2>7, <2>8, <2>9, MembersKept DEF IInv
<1>4. CASE ~AcceptAllowed(e)
  <2>1. Answer(e, Repeated(e)) /\ UNCHANGED <<group, roster, stale>>
    BY <1>4 DEF HandleAccept
  <2>2. PICK told \in BOOLEAN : Tell(e, told) /\ (told => Repeated(e))
    BY <2>1, AnswerTells DEF IInv, Repeated
  <2>3. faults' \in 0..MaxFaults /\ request' \in [Requests -> RequestType]
    BY <2>1, <2>2, AnswerTells, TellTyped DEF IInv, Repeated
  <2>4. TypeOK'
    BY <1>1, <1>2, <2>1, <2>3 DEF IInv, TypeOK, RequestType, EnvelopeType
  <2>5. HostGrows
    BY <1>1, <2>1, NothingGrows DEF IInv
  <2>6. told => group'.members[e.member] = [status |-> "active", inv |-> e.inv]
    BY <2>1, <2>2 DEF Repeated
  <2>7. RequestsSound' /\ WireSound' /\ OneAnswer'
    BY <1>1, <2>2, <2>4, <2>5, <2>6, ToldSound
  <2>8. QED
    BY <1>1, <2>1, <2>4, <2>5, <2>7, MembersKept, HostKept DEF IInv
<1>5. QED
  BY <1>3, <1>4

LEMMA KeepDecline ==
  ASSUME IInv, NEW e \in wire, HandleDecline(e)
  PROVE  IInv'
<1>0. PICK m \in Members : m = e.member
  BY EnvelopeTyped DEF IInv
<1>1. /\ wire' = wire \ {e}
      /\ UNCHANGED <<posts, audience, meta, copy, request, consented>>
  BY DEF HandleDecline, member
<1>2. wire' \subseteq EnvelopeType
  BY <1>1, EnvelopeTyped DEF IInv
<1>3. CASE DeclineAllowed(e)
  <2>1. /\ group.state = "open" /\ Status(m) = "invited"
        /\ group' = [group EXCEPT !.members[m].status = "declined"]
        /\ Publish(group'.members)
    BY <1>0, <1>3 DEF HandleDecline, DeclineAllowed
  <2>2. /\ roster' \subseteq Members /\ stale' \in BOOLEAN /\ faults' \in 0..MaxFaults
        /\ ~stale' => roster' = Snapshot(group'.members)
    BY <2>1, PublishFacts DEF IInv
  <2>3. /\ group' \in [state : {"absent", "open", "deleted"}, members : [Members -> MemberType]]
        /\ group'.state = "open"
        /\ group'.members[m] = [status |-> "declined", inv |-> group.members[m].inv]
        /\ \A n \in Members : n # m => group'.members[n] = group.members[n]
    BY <2>1, StatusSet DEF IInv
  <2>4. TypeOK'
    BY <1>1, <1>2, <2>2, <2>3 DEF IInv, TypeOK, MemberType, EnvelopeType
  <2>5. HostGrows
    BY <1>1, <2>1, <2>3 DEF HostGrows, Status, IInv, TypeOK
  <2>6. RequestsSound'
    BY <1>1, <2>5, RequestKept DEF RequestsSound
  <2>7. WireSound' /\ OneAnswer'
    BY <1>1, <2>4, <2>5, WireKept
  <2>8. GroupSound' /\ RosterIsCurrent'
    BY <1>1, <2>2, <2>3 DEF IInv, GroupSound, RosterIsCurrent, Status
  <2>9. QED
    BY <1>1, <2>4, <2>5, <2>6, <2>7, <2>8, MembersKept DEF IInv
<1>4. CASE ~DeclineAllowed(e)
  <2>1. UNCHANGED <<group, roster, stale, faults>>
    BY <1>4 DEF HandleDecline
  <2>2. TypeOK'
    BY <1>1, <1>2, <2>1 DEF IInv, TypeOK, EnvelopeType
  <2>3. HostGrows
    BY <1>1, <2>1, NothingGrows DEF IInv
  <2>4. RequestsSound'
    BY <1>1, <2>3, RequestKept DEF RequestsSound
  <2>5. WireSound' /\ OneAnswer'
    BY <1>1, <2>2, <2>3, WireKept
  <2>6. QED
    BY <1>1, <2>1, <2>2, <2>3, <2>4, <2>5, MembersKept, HostKept DEF IInv
<1>5. QED
  BY <1>3, <1>4

LEMMA KeepPost ==
  ASSUME IInv, NEW e \in wire, HandlePost(e)
  PROVE  IInv'
<1>1. /\ e.kind = "post" /\ e.msg \in Messages
      /\ UNCHANGED <<group, roster, stale, meta, copy, consented>>
  BY EnvelopeTyped DEF HandlePost, member, IInv
<1>2. CASE e.msg \notin posts /\ Commit(e.msg)
  <2>1. wire' \subseteq (wire \ {e}) \cup Relays(e.msg) /\ (Answer(e, TRUE) \/ NoAnswer(e))
    BY <1>2 DEF HandlePost, Commit, Answer
  <2>2. /\ HostGrows /\ posts' \subseteq Messages /\ e.msg \in posts'
        /\ audience' \in [Messages -> SUBSET Members]
        /\ Relays(e.msg) \subseteq EnvelopeType
        /\ \A f \in Relays(e.msg) : EnvelopeSound(f)' /\ f.req = None
    BY <1>1, <1>2, CommitFacts
  <2>3. PICK told \in BOOLEAN : Tell(e, told)
    BY <2>1, AnswerTells DEF IInv
  <2>4. faults' \in 0..MaxFaults /\ request' \in [Requests -> RequestType]
    BY <2>1, <2>3, AnswerTells, TellTyped DEF IInv
  <2>5. wire' \subseteq EnvelopeType
    BY <2>1, <2>2, EnvelopeTyped DEF IInv
  <2>6. TypeOK'
    BY <1>1, <2>2, <2>4, <2>5 DEF IInv, TypeOK, RequestType, EnvelopeType
  <2>7. \A f \in wire' : (f \in wire /\ f # e) \/ (EnvelopeSound(f)' /\ f.req = None)
    BY <2>1, <2>2
  <2>8. RequestsSound' /\ WireSound' /\ OneAnswer'
    BY <1>1, <2>2, <2>3, <2>6, <2>7, ToldSound
  <2>9. QED
    BY <1>1, <2>2, <2>6, <2>8, MembersKept, HostKept DEF IInv
<1>3. CASE wire' = wire \ {e} /\ Answer(e, FALSE) /\ UNCHANGED <<posts, audience>>
  <2>1. PICK told \in BOOLEAN : Tell(e, told) /\ ~told
    BY <1>3, AnswerTells DEF IInv
  <2>2. faults' \in 0..MaxFaults /\ request' \in [Requests -> RequestType]
    BY <1>3, <2>1, AnswerTells, TellTyped DEF IInv
  <2>3. TypeOK'
    BY <1>1, <1>3, <2>2 DEF IInv, TypeOK, RequestType
  <2>4. HostGrows
    BY <1>1, <1>3, NothingGrows DEF IInv
  <2>5. RequestsSound' /\ WireSound' /\ OneAnswer'
    BY <1>3, <2>1, <2>3, <2>4, ToldSound
  <2>6. QED
    BY <1>1, <1>3, <2>3, <2>4, <2>5, MembersKept, HostKept DEF IInv
<1>4. QED
  BY <1>2, <1>3 DEF HandlePost

LEMMA KeepDuplicate ==
  ASSUME IInv, NEW e \in wire, HandleDuplicate(e)
  PROVE  IInv'
<1>1. /\ e.kind = "post" /\ e.msg \in posts /\ wire' = wire \ {e} /\ Answer(e, TRUE)
      /\ UNCHANGED <<group, roster, posts, audience, stale, meta, copy, consented>>
  BY DEF HandleDuplicate, member, host
<1>2. PICK told \in BOOLEAN : Tell(e, told)
  BY <1>1, AnswerTells DEF IInv
<1>3. faults' \in 0..MaxFaults /\ request' \in [Requests -> RequestType]
  BY <1>1, <1>2, AnswerTells, TellTyped DEF IInv
<1>4. TypeOK'
  BY <1>1, <1>3 DEF IInv, TypeOK, RequestType
<1>5. HostGrows
  BY <1>1, NothingGrows DEF IInv
<1>6. RequestsSound' /\ WireSound' /\ OneAnswer'
  BY <1>1, <1>2, <1>4, <1>5, ToldSound
<1>7. QED
  BY <1>1, <1>4, <1>5, <1>6, MembersKept, HostKept DEF IInv

---------------------------------------------------------------------------
(* A member's public lane. *)

\* An envelope no request waits on the host for is handled at the member.
LEMMA HandledByMember ==
  ASSUME IInv, NEW e \in wire, wire' = wire \ {e},
         UNCHANGED <<group, roster, posts, audience, stale, request, faults, consented>>,
         meta' \in [Members -> MetaType],
         copy' \in [Members -> CopyType]
  PROVE  /\ TypeOK' /\ GroupSound' /\ RosterIsCurrent' /\ HostGrows
         /\ RequestsSound' /\ WireSound' /\ OneAnswer'
<1>1. TypeOK'
  BY DEF IInv, TypeOK, MetaType, CopyType
<1>2. HostGrows
  BY NothingGrows DEF IInv
<1>3. WireSound' /\ OneAnswer'
  BY <1>1, <1>2, WireKept
<1>4. RequestsSound'
  BY <1>2, RequestKept DEF RequestsSound
<1>5. QED
  BY <1>1, <1>2, <1>3, <1>4, HostKept

LEMMA MembersTyped ==
  ASSUME TypeOK
  PROVE  meta \in [Members -> MetaType] /\ copy \in [Members -> CopyType]
BY DEF TypeOK, MetaType, CopyType

LEMMA MergeFacts ==
  ASSUME NEW old \in MetaType, NEW inv \in Nat
  PROVE  /\ Merge(old, inv) \in MetaType
         /\ Merge(old, inv).state = "accepted" => old.state = "accepted"
         /\ old.state = "accepted" => Merge(old, inv).state = "accepted"
         /\ old.closed => Merge(old, inv).closed
         /\ \/ Merge(old, inv) = old
            \/ Merge(old, inv).inv = inv /\ inv >= old.inv
         /\ old.state = "declined" /\ Merge(old, inv).state # "declined"
              => Merge(old, inv).state = "pending" /\ Merge(old, inv).inv > old.inv
<1>1. CASE old.closed \/ inv < old.inv
  BY <1>1 DEF Merge
<1>2. CASE ~old.closed /\ ~(inv < old.inv)
  <2> DEFINE state == IF old.state = "none" \/ (old.state = "declined" /\ old.inv # inv)
                      THEN "pending" ELSE old.state
             new == [state |-> state, inv |-> inv, closed |-> old.closed]
  <2>1. Merge(old, inv) = new
    BY <1>2 DEF Merge, MetaType
  <2>2. new \in MetaType /\ new.inv = inv /\ new.closed = old.closed /\ new.state = state
    BY DEF MetaType
  <2>3. old.inv \in Nat /\ inv >= old.inv
    BY <1>2 DEF MetaType
  <2>4. /\ state = "accepted" <=> old.state = "accepted"
        /\ old.state = "declined" /\ state # "declined" => state = "pending" /\ inv # old.inv
    OBVIOUS
  <2> HIDE DEF new, state
  <2>5. QED
    BY <2>1, <2>2, <2>3, <2>4
<1>3. QED
  BY <1>1, <1>2

\* An older invitation changes nothing, and a newer one nothing of who joined: it would
\* be newer than the record.
LEMMA KeepAdded ==
  ASSUME IInv, NEW e \in wire, HandleAdded(e)
  PROVE  IInv'
<1>0. PICK m \in Members : m = e.member
  BY EnvelopeTyped DEF IInv
<1>1. /\ e.kind = "added" /\ wire' = wire \ {e} /\ e.inv \in Nat
      /\ meta' = [meta EXCEPT ![m] = Merge(meta[m], e.inv)]
      /\ UNCHANGED <<group, roster, posts, audience, stale, copy, request, faults, consented>>
  BY <1>0, EnvelopeTyped DEF HandleAdded, host, IInv
<1> DEFINE new == Merge(meta[m], e.inv)
<1>2. meta[m] \in MetaType
  BY MembersTyped DEF IInv
<1>3. /\ new \in MetaType
      /\ new.state = "accepted" => meta[m].state = "accepted"
      /\ new = meta[m] \/ (new.inv = e.inv /\ e.inv >= meta[m].inv)
  BY <1>1, <1>2, MergeFacts
<1> HIDE DEF new
<1>4. /\ meta' \in [Members -> MetaType] /\ meta'[m] = new
      /\ \A n \in Members : n # m => meta'[n] = meta[n]
  BY <1>1, <1>3, MembersTyped DEF IInv, new
<1>5. /\ TypeOK' /\ GroupSound' /\ RosterIsCurrent' /\ HostGrows
      /\ RequestsSound' /\ WireSound' /\ OneAnswer'
  BY <1>1, <1>4, HandledByMember, MembersTyped DEF IInv
<1>6. JoinedIsActive'
  <2>1. SUFFICES ASSUME NEW n \in Members, meta'[n].state = "accepted"
                 PROVE  group.members[n] = [status |-> "active", inv |-> meta'[n].inv]
    BY <1>1 DEF JoinedIsActive
  <2>2. CASE n # m
    BY <1>4, <2>1, <2>2 DEF IInv, JoinedIsActive
  <2>3. CASE n = m
    <3>1. group.members[m] = [status |-> "active", inv |-> meta[m].inv]
      BY <1>3, <1>4, <2>1, <2>3 DEF IInv, JoinedIsActive
    <3>2. e.inv <= group.members[m].inv
      BY <1>0, <1>1 DEF IInv, WireSound, EnvelopeSound
    <3>3. new.inv = meta[m].inv
      BY <1>1, <1>2, <1>3, <3>1, <3>2 DEF MetaType
    <3>4. QED
      BY <1>4, <2>3, <3>1, <3>3
  <2>4. QED
    BY <2>2, <2>3
<1>7. DeliveredIsCommitted' /\ OnlyLaterPosts'
  BY <1>1 DEF IInv, DeliveredIsCommitted, OnlyLaterPosts
<1>8. QED
  BY <1>5, <1>6, <1>7 DEF IInv

LEMMA KeepDeleted ==
  ASSUME IInv, NEW e \in wire, HandleDeleted(e)
  PROVE  IInv'
<1>0. PICK m \in Members : m = e.member
  BY EnvelopeTyped DEF IInv
<1> DEFINE new == Tombstone(meta[m])
<1>1. /\ wire' = wire \ {e} /\ meta[m] \in MetaType
      /\ UNCHANGED <<group, roster, posts, audience, stale, copy, request, faults, consented>>
  BY MembersTyped DEF HandleDeleted, host, IInv
<1>2. new \in MetaType /\ new.inv = meta[m].inv /\ (new.state = "accepted" => meta[m].state = "accepted")
  BY <1>1 DEF MetaType, Tombstone
<1>3. meta' = [meta EXCEPT ![m] = new]
  BY <1>0 DEF HandleDeleted
<1> HIDE DEF new
<1>4. /\ meta' \in [Members -> MetaType] /\ meta'[m] = new
      /\ \A n \in Members : n # m => meta'[n] = meta[n]
  BY <1>2, <1>3, MembersTyped DEF IInv
<1>5. /\ TypeOK' /\ GroupSound' /\ RosterIsCurrent' /\ HostGrows
      /\ RequestsSound' /\ WireSound' /\ OneAnswer'
  BY <1>1, <1>4, HandledByMember, MembersTyped DEF IInv
<1>6. JoinedIsActive'
  BY <1>1, <1>2, <1>4 DEF IInv, JoinedIsActive
<1>7. DeliveredIsCommitted' /\ OnlyLaterPosts'
  BY <1>1 DEF IInv, DeliveredIsCommitted, OnlyLaterPosts
<1>8. QED
  BY <1>5, <1>6, <1>7 DEF IInv

LEMMA KeepMessage ==
  ASSUME IInv, NEW e \in wire, HandleMessage(e)
  PROVE  IInv'
<1>0. PICK m \in Members, x \in Messages : m = e.member /\ x = e.msg
  BY EnvelopeTyped DEF IInv
<1>1. /\ wire' = wire \ {e} /\ e.kind = "message"
      /\ UNCHANGED <<group, roster, posts, audience, stale, meta, request, faults, consented>>
      /\ copy' = copy \/ copy' = [copy EXCEPT ![m][x] = "in"]
  BY <1>0 DEF HandleMessage, host
<1>2. x \in posts /\ m \in audience[x]
  BY <1>0, <1>1 DEF IInv, WireSound, EnvelopeSound
<1>3. /\ copy' \in [Members -> CopyType]
      /\ \A n \in Members, y \in Messages :
           \/ copy'[n][y] = copy[n][y]
           \/ n = m /\ y = x /\ copy'[n][y] = "in"
  <2>1. copy \in [Members -> CopyType]
    BY MembersTyped DEF IInv
  <2>2. QED
    BY <1>1, <2>1 DEF CopyType
<1>4. /\ TypeOK' /\ GroupSound' /\ RosterIsCurrent' /\ HostGrows
      /\ RequestsSound' /\ WireSound' /\ OneAnswer'
  BY <1>1, <1>3, HandledByMember, MembersTyped DEF IInv
<1>5. JoinedIsActive'
  BY <1>1 DEF IInv, JoinedIsActive
<1>6. DeliveredIsCommitted' /\ OnlyLaterPosts'
  BY <1>1, <1>2, <1>3 DEF IInv, DeliveredIsCommitted, OnlyLaterPosts
<1>7. QED
  BY <1>4, <1>5, <1>6 DEF IInv

---------------------------------------------------------------------------
(* A member's owner. *)

\* A request starts, and one envelope asks the host for its answer.
LEMMA Starts ==
  ASSUME IInv, NEW r \in Requests, request[r].step = "idle",
         NEW update \in RequestType, update.step = "await", update.ok = FALSE, Set(r, update),
         NEW e \in EnvelopeType, e.req = r, wire' = wire \cup {e},
         e.kind \in {"accept", "post"},
         e.kind = "accept" => /\ e.member \in consented'
                              /\ update.kind = "accept" /\ update.member = e.member
                              /\ update.inv = e.inv,
         e.kind = "post" => update.kind \in {"post", "retry"} /\ update.msg = e.msg,
         UNCHANGED <<group, roster, posts, audience, stale, meta, copy, faults>>,
         consented \subseteq consented', consented' \subseteq Members
  PROVE  IInv'
<1>1. /\ request' \in [Requests -> RequestType] /\ request'[r] = update
      /\ \A q \in Requests : q # r => request'[q] = request[q]
  BY RequestSet DEF IInv
<1>2. TypeOK'
  BY <1>1 DEF IInv, TypeOK, RequestType, EnvelopeType
<1>3. HostGrows
  BY NothingGrows DEF IInv
<1>4. \A f \in wire : f.req # r
  BY GroupAssumption DEF IInv, WireSound, EnvelopeSound
<1>5. \A f \in wire : f.req = None \/ request'[f.req] = request[f.req]
  BY <1>1, <1>4, EnvelopeTyped DEF IInv
<1>6. EnvelopeSound(e)'
  <2>1. request'[e.req] = update
    BY <1>1
  <2>2. QED
    BY <2>1 DEF EnvelopeSound
<1>7. WireSound' /\ OneAnswer'
  BY <1>2, <1>3, <1>4, <1>5, <1>6, WireKept
<1>8. RequestsSound'
  <2>1. RequestSound(r)'
    BY <1>1 DEF RequestSound
  <2>2. QED
    BY <1>1, <1>3, <2>1, RequestKept DEF RequestsSound
<1>9. QED
  BY <1>2, <1>3, <1>7, <1>8, MembersKept, HostKept DEF IInv

LEMMA KeepBeginAccept ==
  ASSUME IInv, NEW r \in Requests, NEW m \in Members, BeginAccept(r, m)
  PROVE  IInv'
<1> DEFINE u == [Idle EXCEPT !.step = "await", !.kind = "accept", !.member = m,
                             !.inv = meta[m].inv]
           e == Envelope("accept", m, meta[m].inv, Idle.msg, r)
<1>1. /\ request[r].step = "idle" /\ Set(r, u) /\ wire' = wire \cup {e}
      /\ consented' = consented \cup {m}
      /\ UNCHANGED <<group, roster, posts, audience, stale, meta, copy, faults>>
  BY DEF BeginAccept, host, member
<1>2. meta[m].inv \in Nat
  BY DEF IInv, TypeOK
<1>3. /\ u \in RequestType /\ u.step = "await" /\ u.ok = FALSE /\ u.kind = "accept"
      /\ u.member = m /\ u.inv = meta[m].inv
  BY <1>2, IdleTyped DEF RequestType
<1>4. /\ e \in EnvelopeType /\ e.req = r /\ e.kind = "accept" /\ e.member = m
      /\ e.inv = meta[m].inv
  BY <1>2, IdleTyped DEF Envelope, EnvelopeType
<1> HIDE DEF u, e
<1>5. consented \subseteq consented' /\ consented' \subseteq Members /\ e.member \in consented'
  BY <1>1, <1>4 DEF IInv, TypeOK
<1>6. QED
  BY <1>1, <1>3, <1>4, <1>5, Starts

\* A post, and a retry of one, differ in what the answer does.
LEMMA KeepPosting ==
  ASSUME IInv, NEW r \in Requests, NEW x \in Messages, SendPost(r, x) \/ RetryPost(r, x)
  PROVE  IInv'
<1>1. PICK kind \in {"post", "retry"} :
        Set(r, [Idle EXCEPT !.step = "await", !.kind = kind, !.member = Author[x], !.msg = x])
  BY DEF SendPost, RetryPost
<1>2. PICK m \in Members : m = Author[x]
  BY GroupAssumption DEF SendPost, RetryPost
<1> DEFINE u == [Idle EXCEPT !.step = "await", !.kind = kind, !.member = m, !.msg = x]
           e == Envelope("post", m, 0, x, r)
<1>3. /\ request[r].step = "idle" /\ Set(r, u) /\ wire' = wire \cup {e}
      /\ UNCHANGED <<group, roster, posts, audience, stale, meta, copy, faults, consented>>
  BY <1>1, <1>2 DEF SendPost, RetryPost, host, member
<1>4. /\ u \in RequestType /\ u.step = "await" /\ u.ok = FALSE /\ u.kind = kind /\ u.msg = x
  BY IdleTyped DEF RequestType
<1>5. e \in EnvelopeType /\ e.req = r /\ e.kind = "post" /\ e.msg = x
  BY DEF Envelope, EnvelopeType
<1> HIDE DEF u, e
<1>6. consented' \subseteq Members
  BY <1>3 DEF IInv, TypeOK
<1>7. QED
  BY <1>3, <1>4, <1>5, <1>6, Starts

\* A request that waits for no answer moves on, keeping what it was told or forgetting it.
LEMMA MovesOn ==
  ASSUME IInv, NEW r \in Requests, request[r].step # "await",
         NEW update \in RequestType, Set(r, update),
         ~update.ok \/ \E s \in {"answered", "store"} : update = [request[r] EXCEPT !.step = s],
         update.step = "store" => update.kind = "post",
         UNCHANGED <<group, roster, posts, audience, stale, wire, faults, consented>>,
         meta' \in [Members -> MetaType],
         copy' \in [Members -> CopyType]
  PROVE  /\ TypeOK' /\ GroupSound' /\ RosterIsCurrent' /\ HostGrows
         /\ RequestsSound' /\ WireSound' /\ OneAnswer'
<1>1. /\ request' \in [Requests -> RequestType] /\ request'[r] = update
      /\ \A q \in Requests : q # r => request'[q] = request[q]
  BY RequestSet DEF IInv
<1>2. TypeOK'
  BY <1>1 DEF IInv, TypeOK, RequestType, MetaType, CopyType
<1>3. HostGrows
  BY NothingGrows DEF IInv
<1>4. \A f \in wire : f.req = None \/ request'[f.req] = request[f.req]
  <2>1. SUFFICES ASSUME NEW f \in wire, f.req # None PROVE request'[f.req] = request[f.req]
    OBVIOUS
  <2>2. f.req \in Requests /\ request[f.req].step = "await"
    BY <2>1, EnvelopeTyped DEF IInv, WireSound, EnvelopeSound
  <2>3. QED
    BY <1>1, <2>2
<1>5. WireSound' /\ OneAnswer'
  BY <1>2, <1>3, <1>4, WireKept
<1>6. RequestSound(r)'
  <2>1. CASE ~update.ok
    BY <1>1, <2>1 DEF RequestSound
  <2>2. CASE \E s \in {"answered", "store"} : update = [request[r] EXCEPT !.step = s]
    <3>1. /\ update.ok = request[r].ok /\ update.kind = request[r].kind
          /\ update.member = request[r].member /\ update.inv = request[r].inv
          /\ update.msg = request[r].msg
      BY <2>2 DEF IInv, TypeOK
    <3>2. RequestSound(r)
      BY DEF IInv, RequestsSound
    <3>3. QED
      BY <1>1, <3>1, <3>2 DEF RequestSound
  <2>3. QED
    BY <2>1, <2>2
<1>7. RequestsSound'
  BY <1>1, <1>3, <1>6, RequestKept DEF RequestsSound
<1>8. QED
  BY <1>2, <1>3, <1>5, <1>7, HostKept

\* The acceptance is recorded for the invitation the host agreed to.
LEMMA KeepFinishAccept ==
  ASSUME IInv, NEW r \in Requests, FinishAccept(r)
  PROVE  IInv'
<1>0. PICK m \in Members : m = request[r].member
  BY RequestTyped DEF IInv
<1> DEFINE new == [meta[m] EXCEPT !.state = "accepted"]
<1>1. /\ request[r].step = "answered" /\ request[r].kind = "accept" /\ Set(r, Idle)
      /\ UNCHANGED <<group, roster, posts, audience, stale, copy, wire, faults, consented>>
  BY DEF FinishAccept, host
<1>2. \/ UNCHANGED meta
      \/ request[r].ok /\ meta[m].inv = request[r].inv /\ meta' = [meta EXCEPT ![m] = new]
  BY <1>0 DEF FinishAccept, MayDecide, IInv, TypeOK
<1>3. new \in MetaType /\ new.state = "accepted" /\ new.inv = meta[m].inv
  <2>1. meta[m] \in MetaType
    BY MembersTyped DEF IInv
  <2>2. QED
    BY <2>1 DEF MetaType
<1> HIDE DEF new
<1>4. meta' \in [Members -> MetaType]
  BY <1>2, <1>3, MembersTyped DEF IInv
<1>5. /\ TypeOK' /\ GroupSound' /\ RosterIsCurrent' /\ HostGrows
      /\ RequestsSound' /\ WireSound' /\ OneAnswer'
  BY <1>1, <1>4, IdleTyped, MovesOn, MembersTyped DEF IInv
<1>6. JoinedIsActive'
  <2>1. CASE UNCHANGED meta
    BY <1>1, <2>1 DEF IInv, JoinedIsActive
  <2>2. CASE /\ request[r].ok /\ meta[m].inv = request[r].inv
             /\ meta' = [meta EXCEPT ![m] = new]
    <3>1. group.members[m] = [status |-> "active", inv |-> request[r].inv]
      BY <1>0, <1>1, <2>2 DEF IInv, RequestsSound, RequestSound
    <3>2. meta'[m] = new /\ \A n \in Members : n # m => meta'[n] = meta[n]
      BY <2>2, MembersTyped DEF IInv
    <3>3. QED
      BY <1>1, <1>3, <2>2, <3>1, <3>2 DEF IInv, JoinedIsActive
  <2>3. QED
    BY <1>2, <2>1, <2>2
<1>7. DeliveredIsCommitted' /\ OnlyLaterPosts'
  BY <1>1 DEF IInv, DeliveredIsCommitted, OnlyLaterPosts
<1>8. QED
  BY <1>5, <1>6, <1>7 DEF IInv

LEMMA KeepDeclineInvitation ==
  ASSUME IInv, NEW m \in Members, Decline(m)
  PROVE  IInv'
<1> DEFINE new == [meta[m] EXCEPT !.state = "declined"]
<1>0. meta[m] \in MetaType /\ meta[m].inv \in Nat
  BY MembersTyped DEF IInv, MetaType
<1>3. PICK e \in EnvelopeType :
        e = Notice("decline", m, meta[m].inv) /\ e.kind = "decline" /\ e.req = None
  BY <1>0, NoticeTyped
<1>1. /\ meta' = [meta EXCEPT ![m] = new] /\ wire' = wire \cup {e}
      /\ UNCHANGED <<group, roster, posts, audience, stale, copy, request, faults, consented>>
  BY <1>3 DEF Decline, host
<1>2. new \in MetaType /\ new.state = "declined"
  BY <1>0 DEF MetaType
<1> HIDE DEF new
<1>4. /\ meta' \in [Members -> MetaType] /\ meta'[m] = new
      /\ \A n \in Members : n # m => meta'[n] = meta[n]
  BY <1>1, <1>2, MembersTyped DEF IInv
<1>5. TypeOK'
  BY <1>1, <1>3, <1>4 DEF IInv, TypeOK, EnvelopeType, MetaType
<1>6. HostGrows
  BY <1>1, NothingGrows DEF IInv
<1>7. EnvelopeSound(e)'
  BY <1>3 DEF EnvelopeSound
<1>8. WireSound' /\ OneAnswer'
  BY <1>1, <1>3, <1>5, <1>6, <1>7, WireKept
<1>9. RequestsSound'
  BY <1>1, <1>6, RequestKept DEF RequestsSound
<1>10. JoinedIsActive'
  BY <1>1, <1>2, <1>4 DEF IInv, JoinedIsActive
<1>11. DeliveredIsCommitted' /\ OnlyLaterPosts'
  BY <1>1 DEF IInv, DeliveredIsCommitted, OnlyLaterPosts
<1>12. QED
  BY <1>1, <1>5, <1>8, <1>9, <1>10, <1>11, HostKept DEF IInv

LEMMA KeepCheckOpen ==
  ASSUME IInv, NEW r \in Requests, CheckOpen(r)
  PROVE  IInv'
<1>1. /\ request[r].step = "answered" /\ request[r].kind = "post"
      /\ UNCHANGED <<group, roster, posts, audience, stale, meta, copy, wire, faults, consented>>
  BY DEF CheckOpen, host, member
<1> DEFINE u == [request[r] EXCEPT !.step = "store"]
<1>2. u \in RequestType /\ u.kind = "post"
  <2>1. request[r] \in RequestType
    BY DEF IInv, TypeOK, RequestType
  <2>2. QED
    BY <1>1, <2>1 DEF RequestType
<1>3. Set(r, Idle) \/ Set(r, u)
  BY DEF CheckOpen
<1>4. /\ TypeOK' /\ GroupSound' /\ RosterIsCurrent' /\ HostGrows
      /\ RequestsSound' /\ WireSound' /\ OneAnswer'
  BY <1>1, <1>2, <1>3, IdleTyped, MovesOn, MembersTyped DEF IInv
<1>5. QED
  BY <1>1, <1>4, MembersKept DEF IInv

\* A copy becomes delivered when the host said so, and is otherwise what it was or the
\* author's own.
LEMMA CopySettled ==
  ASSUME IInv, NEW r \in Requests, request[r].step # "await", request[r].kind # "accept",
         Set(r, Idle), UNCHANGED <<group, roster, posts, audience, stale, meta, wire, faults, consented>>,
         NEW status \in {"none", "in", "failed", "delivered"},
         LET m == request[r].member  x == request[r].msg IN
         /\ copy' = [copy EXCEPT ![m][x] = status]
         /\ status = "in" => copy[m][x] = "in"
         /\ status = "delivered" => request[r].ok \/ copy[m][x] = "delivered"
  PROVE  IInv'
<1>0. PICK m \in Members, x \in Messages : m = request[r].member /\ x = request[r].msg
  BY RequestTyped DEF IInv
<1>1. copy \in [Members -> CopyType]
  BY MembersTyped DEF IInv
<1>2. copy' = [copy EXCEPT ![m][x] = status]
  BY <1>0
<1>3. /\ copy' \in [Members -> CopyType] /\ copy'[m][x] = status
      /\ \A n \in Members, y \in Messages : n # m \/ y # x => copy'[n][y] = copy[n][y]
  <2>1. copy[m] \in [Messages -> {"none", "in", "failed", "delivered"}]
    BY <1>1 DEF CopyType
  <2> DEFINE row == [copy[m] EXCEPT ![x] = status]
  <2>2. /\ row \in CopyType /\ row[x] = status
        /\ \A y \in Messages : y # x => row[y] = copy[m][y]
    BY <2>1 DEF CopyType
  <2>3. copy' = [copy EXCEPT ![m] = row]
    BY <1>2
  <2> HIDE DEF row
  <2>4. copy' \in [Members -> CopyType] /\ copy'[m] = row
        /\ \A n \in Members : n # m => copy'[n] = copy[n]
    BY <1>1, <2>2, <2>3
  <2>5. QED
    BY <2>2, <2>4
<1>4. /\ TypeOK' /\ GroupSound' /\ RosterIsCurrent' /\ HostGrows
      /\ RequestsSound' /\ WireSound' /\ OneAnswer'
  BY <1>3, IdleTyped, MovesOn, MembersTyped DEF IInv
<1>5. JoinedIsActive'
  BY DEF IInv, JoinedIsActive
<1>6. request[r].ok => x \in posts
  BY <1>0 DEF IInv, RequestsSound, RequestSound
<1>7. DeliveredIsCommitted'
  BY <1>0, <1>3, <1>6 DEF IInv, DeliveredIsCommitted
<1>8. OnlyLaterPosts'
  BY <1>0, <1>3 DEF IInv, OnlyLaterPosts
<1>9. QED
  BY <1>4, <1>5, <1>7, <1>8 DEF IInv

LEMMA KeepStorePost ==
  ASSUME IInv, NEW r \in Requests, StorePost(r)
  PROVE  IInv'
<1>0. PICK m \in Members, x \in Messages : m = request[r].member /\ x = request[r].msg
  BY RequestTyped DEF IInv
<1> DEFINE status == Outcome(copy[m][x], request[r].ok)
<1>1. copy[m][x] \in {"none", "in", "failed", "delivered"}
  BY MembersTyped DEF IInv, CopyType
<1>2. /\ status \in {"none", "in", "failed", "delivered"}
      /\ status = "in" => copy[m][x] = "in"
      /\ status = "delivered" => request[r].ok \/ copy[m][x] = "delivered"
  BY <1>1 DEF Outcome
<1>3. /\ request[r].step = "store" /\ copy' = [copy EXCEPT ![m][x] = status] /\ Set(r, Idle)
      /\ UNCHANGED <<group, roster, posts, audience, stale, meta, wire, faults, consented>>
  BY <1>0 DEF StorePost, host
<1> HIDE DEF status
<1>4. request[r].kind = "post"
  BY <1>3 DEF IInv, RequestsSound, RequestSound
<1>5. QED
  BY <1>0, <1>2, <1>3, <1>4, CopySettled

LEMMA KeepFinishRetry ==
  ASSUME IInv, NEW r \in Requests, FinishRetry(r)
  PROVE  IInv'
<1>1. /\ request[r].step = "answered" /\ request[r].kind = "retry" /\ Set(r, Idle)
      /\ UNCHANGED <<group, roster, posts, audience, stale, meta, wire, faults, consented>>
  BY DEF FinishRetry, host
<1>2. CASE request[r].ok
  BY <1>1, <1>2, CopySettled DEF FinishRetry
<1>3. CASE ~request[r].ok
  <2>1. UNCHANGED copy
    BY <1>3 DEF FinishRetry
  <2>2. /\ TypeOK' /\ GroupSound' /\ RosterIsCurrent' /\ HostGrows
        /\ RequestsSound' /\ WireSound' /\ OneAnswer'
    BY <1>1, <2>1, IdleTyped, MovesOn, MembersTyped DEF IInv
  <2>3. QED
    BY <1>1, <2>1, <2>2, MembersKept DEF IInv
<1>4. QED
  BY <1>2, <1>3

\* A request gives up its answer: what it sent is still under way, for nobody.
LEMMA LetsGo ==
  ASSUME IInv, NEW r \in Requests, NEW update \in RequestType, Set(r, update),
         wire' = Detached(r), faults' \in 0..MaxFaults,
         ~update.ok \/ update = [request[r] EXCEPT !.step = "answered"],
         update.step # "store",
         UNCHANGED <<group, roster, posts, audience, stale, meta, copy, consented>>
  PROVE  IInv'
<1>1. /\ request' \in [Requests -> RequestType] /\ request'[r] = update
      /\ \A q \in Requests : q # r => request'[q] = request[q]
  BY RequestSet DEF IInv
<1>2. \A f \in wire' : \E e \in wire :
        f = IF e.req = r THEN [e EXCEPT !.req = None] ELSE e
  BY DEF Detached
<1>3. ASSUME NEW f \in wire'
      PROVE  /\ f \in EnvelopeType
             /\ \/ f \in wire /\ (f.req = None \/ request'[f.req] = request[f.req])
                \/ EnvelopeSound(f)' /\ f.req = None
  <2>1. PICK e \in wire : f = IF e.req = r THEN [e EXCEPT !.req = None] ELSE e
    BY <1>2
  <2>2. e \in EnvelopeType /\ EnvelopeSound(e) /\ e.req \in Requests \cup {None}
    BY EnvelopeTyped DEF IInv, WireSound
  <2>3. CASE e.req # r
    BY <1>1, <2>1, <2>2, <2>3
  <2>4. CASE e.req = r
    <3>1. /\ f \in EnvelopeType /\ f.req = None /\ f.kind = e.kind /\ f.member = e.member
          /\ f.inv = e.inv /\ f.msg = e.msg
      BY <2>1, <2>2, <2>4 DEF EnvelopeType
    <3>2. EnvelopeSound(f)'
      BY <2>2, <3>1 DEF EnvelopeSound
    <3>3. QED
      BY <3>1, <3>2
  <2>5. QED
    BY <2>3, <2>4
<1>4. TypeOK'
  BY <1>1, <1>3 DEF IInv, TypeOK, RequestType, EnvelopeType
<1>5. HostGrows
  BY NothingGrows DEF IInv
<1>6. WireSound' /\ OneAnswer'
  BY <1>3, <1>4, <1>5, WireKept
<1>7. RequestSound(r)'
  <2>1. CASE ~update.ok
    BY <1>1, <2>1 DEF RequestSound
  <2>2. CASE update = [request[r] EXCEPT !.step = "answered"]
    <3>1. /\ update.ok = request[r].ok /\ update.kind = request[r].kind
          /\ update.member = request[r].member /\ update.inv = request[r].inv
          /\ update.msg = request[r].msg
      BY <2>2 DEF IInv, TypeOK
    <3>2. RequestSound(r)
      BY DEF IInv, RequestsSound
    <3>3. QED
      BY <1>1, <3>1, <3>2 DEF RequestSound
  <2>3. QED
    BY <2>1, <2>2
<1>8. RequestsSound'
  BY <1>1, <1>5, <1>7, RequestKept DEF RequestsSound
<1>9. QED
  BY <1>4, <1>5, <1>6, <1>8, MembersKept, HostKept DEF IInv

LEMMA KeepTimeOut ==
  ASSUME IInv, NEW r \in Requests, TimeOut(r)
  PROVE  IInv'
<1> DEFINE u == [request[r] EXCEPT !.step = "answered"]
<1>1. u \in RequestType /\ u.step = "answered"
  <2>1. request[r] \in RequestType
    BY DEF IInv, TypeOK, RequestType
  <2>2. QED
    BY <2>1 DEF RequestType
<1>2. /\ Set(r, u) /\ wire' = Detached(r) /\ faults' \in 0..MaxFaults
      /\ UNCHANGED <<group, roster, posts, audience, stale, meta, copy, consented>>
  BY FaultTyped DEF TimeOut, host, member, IInv, TypeOK
<1>3. QED
  BY <1>1, <1>2, LetsGo

LEMMA KeepCrash ==
  ASSUME IInv, NEW r \in Requests, Crash(r)
  PROVE  IInv'
BY IdleTyped, FaultTyped, LetsGo DEF Crash, host, member, IInv, TypeOK

LEMMA KeepLose ==
  ASSUME IInv, NEW e \in wire, Lose(e)
  PROVE  IInv'
<1>1. /\ wire' = wire \ {e} /\ faults' \in 0..MaxFaults
      /\ UNCHANGED <<group, roster, posts, audience, stale, meta, copy, request, consented>>
  BY FaultTyped DEF Lose, host, member, IInv, TypeOK
<1>2. TypeOK'
  BY <1>1 DEF IInv, TypeOK
<1>3. HostGrows
  BY <1>1, NothingGrows DEF IInv
<1>4. WireSound' /\ OneAnswer'
  BY <1>1, <1>2, <1>3, WireKept
<1>5. RequestsSound'
  BY <1>1, <1>3, RequestKept DEF RequestsSound
<1>6. QED
  BY <1>1, <1>2, <1>3, <1>4, <1>5, MembersKept, HostKept DEF IInv

---------------------------------------------------------------------------
(* The invariant. *)

LEMMA InvInit == ASSUME Init PROVE IInv
<1>1. /\ \A m \in Members : group.members[m] = NoMember /\ meta[m] = NoMeta
      /\ \A m \in Members, x \in Messages : copy[m][x] = "none"
      /\ \A r \in Requests : request[r] = Idle
      /\ group.state = "absent" /\ wire = {}
  BY DEF Init
<1>2. TypeOK
  <2>1. request \in [Requests -> RequestType]
    BY IdleTyped DEF Init
  <2>2. group \in [state : {"absent", "open", "deleted"}, members : [Members -> MemberType]]
    BY DEF Init, NoMember, MemberType
  <2>3. meta \in [Members -> MetaType] /\ copy \in [Members -> CopyType]
    BY DEF Init, NoMeta, MetaType, CopyType
  <2>4. /\ roster = {} /\ posts = {} /\ wire = {} /\ consented = {} /\ stale = FALSE
        /\ faults \in 0..MaxFaults
        /\ audience \in [Messages -> SUBSET Members]
    BY GroupAssumption DEF Init
  <2>5. QED
    BY <2>1, <2>2, <2>3, <2>4 DEF TypeOK, RequestType, MemberType, MetaType, CopyType
<1>3. GroupSound /\ RosterIsCurrent
  BY <1>1 DEF GroupSound, RosterIsCurrent, Status, NoMember
<1>4. JoinedIsActive /\ DeliveredIsCommitted /\ OnlyLaterPosts
  BY <1>1 DEF JoinedIsActive, DeliveredIsCommitted, OnlyLaterPosts, NoMeta
<1>5. RequestsSound /\ WireSound /\ OneAnswer
  BY <1>1, IdleTyped DEF RequestsSound, RequestSound, WireSound, OneAnswer
<1>6. QED
  BY <1>2, <1>3, <1>4, <1>5 DEF IInv

LEMMA KeepHandle ==
  ASSUME IInv, NEW e \in wire, Handle(e)
  PROVE  IInv'
BY KeepAccept, KeepDecline, KeepPost, KeepDuplicate, KeepAdded, KeepDeleted, KeepMessage
   DEF Handle

LEMMA KeepProgress ==
  ASSUME IInv, NEW r \in Requests, Progress(r)
  PROVE  IInv'
BY KeepFinishAccept, KeepCheckOpen, KeepStorePost, KeepFinishRetry, KeepTimeOut DEF Progress

LEMMA InvStep == ASSUME IInv, [Next]_vars PROVE IInv'
<1>1. CASE UNCHANGED vars
  <2>1. UNCHANGED <<group, roster, posts, audience, stale, meta, copy, request, wire, faults,
                    consented>>
    BY <1>1 DEF vars
  <2>2. TypeOK' /\ HostGrows
    BY <2>1, NothingGrows DEF IInv, TypeOK
  <2>3. RequestsSound' /\ WireSound' /\ OneAnswer'
    BY <2>1, <2>2, RequestKept, WireKept DEF RequestsSound
  <2>4. QED
    BY <2>1, <2>2, <2>3, MembersKept, HostKept DEF IInv
<1>2. CASE Next
  BY <1>2, KeepCreate, KeepAddMember, KeepDeclineInvitation, KeepDelete, KeepHostPost,
     KeepHandle, KeepLose, KeepBeginAccept, KeepPosting, KeepProgress, KeepCrash DEF Next
<1>3. QED
  BY <1>1, <1>2

---------------------------------------------------------------------------
(* Steps that undo nothing. *)

DecisionKept(m) ==
  /\ meta[m].inv <= meta'[m].inv
  /\ meta[m].state = "accepted" => meta'[m].state = "accepted"
  /\ meta[m].state = "declined" /\ meta'[m].state # "declined"
       => meta'[m].state = "pending" /\ meta'[m].inv > meta[m].inv
  /\ meta[m].closed => meta'[m].closed
CopyKept(m, x) ==
  /\ copy[m][x] = "delivered" => copy'[m][x] = "delivered"
  /\ meta[m].closed /\ copy'[m][x] = "in" => copy[m][x] = "in"
HostStaysClosed == group.state = "deleted" => group'.state = "deleted" /\ posts' = posts

LEMMA MetaStays == ASSUME TypeOK, UNCHANGED meta PROVE \A m \in Members : DecisionKept(m)
BY MembersTyped DEF DecisionKept, MetaType

LEMMA MetaMoves ==
  ASSUME TypeOK, NEW m \in Members, NEW new \in MetaType, meta' = [meta EXCEPT ![m] = new],
         meta[m].inv <= new.inv,
         meta[m].state = "accepted" => new.state = "accepted",
         meta[m].state = "declined" /\ new.state # "declined"
           => new.state = "pending" /\ new.inv > meta[m].inv,
         meta[m].closed => new.closed
  PROVE  \A n \in Members : DecisionKept(n)
<1>1. /\ meta'[m] = new
      /\ \A n \in Members : n # m => meta'[n] = meta[n]
      /\ \A n \in Members : meta[n].inv \in Nat
  BY MembersTyped DEF MetaType
<1>2. QED
  BY <1>1 DEF DecisionKept

LEMMA StepDecides == ASSUME TypeOK, [Next]_vars PROVE \A m \in Members : DecisionKept(m)
<1> DEFINE Kept == \A m \in Members : DecisionKept(m)
<1>1. ASSUME UNCHANGED meta PROVE Kept
  BY <1>1, MetaStays
<1> HIDE DEF Kept
<1>2. ASSUME UNCHANGED vars PROVE Kept
  BY <1>1, <1>2 DEF vars
<1>3. ASSUME NEW e \in wire, HandleAdded(e) PROVE Kept
  <2>0. PICK m \in Members : m = e.member
    BY EnvelopeTyped
  <2>1. meta[m] \in MetaType /\ e.inv \in Nat /\ meta' = [meta EXCEPT ![m] = Merge(meta[m], e.inv)]
    BY <1>3, <2>0, MembersTyped, EnvelopeTyped DEF HandleAdded
  <2> DEFINE new == Merge(meta[m], e.inv)
  <2>2. /\ new \in MetaType
        /\ meta[m].state = "accepted" => new.state = "accepted"
        /\ meta[m].closed => new.closed
        /\ new = meta[m] \/ (new.inv = e.inv /\ e.inv >= meta[m].inv)
        /\ meta[m].state = "declined" /\ new.state # "declined"
             => new.state = "pending" /\ new.inv > meta[m].inv
    BY <2>1, MergeFacts
  <2> HIDE DEF new
  <2>3. meta[m].inv <= new.inv
    BY <2>1, <2>2 DEF MetaType
  <2>4. meta' = [meta EXCEPT ![m] = new]
    BY <2>1 DEF new
  <2>5. QED
    BY <2>2, <2>3, <2>4, MetaMoves DEF Kept
<1>4. ASSUME NEW e \in wire, HandleDeleted(e) PROVE Kept
  <2>0. PICK m \in Members : m = e.member
    BY EnvelopeTyped
  <2> DEFINE new == Tombstone(meta[m])
  <2>1. meta[m] \in MetaType /\ meta' = [meta EXCEPT ![m] = new]
    BY <1>4, <2>0, MembersTyped DEF HandleDeleted
  <2>2. /\ new \in MetaType /\ new.inv = meta[m].inv /\ new.closed
        /\ meta[m].state = "accepted" => new.state = "accepted"
        /\ meta[m].state = "declined" => new.state = "declined"
    BY <2>1 DEF Tombstone, MetaType
  <2> HIDE DEF new
  <2>3. meta[m].inv <= new.inv
    BY <2>1, <2>2 DEF MetaType
  <2>4. QED
    BY <2>1, <2>2, <2>3, MetaMoves DEF Kept
<1>5. ASSUME NEW m \in Members, Pending(m), NEW state \in {"accepted", "declined"},
             meta' = [meta EXCEPT ![m].state = state]
      PROVE  Kept
  <2> DEFINE new == [meta[m] EXCEPT !.state = state]
  <2>1. meta[m] \in MetaType /\ meta' = [meta EXCEPT ![m] = new]
    BY <1>5, MembersTyped
  <2>2. /\ new \in MetaType /\ new.inv = meta[m].inv /\ ~meta[m].closed
        /\ meta[m].state = "pending" /\ meta[m].inv <= new.inv
    BY <1>5, <2>1 DEF MetaType, Pending
  <2> HIDE DEF new
  <2>3. QED
    BY <2>1, <2>2, MetaMoves DEF Kept
<1>6. ASSUME NEW r \in Requests, FinishAccept(r) PROVE Kept
  <2>0. PICK m \in Members : m = request[r].member
    BY RequestTyped
  <2>1. \/ UNCHANGED meta
        \/ Pending(m) /\ meta' = [meta EXCEPT ![m].state = "accepted"]
    BY <1>6, <2>0 DEF FinishAccept, MayDecide
  <2>2. QED
    BY <1>1, <1>5, <2>1
<1>7. ASSUME NEW m \in Members, Decline(m) PROVE Kept
  BY <1>5, <1>7 DEF Decline
<1>8. ASSUME NEW e \in wire, Handle(e) \/ Lose(e) PROVE Kept
  BY <1>1, <1>3, <1>4, <1>8
     DEF Handle, HandleAccept, HandleDecline, HandlePost, HandleDuplicate, HandleMessage, Lose,
         member
<1>9. ASSUME NEW r \in Requests, Progress(r) \/ Crash(r) PROVE Kept
  BY <1>1, <1>6, <1>9 DEF Progress, CheckOpen, StorePost, FinishRetry, TimeOut, Crash, member
<1>10. ASSUME NEW r \in Requests, NEW x \in Messages, SendPost(r, x) \/ RetryPost(r, x)
       PROVE  Kept
  BY <1>1, <1>10 DEF SendPost, RetryPost, member
<1>11. ASSUME NEW m \in Members, AddMember(m) \/ \E r \in Requests : BeginAccept(r, m)
       PROVE  Kept
  BY <1>1, <1>11 DEF AddMember, BeginAccept, member
<1>12. ASSUME NEW x \in Messages, HostPost(x) PROVE Kept
  BY <1>1, <1>12 DEF HostPost, member
<1>13. ASSUME Delete \/ \E invitees \in SUBSET Members : Create(invitees) PROVE Kept
  BY <1>1, <1>13 DEF Delete, Create, member
<1>14. Kept
  BY <1>2, <1>7, <1>8, <1>9, <1>10, <1>11, <1>12, <1>13 DEF Next
<1>15. QED
  BY <1>14 DEF Kept

LEMMA CopyMoves ==
  ASSUME TypeOK, NEW m \in Members, NEW x \in Messages, NEW status,
         copy' = [copy EXCEPT ![m][x] = status],
         copy[m][x] = "delivered" => status = "delivered",
         meta[m].closed /\ status = "in" => copy[m][x] = "in"
  PROVE  \A n \in Members, y \in Messages : CopyKept(n, y)
<1>1. copy \in [Members -> CopyType]
  BY MembersTyped
<1>2. \A n \in Members, y \in Messages :
        copy'[n][y] = IF n = m /\ y = x THEN status ELSE copy[n][y]
  BY <1>1 DEF CopyType
<1>3. QED
  BY <1>2 DEF CopyKept

LEMMA StepSettles ==
  ASSUME IInv, [Next]_vars
  PROVE  \A m \in Members, x \in Messages : CopyKept(m, x)
<1> DEFINE Kept == \A m \in Members, x \in Messages : CopyKept(m, x)
<1>1. ASSUME UNCHANGED copy PROVE Kept
  BY <1>1 DEF CopyKept
<1> HIDE DEF Kept
<1>2. ASSUME UNCHANGED vars PROVE Kept
  BY <1>1, <1>2 DEF vars
<1>3. ASSUME NEW e \in wire, HandleMessage(e) PROVE Kept
  <2>0. PICK m \in Members, x \in Messages : m = e.member /\ x = e.msg
    BY EnvelopeTyped DEF IInv
  <2>1. \/ UNCHANGED copy
        \/ ~meta[m].closed /\ copy[m][x] = "none" /\ copy' = [copy EXCEPT ![m][x] = "in"]
    BY <1>3, <2>0 DEF HandleMessage
  <2>2. QED
    BY <1>1, <2>1, CopyMoves DEF Kept, IInv
<1>4. ASSUME NEW r \in Requests, StorePost(r) PROVE Kept
  <2>0. PICK m \in Members, x \in Messages : m = request[r].member /\ x = request[r].msg
    BY RequestTyped DEF IInv
  <2> DEFINE status == Outcome(copy[m][x], request[r].ok)
  <2>1. copy' = [copy EXCEPT ![m][x] = status]
    BY <1>4, <2>0 DEF StorePost
  <2>2. /\ copy[m][x] = "delivered" => status = "delivered"
        /\ status = "in" => copy[m][x] = "in"
    BY DEF Outcome
  <2> HIDE DEF status
  <2>3. QED
    BY <2>1, <2>2, CopyMoves DEF Kept, IInv
<1>5. ASSUME NEW r \in Requests, FinishRetry(r) PROVE Kept
  <2>0. PICK m \in Members, x \in Messages : m = request[r].member /\ x = request[r].msg
    BY RequestTyped DEF IInv
  <2>1. UNCHANGED copy \/ copy' = [copy EXCEPT ![m][x] = "delivered"]
    BY <1>5, <2>0 DEF FinishRetry
  <2>2. QED
    BY <1>1, <2>1, CopyMoves DEF Kept, IInv
<1>6. ASSUME NEW e \in wire, Handle(e) \/ Lose(e) PROVE Kept
  BY <1>1, <1>3, <1>6
     DEF Handle, HandleAccept, HandleDecline, HandlePost, HandleDuplicate, HandleAdded,
         HandleDeleted, Lose, member
<1>7. ASSUME NEW r \in Requests, Progress(r) \/ Crash(r) PROVE Kept
  BY <1>1, <1>4, <1>5, <1>7 DEF Progress, FinishAccept, CheckOpen, TimeOut, Crash, member
<1>8. ASSUME NEW r \in Requests, NEW x \in Messages, SendPost(r, x) \/ RetryPost(r, x)
      PROVE  Kept
  BY <1>1, <1>8 DEF SendPost, RetryPost, member
<1>9. ASSUME NEW m \in Members, AddMember(m) \/ Decline(m) \/ \E r \in Requests : BeginAccept(r, m)
      PROVE  Kept
  BY <1>1, <1>9 DEF AddMember, Decline, BeginAccept, member
<1>10. ASSUME NEW x \in Messages, HostPost(x) PROVE Kept
  BY <1>1, <1>10 DEF HostPost, member
<1>11. ASSUME Delete \/ \E invitees \in SUBSET Members : Create(invitees) PROVE Kept
  BY <1>1, <1>11 DEF Delete, Create, member
<1>12. Kept
  BY <1>2, <1>6, <1>7, <1>8, <1>9, <1>10, <1>11 DEF Next
<1>13. QED
  BY <1>12 DEF Kept

\* Only a record that is open is posted to or given members, and nothing opens it again.
LEMMA StepCloses == ASSUME TypeOK, [Next]_vars PROVE HostStaysClosed
<1>1. SUFFICES ASSUME group.state = "deleted" PROVE group'.state = "deleted" /\ posts' = posts
  BY DEF HostStaysClosed
<1>2. ASSUME UNCHANGED <<group, posts>> PROVE group'.state = "deleted" /\ posts' = posts
  BY <1>1, <1>2
<1>3. CASE UNCHANGED vars
  BY <1>2, <1>3 DEF vars
<1>4. CASE Delete
  BY <1>1, <1>4 DEF Delete, TypeOK
<1>5. ASSUME NEW e \in wire, Handle(e) \/ Lose(e) PROVE UNCHANGED <<group, posts>>
  BY <1>1, <1>5
     DEF Handle, HandleAccept, AcceptAllowed, HandleDecline, DeclineAllowed, HandlePost, MayPost,
         HandleDuplicate, HandleAdded, HandleDeleted, HandleMessage, Lose, host
<1>6. ASSUME NEW r \in Requests, Progress(r) \/ Crash(r) PROVE UNCHANGED <<group, posts>>
  BY <1>6 DEF Progress, FinishAccept, CheckOpen, StorePost, FinishRetry, TimeOut, Crash, host
<1>7. ASSUME NEW r \in Requests, NEW x \in Messages, SendPost(r, x) \/ RetryPost(r, x)
      PROVE  UNCHANGED <<group, posts>>
  BY <1>7 DEF SendPost, RetryPost, host
<1>8. ASSUME NEW m \in Members, Decline(m) \/ \E r \in Requests : BeginAccept(r, m)
      PROVE  UNCHANGED <<group, posts>>
  BY <1>8 DEF Decline, BeginAccept, host
<1>9. /\ \A m \in Members : ~AddMember(m)
      /\ \A x \in Messages : ~HostPost(x)
      /\ \A invitees \in SUBSET Members : ~Create(invitees)
  BY <1>1 DEF AddMember, HostPost, Create
<1>10. QED
  BY <1>2, <1>3, <1>4, <1>5, <1>6, <1>7, <1>8, <1>9 DEF Next

---------------------------------------------------------------------------
(* The theorems. *)

\* The inductive invariant: what the host's record, the members' copies, the requests and
\* the envelopes under way say of each other.
THEOREM InvHolds == Spec => []IInv
BY InvInit, InvStep, PTL DEF Spec

\* Types of the state.
THEOREM TypesHold == Spec => []TypeOK
<1>1. IInv => TypeOK
  BY DEF IInv
<1>2. QED
  BY <1>1, InvHolds, PTL

\* Who shows itself as joined is active at the host under the invitation it accepted, and
\* the roster shown is the record's (_accept_group_envelope).
THEOREM MembershipHolds == Spec => []MembershipIsMutual
<1>1. IInv => MembershipIsMutual
  BY DEF IInv, MembershipIsMutual
<1>2. QED
  BY <1>1, InvHolds, PTL

\* What an author sees as delivered is committed, and a member holds only posts committed
\* after it asked to join (send_group_message, _fan_out).
THEOREM PostsHold == Spec => []PostsReachMembers
<1>1. IInv => PostsReachMembers
  BY DEF IInv, PostsReachMembers
<1>2. QED
  BY <1>1, InvHolds, PTL

\* No delayed or repeated envelope undoes a decision, the closing of a group or a delivery
\* (_apply_member_group_lifecycle, delete_group).
THEOREM NothingUndoneHolds == Spec => NothingIsUndone
<1>1. IInv /\ [Next]_vars =>
        [\A m \in Members : DecisionKept(m)]_vars /\
        [\A m \in Members, x \in Messages : CopyKept(m, x)]_vars /\ [HostStaysClosed]_vars
  BY StepDecides, StepSettles, StepCloses DEF IInv
<1>2. Spec => /\ [][\A m \in Members : DecisionKept(m)]_vars
              /\ [][\A m \in Members, x \in Messages : CopyKept(m, x)]_vars
              /\ [][HostStaysClosed]_vars
  BY <1>1, InvHolds, PTL DEF Spec
<1>3. [\A m \in Members : DecisionKept(m)]_vars /\
      [\A m \in Members, x \in Messages : CopyKept(m, x)]_vars /\ [HostStaysClosed]_vars
      => /\ [\A m \in Members :
              /\ meta[m].inv <= meta'[m].inv
              /\ meta[m].state = "accepted" => meta'[m].state = "accepted"
              /\ meta[m].state = "declined" /\ meta'[m].state # "declined"
                   => meta'[m].state = "pending" /\ meta'[m].inv > meta[m].inv]_vars
         /\ [/\ group.state = "deleted" => group'.state = "deleted" /\ posts' = posts
             /\ \A m \in Members : meta[m].closed =>
                  /\ meta'[m].closed
                  /\ \A x \in Messages : copy'[m][x] = "in" => copy[m][x] = "in"]_vars
         /\ [\A m \in Members, x \in Messages :
               copy[m][x] = "delivered" => copy'[m][x] = "delivered"]_vars
  BY DEF DecisionKept, CopyKept, HostStaysClosed, vars
<1>4. Spec => DecisionsHold /\ ClosedIsFinal /\ DeliveryHolds
  BY <1>2, <1>3, PTL DEF DecisionsHold, ClosedIsFinal, DeliveryHolds
<1>5. QED
  BY <1>4 DEF NothingIsUndone
============================================================================
