------------------------- MODULE ObjectInvitations -------------------------
(* The invitations to shared objects that an instance has received, and the          *)
(* objects of other instances it has joined (social_objects.py).                    *)
(*                                                                                *)
(* A signed invitation is handled in the public lane, one at a time, and may be       *)
(* delivered again as long as its timestamp is accepted. The owner declines, joins     *)
(* and leaves in processes beside that lane. SharedObjects has the host's side.        *)
EXTENDS Naturals, FiniteSets

CONSTANTS
  Objects,  \* objects of other instances
  None,
  Skew,     \* CLOCK_SKEW_S
  Limit,    \* MAX_RECEIVED_INVITATIONS
  MaxSent,  \* bound on the invitations the hosts sign
  MaxTime   \* bound on the clock

InvitationsAssumption ==
  /\ IsFiniteSet(Objects) /\ None \notin Objects
  /\ {Skew, Limit, MaxSent, MaxTime} \subseteq Nat

VARIABLES
  now,
  sent,     \* the invitations signed so far: each an object and a timestamp
  record,   \* invitations/<host>__<oid>.json
  remote,   \* the objects with a remote/<host>__<oid>.json
  lane,     \* the invitation the public lane has admitted and not written
  joining,  \* join_object, for each object
  (* history of the run *)
  refused,  \* the newest invitation declined since the object was last joined
  crossed   \* a receipt overlapped the join, or a process died between the join's writes

vars == <<now, sent, record, remote, lane, joining, refused, crossed>>

---------------------------------------------------------------------------
NoRecord == [status |-> "none", at |-> 0, declined |-> 0]
Pending(t) == [status |-> "pending", at |-> t, declined |-> 0]
NoEnvelope == [of |-> None, at |-> 0]
Recorded == {o \in Objects : record[o].status # "none"}

Init ==
  /\ now = 0 /\ sent = {} /\ lane = NoEnvelope
  /\ record = [o \in Objects |-> NoRecord] /\ remote = {}
  /\ joining = [o \in Objects |-> "no"]
  /\ refused = [o \in Objects |-> 0] /\ crossed = {}

(* A host signs an invitation; its clock may be ahead. *)
Invite(o) ==
  /\ Cardinality(sent) < MaxSent
  /\ \E t \in {now, now + Skew} : t > 0 /\ sent' = sent \cup {[of |-> o, at |-> t]}
  /\ UNCHANGED <<now, record, remote, lane, joining, refused, crossed>>

Tick ==
  /\ now < MaxTime /\ now' = now + 1
  /\ UNCHANGED <<sent, record, remote, lane, joining, refused, crossed>>

---------------------------------------------------------------------------
(* verify_envelope: the timestamp is within the skew of this instance's clock. *)
Accepted(e) == now <= e.at + Skew /\ e.at <= now + Skew

\* Mutant: a declined invitation is remembered for one skew.
Expired_Early(o) == record[o].status = "declined" /\ record[o].declined + Skew < now

(* What a declined invitation leaves behind outlives every copy of it. *)
Expired(o) == record[o].status = "declined" /\ record[o].declined + 2 * Skew < now

\* Mutant: only a pending request stands in the way of an invitation.
Stale_Pending(e) == record[e.of].status = "pending"

Stale(e) ==
  \/ record[e.of].status = "pending"
  \/ record[e.of].status = "declined" /\ e.at <= record[e.of].at

(* receive_invitation, until the record is written: a first invitation clears what      *)
(* expired and needs room; a repeated one changes nothing.                           *)
Receive(e) ==
  /\ lane = NoEnvelope /\ Accepted(e) /\ e.of \notin remote /\ ~Stale(e)
  /\ IF record[e.of].status # "none" THEN lane' = e /\ UNCHANGED record
     ELSE /\ record' = [o \in Objects |-> IF Expired(o) THEN NoRecord ELSE record[o]]
          /\ lane' = IF Cardinality({o \in Recorded : ~Expired(o)}) >= Limit THEN NoEnvelope ELSE e
  /\ UNCHANGED <<now, sent, remote, joining, refused, crossed>>

Write ==
  /\ lane # NoEnvelope
  /\ record' = [record EXCEPT ![lane.of] = Pending(lane.at)]
  /\ crossed' = IF lane.of \in remote THEN crossed \cup {lane.of} ELSE crossed
  /\ lane' = NoEnvelope
  /\ UNCHANGED <<now, sent, remote, joining, refused>>

LaneDies ==
  /\ lane # NoEnvelope /\ lane' = NoEnvelope
  /\ UNCHANGED <<now, sent, record, remote, joining, refused, crossed>>

---------------------------------------------------------------------------
\* Mutant: the refusal is dated by the clock that declined it.
Refusal_Now(o) == [status |-> "declined", at |-> now, declined |-> now]

(* The signed timestamp stays: a copy of the invitation is known by it. *)
Refusal(o) == [record[o] EXCEPT !.status = "declined", !.declined = now]

(* decline_invitation, of an invitation that is listed; the host may hear of it. *)
Decline(o) ==
  /\ record[o].status = "pending"
  /\ record' = [record EXCEPT ![o] = Refusal(o)]
  /\ refused' = [refused EXCEPT ![o] = record[o].at]
  /\ UNCHANGED <<now, sent, remote, lane, joining, crossed>>

(* join_object, by invitation or by code: the host is asked and admits or not. *)
Join(o) ==
  /\ joining[o] = "no" /\ joining' = [joining EXCEPT ![o] = "asked"]
  /\ UNCHANGED <<now, sent, record, remote, lane, refused, crossed>>

JoinFails(o) ==
  /\ joining[o] = "asked" /\ joining' = [joining EXCEPT ![o] = "no"]
  /\ UNCHANGED <<now, sent, record, remote, lane, refused, crossed>>

SaveRemote(o) ==
  /\ joining[o] = "asked" /\ joining' = [joining EXCEPT ![o] = "saved"]
  /\ remote' = remote \cup {o}
  /\ UNCHANGED <<now, sent, record, lane, refused, crossed>>

Consume(o) ==
  /\ joining[o] = "saved" /\ joining' = [joining EXCEPT ![o] = "no"]
  /\ record' = [record EXCEPT ![o] = NoRecord] /\ refused' = [refused EXCEPT ![o] = 0]
  /\ crossed' = IF lane.of = o THEN crossed ELSE crossed \ {o}
  /\ UNCHANGED <<now, sent, remote, lane>>

(* The process dies before the stored invitation is consumed. *)
JoinDies(o) ==
  /\ joining[o] = "saved" /\ joining' = [joining EXCEPT ![o] = "no"]
  /\ crossed' = crossed \cup {o}
  /\ UNCHANGED <<now, sent, record, remote, lane, refused>>

(* leave_object, until which the object is not left: the host may hear of it. *)
Leave(o) ==
  /\ o \in remote /\ joining[o] = "no" /\ remote' = remote \ {o}
  /\ UNCHANGED <<now, sent, record, lane, joining, refused, crossed>>

Next ==
  \/ Tick \/ Write \/ LaneDies
  \/ \E e \in sent : Receive(e)
  \/ \E o \in Objects : Invite(o) \/ Decline(o) \/ Join(o) \/ JoinFails(o) \/ SaveRemote(o)
                        \/ Consume(o) \/ JoinDies(o) \/ Leave(o)
Spec == Init /\ [][Next]_vars

---------------------------------------------------------------------------
TypeOK ==
  /\ now \in 0..MaxTime /\ sent \subseteq [of : Objects, at : 1..(MaxTime + Skew)]
  /\ record \in [Objects -> [status : {"none", "pending", "declined"},
                             at : 0..(MaxTime + Skew), declined : 0..MaxTime]]
  /\ Cardinality(Recorded) <= Limit /\ remote \subseteq Objects /\ lane \in sent \cup {NoEnvelope}
  /\ joining \in [Objects -> {"no", "asked", "saved"}]
  /\ refused \in [Objects -> 0..(MaxTime + Skew)] /\ crossed \subseteq Objects

(* receive_invitation, "Retries cannot refresh requests or undo a decline": what the owner  *)
(* declined is not asked again by a copy, however late, of that invitation or of an older.  *)
DeclineStands == \A o \in Objects : record[o].status = "pending" => record[o].at > refused[o]

(* join_object, "Accepting consumes any stored invitation": no invitation waits for an       *)
(* object that is joined, unless a receipt overlapped the join or the join died half done.   *)
JoinedIsNotInvited == \A o \in remote :
  record[o].status = "pending" => joining[o] = "saved" \/ o \in crossed
============================================================================
